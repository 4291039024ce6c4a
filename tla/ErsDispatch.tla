----------------------------- MODULE ErsDispatch -----------------------------
(***************************************************************************)
(* Emergency calls of one ERS configuration of fs-enrs: the call scripts   *)
(* of the callers, the internal API they use                               *)
(* (controllers/internal/ersInternalController.js), the ring-all loops     *)
(* (services/ersRingService.js) and the reconciliation of incidents with   *)
(* FreeSWITCH's conferences (services/eslService.js).  A configuration has *)
(* two tiers; its conferences are STATIC, so a tier's room is its bridge   *)
(* number and a tier stands here for its room.  One action is one database *)
(* transaction or one await of the JavaScript code, or one step of a       *)
(* script between two requests.                                            *)
(*                                                                         *)
(* A call makes at most one incident and one queue row, which bear the     *)
(* caller's name.                                                          *)
(***************************************************************************)
EXTENDS Naturals, FiniteSets, Sequences

CONSTANTS
  Caller,      \* the calls
  Script,      \* the scripts that a call may run: see Scripts
  MaxConcurrent, \* max_concurrent_conferences: a third slot would share the
                 \* room of the first, which a tier's name does not express
  None,        \* no incident, no caller
  Earlier,     \* rooms that may be in use before the first call
  DisturbBound \* bound: requests, counts and events that fail, and
               \* interventions of a supervisor

Tier    == {"primary", "secondary"}
\* "ring":   an IVR flow with an ers_ring_all node for the primary tier
\* "flow":   a flow with overflow check, ring-all and overflow wait
\* "bridge": ers_conference_bridge.lua
Scripts == {"ring", "flow", "bridge"}

ASSUME ErsConstantsOK ==
  /\ IsFiniteSet(Caller)
  /\ None \notin Caller
  /\ Script \in [Caller -> SUBSET Scripts]
  /\ MaxConcurrent \in 1..2
  /\ Earlier \subseteq SUBSET Tier
  /\ DisturbBound \in Nat

VARIABLES
  \* the tables
  inc,     \* ers_incidents: status, group_type, conference_room
  started, \* incidents in the order of started_at
  row,     \* ers_queues.status
  pos,     \* ers_queues.position
  old,     \* rows created more than two hours ago
  \* the call scripts
  pc,      \* where the call is
  want,    \* the tier it has been told to take
  at,      \* the room it was told to join and the incident to complete
  \* the conferences and the ring loops, per room
  answered,\* a responder is in the room
  legs,    \* originated responder legs are still ringing
  ring,    \* the ring loop and the caller that started it
  \* reconciliation
  destroyed, \* rooms whose conference-destroy event is on its way
  doomed,  \* incidents that a reconciliation has read and will complete
  disturbed, \* failures and interventions so far
  owed     \* history: see StartRing

tables  == <<inc, started, row, pos, old>>
scripts == <<pc, want, at>>
rooms   == <<answered, legs, ring>>
vars == <<tables, scripts, rooms, destroyed, doomed, disturbed, owed>>

----------------------------------------------------------------------------
Incident == [status: {"none", "QUEUED", "ACTIVE", "COMPLETED", "CANCELLED"},
             tier: Tier, room: Tier]
Ticket   == [room: Tier, uuid: Caller \cup {None}]

TypeOK ==
  /\ inc \in [Caller -> Incident]
  /\ started \in Seq(Caller)
  /\ row \in [Caller -> {"none", "QUEUED", "DEQUEUED", "CANCELLED", "EXPIRED"}]
  /\ pos \in [Caller -> Nat]
  /\ old \in SUBSET Caller
  /\ pc \in [Caller -> {"idle", "ringAll", "insert", "enqueue", "queueInsert",
                        "wait", "promote", "create", "createQueued", "held", "joining", "in",
                        "post", "done"}]
  /\ want \in [Caller -> Tier]
  /\ at \in [Caller -> Ticket]
  /\ answered \in SUBSET Tier
  /\ legs \in SUBSET Tier
  /\ ring \in [Tier -> [st: {"off", "first", "again"}, owner: Caller \cup {None}]]
  /\ destroyed \in SUBSET Tier
  /\ doomed \in SUBSET Caller
  /\ disturbed \in 0..DisturbBound
  /\ owed \in SUBSET Caller

----------------------------------------------------------------------------
(* The rooms.                                                              *)

InRoom(r)  == {c \in Caller : pc[c] = "in" /\ at[c].room = r}
Members(r) == Cardinality(InRoom(r)) + (IF r \in answered THEN 1 ELSE 0)

Disturb == disturbed < DisturbBound /\ disturbed' = disturbed + 1

\* getConferenceMemberCount: what FreeSWITCH says, or 0 if the command fails.
Count(r, n) == \/ n = Members(r) /\ UNCHANGED disturbed
               \/ n = 0 /\ Disturb
CountRange == 0..(Cardinality(Caller) + 1)

\* tierLiveStatus of both tiers: primary before secondary.
FreeTier(t) == \/ t = "primary" /\ Count("primary", 0)
               \/ t = "secondary" /\ Members("primary") > 0 /\ Count("secondary", 0)

\* The room was left by its last member.
Emptied(r) == destroyed' = IF Members(r) = 1 THEN destroyed \cup {r} ELSE destroyed

(* Incidents and the queue.                                                *)

Active(r) == {i \in Caller : inc[i].status = "ACTIVE" /\ inc[i].room = r}
Queued    == {c \in Caller : row[c] = "QUEUED"}

\* Rows that SELECT ... ORDER BY position LIMIT 1 may return.
BugHeads == Queued
Heads    == {c \in Queued : \A d \in Queued : pos[c] <= pos[d]}

\* The queued rows are locked by an enqueue that found any.
Locked == \E c \in Caller : pc[c] = "queueInsert" /\ pos[c] > 1

\* SELECT ... ORDER BY started_at DESC LIMIT 1: status does not matter.
Newest(t) ==
  LET ofTier == {k \in DOMAIN started : inc[started[k]].tier = t}
  IN IF ofTier = {} THEN {None}
     ELSE {started[k] : k \in {n \in ofTier : \A m \in ofTier : m <= n}}

New(status, tier, room) == [status |-> status, tier |-> tier, room |-> room]

\* COALESCE(MAX(position), 0) + 1, the one element of NextPosition.
AfterAll(p)     == /\ \A d \in Queued : pos[d] < p
                   /\ p = 1 \/ \E d \in Queued : p = pos[d] + 1
BugNextPosition == {p \in 2..(Cardinality(Caller) + 1) : AfterAll(p)}
                   \cup (IF Queued = {} THEN {None} ELSE {})
NextPosition    == {p \in 1..(Cardinality(Caller) + 1) : AfterAll(p)}

BugDequeue(c) == row
Dequeue(c)    == [row EXCEPT ![c] = "DEQUEUED"]

\* completeIncidentCore: complete i once and give its tier to the queue's head.
\* Nobody is rung for the caller that is promoted here.
Open(i) == i # None /\ inc[i].status # "COMPLETED"
CompleteIncident(i) ==
  \/ /\ ~Open(i)
     /\ UNCHANGED <<inc, row>>
  \/ /\ Open(i)
     /\ Heads = {}
     /\ inc' = [inc EXCEPT ![i].status = "COMPLETED"]
     /\ UNCHANGED row
  \/ /\ Open(i)
     /\ ~Locked
     /\ \E h \in Heads :
          /\ row' = Dequeue(h)
          /\ inc' = [inc EXCEPT ![i].status = "COMPLETED",
                                ![h] = New("ACTIVE", inc[i].tier, inc[i].tier)]

\* startRingAll does nothing when the room has a loop.  owed has the callers
\* for whom a loop was started and who have since been alone in their room.
StartRing(r, c) ==
  IF ring[r].st = "off"
  THEN /\ ring' = [ring EXCEPT ![r] = [st |-> "first", owner |-> c]]
       /\ owed' = owed \cup {c}
  ELSE UNCHANGED <<ring, owed>>

Goto(c, where) == pc' = [pc EXCEPT ![c] = where]
Tell(c, r, i)  == at' = [at EXCEPT ![c] = [room |-> r, uuid |-> i]]

NoTicket == [room |-> "primary", uuid |-> None]
\* The script ends, and with it what it knew.
End(c) == /\ Goto(c, "done")
          /\ want' = [want EXCEPT ![c] = "primary"]
          /\ at' = [at EXCEPT ![c] = NoTicket]

----------------------------------------------------------------------------
\* The responders of an earlier call, completed since, may still be talking.
Init ==
  /\ inc = [c \in Caller |-> New("none", "primary", "primary")]
  /\ started = <<>>
  /\ row = [c \in Caller |-> "none"] /\ pos = [c \in Caller |-> 0] /\ old = {}
  /\ pc = [c \in Caller |-> "idle"]
  /\ want = [c \in Caller |-> "primary"]
  /\ at = [c \in Caller |-> NoTicket]
  /\ answered \in Earlier /\ legs = {}
  /\ ring = [r \in Tier |-> [st |-> "off", owner |-> None]]
  /\ destroyed = {}
  /\ doomed = {}
  /\ disturbed = 0
  /\ owed = {}

----------------------------------------------------------------------------
(* A call of an IVR flow.                                                  *)

\* The overflow check: primary before secondary, and "full" when the request
\* fails.
CheckTiers(c) ==
  /\ pc[c] = "idle" /\ "flow" \in Script[c]
  /\ \/ \E t \in Tier : /\ FreeTier(t)
                        /\ want' = [want EXCEPT ![c] = t]
        /\ Goto(c, "ringAll")
     \/ /\ (Members("primary") > 0 /\ Members("secondary") > 0 /\ UNCHANGED disturbed) \/ Disturb
        /\ Goto(c, "enqueue")
        /\ UNCHANGED want
  /\ UNCHANGED <<tables, at, rooms, destroyed, doomed, owed>>

DialRingAll(c) ==
  /\ pc[c] = "idle" /\ "ring" \in Script[c]
  /\ Goto(c, "ringAll")
  /\ UNCHANGED <<tables, want, at, rooms, destroyed, doomed, owed, disturbed>>

\* ersRingAll takes the advisory lock and counts the members of the tier's
\* room.  If there are any, the call joins them under the newest incident.
RingAllRead(c) ==
  /\ pc[c] = "ringAll"
  /\ \A d \in Caller : pc[d] # "insert"
  /\ \/ /\ Count(want[c], 0)
        /\ Goto(c, "insert")
        /\ UNCHANGED at
     \/ /\ Members(want[c]) > 0
        /\ Goto(c, "joining")
        /\ \E i \in Newest(want[c]) : Tell(c, want[c], i)
        /\ UNCHANGED disturbed
  /\ UNCHANGED <<tables, want, rooms, destroyed, doomed, owed>>

\* It commits a new incident, which releases the lock, and starts the loop.
RingAllInsert(c) ==
  /\ pc[c] = "insert"
  /\ inc' = [inc EXCEPT ![c] = New("ACTIVE", want[c], want[c])]
  /\ started' = Append(started, c)
  /\ StartRing(want[c], c)
  /\ Goto(c, "joining")
  /\ Tell(c, want[c], c)
  /\ UNCHANGED <<row, pos, old, want, answered, legs, destroyed, doomed, disturbed>>

\* ersOverflowEnqueue locks the queued rows, if there are any, and reads the
\* last position.
EnqueueRead(c) ==
  /\ pc[c] = "enqueue"
  /\ ~Locked
  /\ \E p \in NextPosition : pos' = [pos EXCEPT ![c] = p]
  /\ Goto(c, "queueInsert")
  /\ UNCHANGED <<inc, started, row, old, want, at, rooms, destroyed, doomed, owed, disturbed>>

EnqueueInsert(c) ==
  /\ pc[c] = "queueInsert"
  /\ inc' = [inc EXCEPT ![c] = New("QUEUED", "primary", "primary")]
  /\ started' = Append(started, c)
  /\ row' = [row EXCEPT ![c] = "QUEUED"]
  /\ Goto(c, "wait")
  /\ UNCHANGED <<pos, old, want, at, rooms, destroyed, doomed, owed, disturbed>>

\* ersOverflowPoll answers that the row has been promoted.
PollReady(c) ==
  /\ pc[c] = "wait" /\ row[c] = "DEQUEUED"
  /\ Goto(c, "joining")
  /\ Tell(c, inc[c].room, c)
  /\ UNCHANGED <<tables, want, rooms, destroyed, doomed, owed, disturbed>>

\* It finds the row at the head and a tier free, primary first.  A call that
\* enqueued while another was about to insert polls after that insert.
Inserting == {d \in Caller : pc[d] = "queueInsert" /\ pos[d] = 1}
PollRead(c) ==
  /\ pc[c] = "wait" /\ c \in Heads
  /\ Inserting = {}
  /\ \E t \in Tier : FreeTier(t) /\ want' = [want EXCEPT ![c] = t]
  /\ Goto(c, "promote")
  /\ UNCHANGED <<tables, at, rooms, destroyed, doomed, owed>>

\* Under the row's lock it looks at the status again.
BugStillQueued(c) == TRUE
StillQueued(c)    == row[c] = "QUEUED"
PollPromote(c) ==
  /\ pc[c] = "promote"
  /\ ~Locked
  /\ \/ /\ StillQueued(c)
        /\ row' = Dequeue(c)
        /\ inc' = [inc EXCEPT ![c] = New("ACTIVE", want[c], want[c])]
        /\ StartRing(want[c], c)
        /\ Goto(c, "joining")
        /\ Tell(c, want[c], c)
     \/ /\ ~StillQueued(c)
        /\ Goto(c, "wait")
        /\ UNCHANGED <<inc, row, at, ring, owed>>
  /\ UNCHANGED <<started, pos, old, want, answered, legs, destroyed, doomed, disturbed>>

\* The caller hangs up, the maximum wait has passed or a supervisor cancelled
\* the row: the script leaves its loop and tells the backend nothing.
StopWaiting(c) ==
  /\ pc[c] = "wait"
  /\ End(c)
  /\ UNCHANGED <<tables, rooms, destroyed, doomed, owed, disturbed>>

\* The caller joins the room.  A second caller makes it count as answered.
Join(c) ==
  /\ pc[c] = "joining"
  /\ Goto(c, "in")
  /\ owed' = IF Members(at[c].room) = 0 THEN owed
             ELSE {d \in owed : at[d].room # at[c].room}
  /\ UNCHANGED <<tables, want, at, rooms, destroyed, doomed, disturbed>>

\* The caller has hung up before the script could join it.
MissRoom(c) ==
  /\ pc[c] = "joining"
  /\ Goto(c, "post")
  /\ owed' = owed \ {c}
  /\ UNCHANGED <<tables, want, at, rooms, destroyed, doomed, disturbed>>

Leave(c) ==
  /\ pc[c] = "in"
  /\ Goto(c, "post")
  /\ Emptied(at[c].room)
  /\ owed' = owed \ {c}
  /\ UNCHANGED <<tables, want, at, rooms, doomed, disturbed>>

\* The script reports the end of its leg, a rejoined leg like the first.
PostComplete(c) ==
  /\ pc[c] = "post"
  /\ CompleteIncident(at[c].uuid)
  /\ End(c)
  /\ UNCHANGED <<started, pos, old, rooms, destroyed, doomed, owed, disturbed>>

\* The request does not reach the backend.
PostLost(c) ==
  /\ pc[c] = "post"
  /\ Disturb
  /\ End(c)
  /\ UNCHANGED <<tables, rooms, destroyed, doomed, owed>>

----------------------------------------------------------------------------
(* A call of ers_conference_bridge.lua.                                    *)

\* ersLookup assigns a slot, and from it a tier and a room, by the number of
\* ACTIVE incidents.
Slot == 1 + Cardinality({i \in Caller : inc[i].status = "ACTIVE"})
BridgeLookup(c) ==
  /\ pc[c] = "idle" /\ "bridge" \in Script[c]
  /\ want' = [want EXCEPT ![c] = IF Slot = 1 THEN "primary" ELSE "secondary"]
  /\ Tell(c, IF Slot = 2 THEN "secondary" ELSE "primary", c)
  /\ Goto(c, IF Slot <= MaxConcurrent THEN "create" ELSE "createQueued")
  /\ UNCHANGED <<tables, rooms, destroyed, doomed, owed, disturbed>>

\* ersCreateIncident; the script then originates the responders once.
BridgeCreate(c) ==
  /\ pc[c] = "create"
  /\ inc' = [inc EXCEPT ![c] = New("ACTIVE", want[c], at[c].room)]
  /\ started' = Append(started, c)
  /\ legs' = legs \cup {at[c].room}
  /\ Goto(c, "joining")
  /\ UNCHANGED <<row, pos, old, want, at, answered, ring, destroyed, doomed, owed, disturbed>>

\* Over the limit the incident is QUEUED.  It has no queue row.
BridgeQueue(c) ==
  /\ pc[c] = "createQueued"
  /\ inc' = [inc EXCEPT ![c] = New("QUEUED", want[c], at[c].room)]
  /\ started' = Append(started, c)
  /\ Goto(c, "held")
  /\ UNCHANGED <<row, pos, old, want, at, rooms, destroyed, doomed, owed, disturbed>>

\* The held call asks for its incident's status: ACTIVE lets it in, COMPLETED
\* sends it away.
BridgePoll(c) ==
  /\ pc[c] = "held"
  /\ inc[c].status \in {"ACTIVE", "COMPLETED"}
  /\ IF inc[c].status = "ACTIVE"
     THEN /\ Goto(c, "joining") /\ Tell(c, inc[c].room, c) /\ UNCHANGED want
          /\ legs' = legs \cup {inc[c].room}
     ELSE End(c) /\ UNCHANGED legs
  /\ UNCHANGED <<tables, answered, ring, destroyed, doomed, owed, disturbed>>

BridgeHangUp(c) ==
  /\ pc[c] = "held"
  /\ End(c)
  /\ UNCHANGED <<tables, rooms, destroyed, doomed, owed, disturbed>>

----------------------------------------------------------------------------
(* The ring loop of a room, and the responders.                            *)

BugAbandoned(r, n) == n = 0
Abandoned(r, n)    == ring[r].st = "again" /\ n = 0

\* One turn of the loop: it ends when nobody is left or somebody answered, and
\* originates every responder otherwise.  A caller joins within the three
\* seconds that the loop waits before it looks again.
RingCheck(r) ==
  /\ ring[r].st # "off"
  /\ ring[r].st = "again" => pc[ring[r].owner] # "joining"
  /\ \E n \in CountRange :
       /\ Count(r, n)
       /\ \/ /\ Abandoned(r, n) \/ n > 1
             /\ ring' = [ring EXCEPT ![r] = [st |-> "off", owner |-> None]]
             /\ owed' = IF Members(r) = 0 THEN owed ELSE {c \in owed : at[c].room # r}
             /\ UNCHANGED legs
          \/ /\ ~Abandoned(r, n) /\ n <= 1
             /\ ring' = [ring EXCEPT ![r].st = "again"]
             /\ legs' = legs \cup {r}
             /\ UNCHANGED owed
  /\ UNCHANGED <<tables, scripts, answered, destroyed, doomed>>

\* The ring timeout of the configuration has passed.
RingDeadline(r) ==
  /\ ring[r].st = "again"
  /\ ring' = [ring EXCEPT ![r] = [st |-> "off", owner |-> None]]
  /\ owed' = {c \in owed : at[c].room # r}
  /\ UNCHANGED <<tables, scripts, answered, legs, destroyed, doomed, disturbed>>

\* The tier has no responders, or looking them up throws.
RingGivesUp(r) ==
  /\ ring[r].st = "first"
  /\ ring' = [ring EXCEPT ![r] = [st |-> "off", owner |-> None]]
  /\ owed' = {c \in owed : at[c].room # r}
  /\ UNCHANGED <<tables, scripts, answered, legs, destroyed, doomed, disturbed>>

\* A responder answers and is put into the room, occupied or not.
LegAnswers(r) ==
  /\ r \in legs
  /\ answered' = answered \cup {r}
  /\ legs' = legs \ {r}
  /\ owed' = {c \in owed : at[c].room # r}
  /\ UNCHANGED <<tables, scripts, ring, destroyed, doomed, disturbed>>

LegsTimeOut(r) ==
  /\ r \in legs
  /\ legs' = legs \ {r}
  /\ UNCHANGED <<tables, scripts, answered, ring, destroyed, doomed, owed, disturbed>>

ResponderLeaves(r) ==
  /\ r \in answered
  /\ answered' = answered \ {r}
  /\ Emptied(r)
  /\ UNCHANGED <<tables, scripts, legs, ring, doomed, owed, disturbed>>

----------------------------------------------------------------------------
(* Reconciliation.  Nothing keeps its runs apart: the destroy event, the     *)
(* reseed and the timer's sweeps each read incidents and complete them later, *)
(* one by one.                                                                *)

\* reconcileOrphanedIncident, for conference-destroy or a room that is missing
\* from a reseed, reads the room's ACTIVE incidents.  A "conference list" that
\* fails is an empty list, from which every room is missing.
ReadOrphans(r) ==
  /\ \/ r \in destroyed /\ destroyed' = destroyed \ {r} /\ UNCHANGED disturbed
     \/ Members(r) > 0 /\ Disturb /\ UNCHANGED destroyed
  /\ doomed' = doomed \cup Active(r)
  /\ UNCHANGED <<tables, scripts, rooms, owed>>

\* The event is lost with the ESL connection.
DestroyLost(r) ==
  /\ r \in destroyed
  /\ Disturb
  /\ destroyed' = destroyed \ {r}
  /\ UNCHANGED <<tables, scripts, rooms, doomed, owed>>

\* The sweep, and reconcileOrphanedIncident when it looks a second time for
\* incidents just promoted, find an ACTIVE incident whose room is empty.
ReadEmpty(i) ==
  /\ inc[i].status = "ACTIVE" /\ i \notin doomed
  /\ Count(inc[i].room, 0)
  /\ doomed' = doomed \cup {i}
  /\ UNCHANGED <<tables, scripts, rooms, destroyed, owed>>

\* The sweep finds a QUEUED incident that has no QUEUED row.
ReadUnqueued(i) ==
  /\ inc[i].status = "QUEUED" /\ row[i] # "QUEUED" /\ i \notin doomed
  /\ doomed' = doomed \cup {i}
  /\ UNCHANGED <<tables, scripts, rooms, destroyed, disturbed, owed>>

Reconcile(i) ==
  /\ i \in doomed
  /\ CompleteIncident(i)
  /\ doomed' = doomed \ {i}
  /\ UNCHANGED <<started, pos, old, scripts, rooms, destroyed, disturbed, owed>>

\* The sweep expires rows older than two hours.
Expiring == Queued \cap old
ExpireRows ==
  /\ Expiring # {} /\ ~Locked
  /\ row' = [c \in Caller |-> IF c \in Expiring THEN "EXPIRED" ELSE row[c]]
  /\ UNCHANGED <<inc, started, pos, old, scripts, rooms, destroyed, doomed, disturbed, owed>>

\* Two hours pass; no script waits that long.
TwoHours(c) ==
  /\ c \in Queued \ old /\ pc[c] = "done"
  /\ old' = old \cup {c}
  /\ UNCHANGED <<inc, started, row, pos, scripts, rooms, destroyed, doomed, owed, disturbed>>

(* A supervisor.                                                           *)

\* completeIncidentExternal
SupervisorCompletes(i) ==
  /\ inc[i].status \in {"QUEUED", "ACTIVE", "CANCELLED"}
  /\ Disturb
  /\ CompleteIncident(i)
  /\ UNCHANGED <<started, pos, old, scripts, rooms, destroyed, doomed, owed>>

\* cancelQueuedIncident
SupervisorCancels(i) ==
  /\ inc[i].status = "QUEUED"
  /\ Disturb
  /\ row[i] = "QUEUED" => ~Locked
  /\ inc' = [inc EXCEPT ![i].status = "CANCELLED"]
  /\ row' = [row EXCEPT ![i] = IF @ = "QUEUED" THEN "CANCELLED" ELSE @]
  /\ UNCHANGED <<started, pos, old, scripts, rooms, destroyed, doomed, owed>>

----------------------------------------------------------------------------
CallStep(c) ==
  \/ CheckTiers(c) \/ DialRingAll(c) \/ RingAllRead(c) \/ RingAllInsert(c)
  \/ EnqueueRead(c) \/ EnqueueInsert(c) \/ PollReady(c) \/ PollRead(c)
  \/ PollPromote(c) \/ StopWaiting(c) \/ Join(c) \/ MissRoom(c) \/ Leave(c)
  \/ PostComplete(c) \/ PostLost(c)
  \/ BridgeLookup(c) \/ BridgeCreate(c) \/ BridgeQueue(c)
  \/ BridgePoll(c) \/ BridgeHangUp(c)

RoomStep(r) ==
  \/ RingCheck(r) \/ RingDeadline(r) \/ RingGivesUp(r)
  \/ LegAnswers(r) \/ LegsTimeOut(r) \/ ResponderLeaves(r)

ReconcileStep(i) == ReadEmpty(i) \/ ReadUnqueued(i) \/ Reconcile(i)

Next ==
  \/ \E c \in Caller : \/ CallStep(c) \/ ReconcileStep(c) \/ TwoHours(c)
                      \/ SupervisorCompletes(c) \/ SupervisorCancels(c)
  \/ \E r \in Tier : RoomStep(r) \/ ReadOrphans(r) \/ DestroyLost(r)
  \/ ExpireRows

Spec == Init /\ [][Next]_vars

----------------------------------------------------------------------------
(* Properties.                                                             *)

\* The two tables tell the same story: a row that has left the queue by
\* promotion belongs to an incident that has a tier's room, a cancelled or
\* expired row to none that is still open, whichever of the script, the poll,
\* a completion, the sweep and a supervisor came first.
QueueAgrees ==
  \A c \in Caller :
    /\ inc[c].status = "ACTIVE" => inc[c].room = inc[c].tier
    /\ row[c] = "DEQUEUED" => inc[c].status \in {"ACTIVE", "COMPLETED"}
    /\ row[c] \in {"CANCELLED", "EXPIRED"} => inc[c].status # "ACTIVE"
    /\ inc[c].status = "ACTIVE" => row[c] \in {"none", "DEQUEUED"}

\* A caller for whom a ring loop was started and who has been alone in the room
\* since is being rung for, unless the tier had no responders to ring, the ring
\* timeout has passed or FreeSWITCH did not answer a count
\* (ersRingService.js:177-291).
OwedIsRung ==
  \A c \in owed : pc[c] = "in" => ring[at[c].room].st # "off"

\* Nobody is promoted past a caller with a smaller position, although the poll
\* looks for the head of the queue several awaits before it promotes.
InOrder ==
  [][\A c \in Caller : row[c] = "QUEUED" /\ row'[c] = "DEQUEUED" =>
       \A d \in Queued : pos[c] <= pos[d]]_vars

\* A row leaves the queue once: the poll, the completions of other calls, the
\* sweep and the supervisor never take the same row twice.
RowLeavesOnce ==
  [][\A c \in Caller : row[c] \notin {"none", "QUEUED"} => row'[c] = row[c]]_vars
=============================================================================
