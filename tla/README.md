# FS-CP in TLA+

FS-CP holds two Node.js products around FreeSWITCH. **fs-enrs** (emergency
notification and response) dials blast campaigns (ENS) and runs emergency
conferences (ERS). **fs-cc** is a call centre on top of mod_callcenter. This
directory models the parts whose correctness depends on the order in which SQL
statements, ESL messages, timers and crashes happen, checks them with TLC on small
instances, and proves with TLAPS every safety property that those runs check, for
all values of the constants.

`PROJECT.json` lists, for every definition, the source lines that it stands for;
for every run, what it checks; the hazards of the code, each at its line, with the
properties that would catch it; and for every checked property a small bug
(definitions with the prefix `Bug`) that makes the run fail.

    tlc -workers 4 -config EnsRounds.cfg MCEnsCampaign     # see the table of runs
    tlapm EnsCampaignProofs.tla      # likewise EnsCalmProofs, EnsThrottleProofs,
    tlapm AgentSessionsProofs.tla    # ErsDispatchProofs, CallTrackingProofs,
    tlapm RecordingNewsProofs.tla    # ConferenceRecordingProofs

## 1. The system

### Components, their state and their operations

| component | state | operations |
|---|---|---|
| **ENS campaign engine** `fs-enrs/backend/src/services/campaignEngine.js` | tables `ens_campaigns` (status, counters, media) and `ens_campaign_destinations` (status, attempts, call_uuid, times); in memory the CPS window and the busy totals | one-second `tick`: start, expire, complete, or synthesize, claim and originate; `onCallAnswer`, `onCallHangup`, `handleDestFailed`; `recoverStaleDialing` at start and every 60 s; `pauseCampaign`, `resumeCampaign`, `cancelCampaign`, `createCampaignByConfigId` |
| **ENRS ESL link** `fs-enrs/.../services/eslService.js` | the ESL socket, the conference registry, recording states | `originateCampaignCall` (bgapi with timeout), CHANNEL_* and conference events, reconnect, 30 s reconciliation of incidents |
| **ERS incidents, queue, overflow** `.../controllers/internal/ersInternalController.js` | `ers_incidents`, `ers_queues`, participants | ring-all, rejoin, overflow enqueue / poll / cancel, completion and promotion of the queue's head |
| **ERS ring service** `.../services/ersRingService.js` | map of running ring loops | start, stop, waves of originates until somebody answers |
| **Conferences and recordings** `conferenceManager.js`, `recordingController.js` | recording state STARTING / ACTIVE / STOPPING / FAILED, timers | start, confirm by event or file, stop, time out |
| **Agent sessions** `fs-cc/backend/services/agentSessionService.js` | `agent_sessions` (one open per agent), `agent_state_events` (one open per agent) | `handleStatusTransition`, `reconcileOnStartup` |
| **FS-CC ESL link, call tracking** `fs-cc/backend/services/eslService.js` | the socket, `agents`, `calls`, `agent_history`, hourly statistics | reconnect and startup sequence, callcenter and channel events, ghost-call reaper |
| **Platform configuration** `fs-enrs/backend/platform/configuration` | files of FreeSWITCH, versions in the database, what FreeSWITCH has loaded | deploy, verify, roll back, restore |
| **IVR and gateway deployment**, dial resolution, validation | generated Lua / XML | text to text |
| **Everything else** | CRUD controllers, authentication, event bus, health, sockets, frontends, Lua scripts, containers | single statements, notifications, user interfaces |

### How they interact

* *Shared tables*: the tick, the ESL handlers, the recovery sweep and the HTTP
  handlers of one campaign write the same rows. No transaction spans two of their
  statements and every `await` lets the others run. The same is true of the two
  sources of an agent's status change.
* *Messages of FreeSWITCH*: a bgapi originate gives CHANNEL_ANSWER and
  CHANNEL_HANGUP events and, independently, a BACKGROUND_JOB reply that resolves
  or rejects the promise. They are lost when the socket or the process dies.
* *Echoes*: a status set through `callcenter_config` comes back as an
  `agent-status-change` event while the HTTP handler that set it still works.
* *Callbacks into the tables*: conference events, the 30 s sweep and the Lua
  script's polls all complete and promote incidents.

### What is hard

Stale reads across awaits (a count, a row, an open session), two handlers of one
call in an order nobody tested, loss of a hangup, a crash between two statements,
retries against late answers, counters kept by increments, and throttling by
integer arithmetic. The list of hazards in `PROJECT.json` is the long form.

### What makes each component correct

* *Campaign engine*: at most `max_concurrent` calls, one call per destination, the
  attempt budget, nothing dialled without media, outcomes final and truthful,
  campaign closed only when done and always closed in the end, counters that agree
  with the rows, `calls_per_second` kept.
* *Agent sessions*: the history is a sequence of sessions with segments that
  neither overlap nor double, it agrees with mod_callcenter when all is quiet, a
  reconnect ends nobody's work time, and the reason of a break is kept.
* *ERS*: queue rows and incidents tell the same story, the queue is served in order
  and no row twice, and a caller alone in a room is rung for.
* *Call tracking*: a call is closed in the end and counted at most once, the tables
  say who answered and who was rung in vain, and a command that fails does not close
  a live call.
* *Recordings*: what is shown as active is being written and the other way round, a
  conference is recorded once (it is not: section 5), complete files have closed rows, "starting" ends.
* *Configuration*: file, active version and loaded configuration agree after every
  deployment, failed ones included.

## 2. Modules

| module | what it is |
|---|---|
| `EnsCampaign` | the campaign engine: one campaign, its rows, the tick, the handlers, recovery, operators, FreeSWITCH, crash and restart |
| `BlastOutcome` | the abstract promise for each destination; `EnsCampaign` implements it |
| `EnsThrottle` | how many rows a tick may dispatch: CPS window and adaptive throttling |
| `MCEnsCampaign` | symmetry of the destinations, for TLC |
| `EnsCampaignProofs` | theorems about `EnsCampaign` under all faults, the refinement of `BlastOutcome` among them |
| `EnsCalmProofs` | theorems about `EnsCampaign` while no message is lost |
| `EnsThrottleProofs` | theorems about `EnsThrottle` |
| `AgentSessions` | one agent of fs-cc: the status changes, the two workers of each, the connection and the startup sequence |
| `AgentSessionsProofs` | theorems about `AgentSessions` |
| `ErsDispatch` | the emergency calls of one ERS configuration: call scripts, incidents, queue, ring loops, reconciliation |
| `MCErsDispatch` | the scripts of the calls and their symmetry, for TLC |
| `ErsDispatchProofs` | theorems about `ErsDispatch` |
| `CallTracking` | one queued call of fs-cc: its events, the tables, the reaper, the import after a reconnect |
| `CallTrackingProofs` | theorems about `CallTracking` |
| `ConferenceRecording` | the recordings of one conference: operator, automatic recording, shown state, file and row |
| `ConferenceRecordingProofs` | theorems about `ConferenceRecording`: types and the timer |
| `RecordingNewsProofs` | theorems about `ConferenceRecording`: what is shown, recorded and closed |

### EnsCampaign

One action is one SQL statement with the local computation up to the next one,
because the process is single (`ecosystem.config.cjs:34` says `instances: 1`) and
only an `await` lets another handler run. A call is `<<d, k>>`, the k-th attempt of
row `d`; that is what the random UUID identifies. `pc` is the place of the tick:

    idle -SelectCampaign-> start -StartCampaign-> count | expire
    expire -ExpireRows-> close -ExpireCampaign-> idle
    count -CountRows-> plan -PlanFinish-> finish -CompleteCampaign-> idle
                            -PlanWait-> idle     (no slot, or nothing due)
                            -PlanFill(n)-> media | claim
    media -SynthesizeMedia-> claim  |  -SynthesisFails-> idle
    claim -ClaimRows(S)-> book -BookClaim-> originate -Originate(d)-> ... -> idle

`PlanFill(n)` leaves open how many free slots the CPS window grants; `EnsThrottle`
computes that number. The handlers of one call are the steps in `ans` (answer:
row, then counters), `hup` (hangup: read, one of three row updates, counters) and
`job` (the promise; its catch fails the row by id, then the counters).
`FsRing`, `FsAnswer`, `FsHangup`, `DispatchRejected`, `ReplyTimeout` are
FreeSWITCH and the link as the engine sees them, and may lose a message while
`faults < FaultBound`; `Crash` empties the memory and the socket, and leaves rows and calls.

Timing that the model takes for granted, from the constants in the code:

* a retry falls due (`RetryDue`) only after the hangup handler that scheduled it
  has finished: `retry_interval_sec` is seconds, the handler two statements;
* recovery resets a `dialing` row only when its call no longer rings and no message
  of the row is on its way or half handled (a lost message is neither): 90 s against
  30 s of ringing and 40 s of waiting for the bgapi reply;
* an `answered` row is stale (600 s) only when its call has ended;
* the sweep of 60 s does not overlap itself;
* a hangup whose cause is retryable belongs to a leg that nobody answered.

A leg that ends unanswered is reported twice, and the model has no other case: by
CHANNEL_HANGUP, and by the -ERR with its cause that ends the bgapi originate, on which
`originateCampaignCall` throws (`eslService.js:1821-1823`; the originate runs with
`ignore_early_media=true`, so nothing but an answer makes it succeed). The two
handlers run in either order and between each other's statements. The retry of a
row waits for both (`RetryDue`), because the -ERR arrives with the hangup and a retry
is seconds away; only a lost reply, which settles after 40 s, may come after it.

`busy_count`, `no_answer_count` and `dialing_count` are written but not compared:
the first two count retries only, and `dialing_count` has two meanings in the code
(with and without answered rows). `campaign.batch_size` is not a column of
`ens_campaigns` (migration 010 adds it to `ens_configurations` only), so the engine
always uses 10; the model keeps the parameter.

### BlastOutcome

A destination waits, is active while one of `Limit` slots is free, and when its call
has ended a verdict on it is *late*: one that delivers it, fails it or sends it back to
wait. Failure may be written over any outcome, the other two only over an active or
failed row; without a verdict that is late no outcome ever changes. This is as much
as the engine promises, since the two reports of an unanswered leg write one after
the other: a row that waits for its retry may become failed (section 5), and a failed
one wait again.

`KeepsPromise` maps the row statuses to these five outcomes and `VerdictDue` to the late
verdicts: rows whose hangup handler has found them, or whose originate is going to
be rejected, or that an older call's rejection has failed while a call is under way. It
asks TLC that each step of the engine is a step of the promise, in both Ens runs, and
`PromiseKept` proves it. The mapping covers what the row statuses show and not the
status of the campaign: the row that a late retry queues in a closed campaign is
`ClosedIsQuiet`'s and section 5's.

### EnsThrottle

Rows are counted, not named. `Cps` is in hundredths, like the NUMERIC(5,2) column.
A retry is due at once; the slots are refilled by every tick that can.

### AgentSessions

A worker `<<a, source>>` is the run of `handleStatusTransition` (or of the body of
`reconcileOnStartup`, which runs the same statements) for occasion `a`. `Ask` is
the HTTP handler of the agent or a supervisor; `SetInFs` makes it a change of
mod_callcenter and starts the event's worker next to it. The two partial unique
indexes are the tests on `openS` and `openE` in `OpenSession` and `OpenEvent`;
closing is by id. `OpenSession` has the case where the conflicting row was
committed after the statement's snapshot, which returns no row and throws. `boot`
follows `runStartupSequence` after a reconnect: read the agents, push their status,
sync them back, reconcile. `SlowModule` is the case where `waitForModCallcenter`
gives up after its 45 s, the sequence goes on, and every command answers -ERR.

The agent's, the supervisor's and mod_callcenter's own changes come one after the
other, each when the last has been recorded (`Recorded`). They do not wait for the
startup sequence: `Ask` and `FsChange` may come before, after and between any two of
its steps and statements. The history variable `crossed` remembers that a change and
the sequence met half way: a change was begun while the sequence stood between
reading a status and having brought it where it belongs (`StartupRests`), or the
sequence took a step amid a change (`Crossing`). mod_callcenter is taken to send an
event for every `set status`, even of the same value.

### ErsDispatch

A call runs one of three scripts, `pc` is its place in it:

    ring    -DialRingAll-> ringAll
    flow    -CheckTiers-> ringAll | enqueue
    ringAll -RingAllRead-> insert -RingAllInsert-> joining     (or straight to joining)
    enqueue -EnqueueRead-> queueInsert -EnqueueInsert-> wait
    wait    -PollReady-> joining | -PollRead-> promote -PollPromote-> joining | wait
    bridge  -BridgeLookup-> create | createQueued ; held -BridgePoll-> joining
    joining -Join-> in -Leave-> post -PostComplete-> done

The `ring` and `flow` scripts are the Lua that the nodes `ers_ring_all`,
`ers_overflow_check` and `ers_overflow_wait` generate; `bridge` is
`ers_conference_bridge.lua`. What is one transaction in
`ersInternalController.js` is one action, or two where a lock is held over several
reads: `RingAllRead` excludes a second call that has the advisory lock (the step
`insert`), `Locked` is `FOR UPDATE` on the queued rows, which locks nothing while
there are none. `Count` is `getConferenceMemberCount`, which is 0 when the command
fails. `RingCheck` is one turn of the loop of `ersRingService.js`, `RingDeadline`
its ring timeout, `RingGivesUp` its exit before the first wave: the tier has no
responders, or the lookup throws. Reconciliation reads first (`ReadOrphans`, `ReadEmpty`,
`ReadUnqueued` put an incident in `doomed`) and completes later, one by one
(`Reconcile`), as the code does from the destroy event, the reseed and the sweep.
`CompleteIncident` is `completeIncidentCore`: complete once, promote the head of
the queue into the tier.

A tier stands for its room: conferences are STATIC and `MaxConcurrent` is at most 2,
because a third slot would use the first one's room. A call makes at most one
incident and one queue row and they bear its name. A caller that was told to join
does so, or hangs up, within the 3 s that the ring loop waits before it looks again.
A call that enqueued while another was between its two statements (`Inserting`)
polls only after that insert, which is milliseconds away while the script waits
seconds. Without this assumption two callers who both find the queue empty lock
nothing and both read position 1; a third one that comes between their two inserts
gets position 2, becomes the head when the first has been promoted, and is
promoted past the second, who inserts in between. With two callers there is no
such case; the theorem, which is about any number, needs the assumption.

### CallTracking

`fs`, `ringing`, `talker` are what FreeSWITCH does with one call; `inbox` has the
events whose handlers have not run their first statement. First statements run in
the order of the events (`AgentOffering`, `BridgeAgentStart`, `MemberQueueEnd`,
`ChannelHangup`, ...), because every handler issues its first one before it awaits
and the pool answers in order; what a handler does after that interleaves with
everything: `StartTalk` is the second statement of bridge-agent-start, `CloseOffers`
is `finaliseAgentHistoryMissed` with the counting that follows it. The reaper reads the
member list, reads the channels, and closes (`ReadMembers`, `ReadChannels`,
`ReaperClose`); a command that fails leaves an empty list, and an empty list is no
filter. None of the three waits for the events, so the reaper may close a call whose
end has not been handled. `LinkUp`, `SyncRead`, `SyncUpsert` import the calls after a
reconnect, each with the serving agent that the list names (`Serving`): the agent it
talks to, or one that is still rung.

Taken for granted: a person (an agent who answers, a caller who hangs up) takes
longer than a first statement; a reaper's cycle takes less than the 10 s for which
it leaves young calls alone, and cycles do not overlap; the ghost check inside
`syncActiveCalls` is one more cycle; a connection's startup sequence follows the
end of the one before. Whether a bridged call is still in the member list is left
open, because two comments in the code disagree about it.

### ConferenceRecording

Three actors share the state. FreeSWITCH opens, writes and closes files
(`FsAccepts` answers +OK before the file is open, `FsOpens` may send its event before
the reply). The requests (`cmd`, `stop`) look at the shown state, await, send, and
write the state again when the reply comes. `handleEvent` writes it from events.
`entry` is the conference's entry in `conferenceRegistry`, `timer` the five-second
timer, `row` the status in `recordings`, `closes` the calls of `closeRecording`
that wait for their second to pass. `Scan` is the directory scan. `overlap` says that
requests did not wait for each other or a file opened after the timer had fired,
`deaf` that a message was lost; properties that cannot hold in these cases say so.

Taken for granted: events and bgapi replies come in FreeSWITCH's order on the one
connection; `upsertRecordingStart` has written within the second that
`closeRecording` waits, so it is part of the handler; one stop request is open at a
time; the last look of `verifyRecordingCreated` (8 s) comes after the timer (5 s). A
stop-recording event after conference-destroy that does not name its file is left
out: the code can do nothing with it.

## 3. Runs

The runs take about nine minutes together on two workers; `AgentTwice` with two million
states, `EnsRounds`, `Recordings` and `ErsCalls` with more than a million each are the
largest. `CHECK_DEADLOCK FALSE` everywhere: a campaign ends and bounded occasions run out.

| run | instance | shows |
|---|---|---|
| `EnsRounds` | 2 rows compete for 1 slot, 2 attempts, timeout, pause and cancel, no faults | limit on rows and on calls, one call per destination, a closed campaign is quiet, no row is missing from the counters, `BlastOutcome` is implemented, the inductive invariant of the proofs |
| `EnsEnds` | 1 row, 2 attempts plus one from recovery, one fault, fairness | attempt budget, truthful completion, media first, `BlastOutcome` and the invariant under faults; the campaign and its row end |
| `EnsLateReject` | 1 row, 2 attempts, no faults | *violation*: a row waiting for its retry is failed |
| `ThrottleSlows` | 7 rows, 6 retries, 2.5 calls/s | the rate is kept and all rows are dialled |
| `ThrottleStalls` | the same at 1 call/s | *violation*: the campaign stands still |
| `AgentTwice` | 1 reason, 4 occasions, 1 fault | history agrees, segments do not double, no false logout unless a change and the startup sequence met half way |
| `AgentReason` | 2 reasons, 4 occasions, no faults | *violation*: the reason is lost |
| `AgentFalseLogout` | one fault, slow module | *violation*: a reconnect logs an agent out |
| `ErsCalls` | 2 calls, each with any script, 1 slot, responders of an earlier call in the secondary room, 2 disturbances | queue and incidents agree, the queue is served in order and each row once, a caller alone in a room is rung for |
| `Calls` | 2 agents, 3 offers, 1 fault, fairness | counted once, talks are not missed, the tables tell what happened, what it takes for the reaper to close a live call, the row is closed in the end |
| `Recordings` | 2 files, 1 fault, 3 messages under way, fairness of the timer | what is shown is recorded and the reverse, closed rows, "starting" ends |
| `RecordsTwice` | the same | *violation*: two files of one conference at once |

Why the bounds are enough to be interesting: two rows are the least for a competition
for a slot and for batches of different sizes, two attempts the least for an event of an
old call meeting a row that was claimed again, and one fault already reaches every
recovery path; `ClaimBound = 3` with `MaxAttempts = 2` lets a row be claimed after a
retry and after a reset by recovery. Cancellation and timeout with one row, three
attempts and one fault were checked too (672,000 states). In `EnsThrottle` 7 rows and 6
retries give 13 counted calls, above the 10 from which the throttle acts, with every
share of busy calls. Four occasions are login, break, change of reason and logout, or
any of them with a reconnect in between, and one fault gives the startup sequence, into
which a change can run; two reasons and two faults, a crash during the repair of
another, were checked with three occasions. Two emergency calls compete for a room and
for the head of the queue; with the responders of an earlier call in the secondary room
the second of them queues, and two disturbances (`DisturbBound`: a count or request that
fails, an intervention of a supervisor) let a sweep complete an incident that was just
promoted. Three offers to two agents ring both of them and one of them twice, which is
what a missed and reopened offer needs. Two files are a recording and the next, or one
beside the other; three messages are a reply, a start and a stop in every order.

**Fairness.** `EnsCampaign!Fairness`: weak for the tick (setInterval), for the
handlers (the event loop), for FreeSWITCH (a leg ends, originate_timeout), for the
60 s sweep and for PM2's restart; strong for `PlanFill`, because the CPS window is
empty again within a second, so ticks that find it full do not recur for ever; and
strong for `SynthesizeMedia`, the assumption that Piper succeeds in the end. No
operator has to act, so `CampaignEnds` and `RowsEnd` except a campaign left paused.
`EnsThrottle!FairSpec`: the tick, the clock, and the end of every call.
`CallTracking!Fairness`: weak for the handlers and their later statements (the event
loop and the pool), for the reaper (setInterval), for `LinkUp` (`scheduleReconnect`
tries for ever) and the import; nothing is asked of the caller, the agents or the
sweep without a connection. `ConferenceRecording!Fairness`: weak for the timer alone;
no event, reply or request has to come for "starting" to end.

## 4. Proofs

`EnsCampaignProofs` proves, for every set of rows and every value of the other
constants (from `ConstantsOK` alone, with all faults, timeouts and cancellations):

| theorem | says |
|---|---|
| `TypeCorrect` | `[]TypeOK` |
| `LimitHolds` | `[]ConcurrencyLimit` |
| `BudgetHolds` | `[]AttemptBudget` |
| `UuidHolds` | `[]UuidNamesCurrentAttempt` |
| `CompletedMeansAnswered` | `[]CompletedWasAnswered` |
| `MediaHolds` | `[]NoCallWithoutMedia` |
| `EngineHolds` | `[]EngineInv`, the conjunction below |

None of them is inductive alone. Each has its part of `EngineInv`:

* `SlotsReserved` for the limit. The count is stale when the claim uses it. It is
  still an upper bound, because only the claim itself puts rows in flight
  (`HandlersRelease`: no handler makes `InFlight` larger), so in-flight rows plus
  planned slots stay within the limit until the claim.
* `ClaimedOnce` for the budget and the UUID. A hangup handler that has decided to
  retry holds the row's latest attempt, and that row is neither queued nor in the
  batch, because the UUID, which the handler matched, is erased by every release.
* `FreshCalls`, with `Numbered`, gives that a call is made at most once per attempt,
  which `AnswerTraced` needs: `answered_at` goes back to a call that talked, also
  when another handler has written the row since.
* `MediaFirst`: the tick goes past synthesis only with a recording, and media is
  never taken back.

Each part is preserved action by action; the lemmas on cardinalities come from
FiniteSetTheorems. `EngineInv` is also an invariant of `EnsRounds` and `EnsEnds`, where
TLC found the parts that were too strong before they were proved.

* `BudgetSpent` for the budget: a row that has spent its attempts and one for each fault
  is not queued, and if it is dialing, something of its call is still on its way
  (`OnItsWay`), so that the sweep, the only step that would give it another attempt, does
  not find it stale. A fault makes the premise false for every row (`BudgetFrame`).
* `Verdicts`, for `PromiseKept`: a handler that is going to write a verdict has the row's
  latest call, which has ended, and nothing but a failure has decided the row
  meanwhile. Then the initial states map to initial states, and every action leaves
  each row as it is (`Same`), keeps, ends or decides one row (`Keeps`, `Ends`, `Decides`), or is
  a claim within the limit, the sweep, an expiry or a crash. Counters, events and
  everything the tick only reads are stutters.

`EnsCalmProofs` proves what holds of the engine while no message is lost and the
process does not die; `faults = 0` is part of the properties, and nothing else is
assumed. In particular every unanswered leg has its hangup and its -ERR.

| theorem | says |
|---|---|
| `OneCallHolds` | `[]OneCallPerDest` |
| `CallsLimited` | `[]CallsWithinLimit` |
| `ClosedStaysQuiet` | `[]ClosedIsQuiet`, whose first part holds with faults as well |
| `CountersHold` | `[]CountersCover` |

* `OneCall`, for the first: whatever rings, talks or is being resolved is the latest
  attempt of a row that is not queued, so a claim cannot place a second call.
* `Calm`, for the others: every destination is in one of six places (`Waits`, `Claimed`,
  `Dialled`, `Talks`, `Delivered`, `Failed`), each of which fixes status, UUID,
  `answered_at`, the call and the steps of its three handlers together, while earlier
  attempts are at rest and later ones untouched (`Life`). In `Waits` and `Failed` the second
  report of a missed call may still be to come; a row for which it is does not fall
  due. Recovery finds nothing stale in any place.
* `CallsLimited` maps the calls that ring or talk one to one into the rows in flight
  (`FS_Injection`) and cites `LimitHolds`.
* `Closing`: from the read that finds nothing open to the statement that completes,
  and for ever after, no row is in flight: the claim alone puts rows there, and the
  tick does not come back to it. What a late hangup handler queues meanwhile has
  been failed (`Decided`).
* `Tallies`: each counter and the handlers that have written their row and not yet
  their counter add up to the rows, or to more of them. Each of the eight statements moves
  one unit from one summand to another, or adds one to both sides; the second
  report of a missed call adds to the counters alone.

`EnsThrottleProofs` proves, from `ThrottleConstantsOK` alone, `ThrottleTypeCorrect`
(`[]TypeOK`) and `RateHolds` (`[]RateKept`). The bounds in `TypeOK` are not inductive;
`Rationed` is: every row is waiting, in flight or counted, and only a retry gives it
another time. `RateKept` then follows from the arithmetic of one tick: the capacity is
what the effective rate leaves of the window, and that rate is at most
`calls_per_second`.

`AgentSessionsProofs` proves, for any reasons, occasions and faults:

| theorem | assumes | says |
|---|---|---|
| `SessionsTypeCorrect` | | `[]TypeOK` |
| `NeighboursDiffer` | | `[]SegmentsDiffer` |
| `LogoutsAreTrue` | `~SlowModule` | the action property `UncrossedLogouts` |
| `HistoryHolds` | `~SlowModule` | `[]HistoryAgrees` |

* `~SlowModule` says that mod_callcenter answers the startup sequence. With
  `SlowModule` the run `AgentFalseLogout` shows the violation. Nothing is assumed of when
  changes come; what is said of the tables is said while `~crossed`, and `Sound`, which
  keeps the types, holds without it.
* `IInv` says what a worker's local data are worth when it uses them. `Occasion`: the
  workers of one change want one status. `Stages`: a worker on its way to logging out
  (`LeavesAt`) has read the open session, or it is closed; one that stays (`StaysAt`) has
  read the open session, or the open segment has its status, because the other worker
  was faster.
* `Closes`: while the session goes on without an open segment, a worker is under way
  that writes a segment of another status; so no segment follows one of its own kind.
* `Covered`: the tables agree with mod_callcenter, or a worker that will bring them in
  line is `Responsible`. At rest there are no workers, which leaves agreement.

`CallTrackingProofs` proves, for every set of agents, any number of offers and of
faults (from `CallConstantsOK` alone):

| theorem | says |
|---|---|
| `TypeCorrect` | `[]TypeOK` |
| `ReaperBlind` | the action property `ReapedWhenBlind` |
| `CountHolds` | `[]CountedOnce` |
| `TalkHolds` | `[]TalkIsNotMissed` |
| `TablesTrue` | `[]TablesTell` |

* `IInv`, for the first two: besides types, nothing is told, listed or read of a call
  that has not entered the queue, and a bridged call has a talker (`Beginnings`); a
  cycle begins with nothing seen and nothing failed, and each list fails at most once
  (`FailedOnce`); and a call that was open when the cycle began and that no list has
  shown was missed by every list that should have shown it (`WhatFailed`).
* `CountInv`: what is counted and what the handlers have still to count add up to
  one call, and to none before the row is closed: only the statement that closes
  the row hands out a counting.
* `TalkInv`: an offer whose agent talks is not missed, because `StartTalk` resets the
  mark together with setting the talk, and finalizers test for the talk in the
  statement that marks.
* `TaleInv`, while nothing has failed: what the events that are still to be handled will
  tell and what the tables tell already make up the story of the call, for each place
  of the caller (`InNew`, `InQueue`, `InTalk`, `IsOver`). Only the talker has a talk or one
  to be recorded (`TalkerOnly`), what the finalizers will count is the outcome
  (`Counts`), and a cycle of the reaper that saw nothing closes only a call that is over
  (`Reaps`), possibly before the events of its end are handled. At rest there are no
  events left.

`ErsDispatchProofs` proves, for every set of calls and of scripts, one or two slots
and any number of disturbances (from `ErsConstantsOK` alone), all that `ErsCalls`
checks. The run has two calls; the order of a queue is a matter of three and more.

| theorem | says |
|---|---|
| `TypeCorrect` | `[]TypeOK` |
| `TablesAgree` | `[]QueueAgrees` |
| `RowsLeaveOnce` | the action property `RowLeavesOnce` |
| `QueueInOrder` | the action property `InOrder` |
| `OwedRings` | `[]OwedIsRung` |

* `TablesInv` adds to `QueueAgrees` that a call has no row before its script is in the
  queue (`NotYetQueued`), so that no step before it can disturb a row, and that a
  slot within the limit has the room of its tier (`SlotIsTier`). `RowCases` then lists
  the four ways in which a row changes, from which `RowsLeaveOnce` follows.
* `OrderInv`: of the enqueues that found rows only one is between its statements
  (`OneReader`, the row locks), and its position is past every row (`ReadLast`);
  hence the head that a poll has found stays the head until its row leaves
  (`HeadStays`), although the poll counts members in between and others enqueue.
* `OwedHere` adds to `OwedIsRung` the caller on its way to the room: the loop in that
  room is its own, so that the loop's look at the starter's place, and not the
  empty room, decides whether it may end.

`ConferenceRecordingProofs` and `RecordingNewsProofs` prove, for every set of file names,
any number of faults and of messages under way (from `RecordingConstantsOK` alone), all
the safety properties of the run `Recordings`:

| theorem | says |
|---|---|
| `TypeCorrect` | `[]TypeOK` |
| `StartTimed` | `[]StartHasTimer` |
| `ActiveIsTrue` | `[]ActiveIsRecorded` |
| `WritingIsShown` | `[]RecordedIsShown` |
| `EndedIsTold` | `[]EndedIsClosed` |

* `StartTimed`: every write of the shown state goes through `setRecordingState`, which
  starts the timer exactly for STARTING (`SetKeepsTimer`), and the timer is only cleared
  by a write of another state or with the registry's entry. With the timer's
  fairness, which only TLC uses, `StartEnds` follows.
* `News`, for `ActiveIsTrue`: a start that is still to be handled is followed by the end of
  its file, unless the file is being written (`FileTold`); hence what a handler makes
  ACTIVE is written, or a later message in the queue tells its end (`ShownTold`). One
  request at a time (`OneRequest`) keeps a look at the file from showing another.
* `Story`, for the other two, while `Usual` (no faults, no overlapping requests): it says
  what the backend will know after the next m messages (`KnownAfter`, `SeenAfter`). Every
  file that is written will then be on the screen (`Recorded`), and every file that has
  ended will have been told to a handler that finds its row (`Ended`). FreeSWITCH appends
  messages and the backend takes them from the front, so a step changes this only at
  one end of the queue. TLC checked `Story` with three files and no faults, and with two
  and one fault, before it was proved.

*Only model-checked*: liveness, which is out of the prover's reach (`CampaignEnds`,
`RowsEnd`, `EveryRowDialled`, `StartEnds`, `CallEnds`), and the five properties that the
code violates (section 5), which are refuted and not proved. The theorems marked
`~SlowModule` say nothing of `SlowModule`: there the properties fail.

tlapm's SMT backend rejects string literals with a space. The status values of
mod_callcenter are therefore written `LoggedOut` and `OnBreak`, and the reply about a file
that is not being recorded is `nopath`.

## 5. Where the code and its documents differ

1. `EnsLateReject`: the guide says that a retryable hangup triggers a retry. If the
   bgapi also answers -ERR, the catch at `campaignEngine.js:587` fails the row by id
   after the retry was queued.
2. `ThrottleStalls`: the guide says that throttling reduces the rate to 75%. The
   `Math.floor` at `campaignEngine.js:475` makes it 0 for rates below 1.34 calls/s, and
   as the busy share only changes with calls, it stays 0.
3. `AgentReason`: the comment at `agentSessionService.js:22` says that one client
   serializes a transition. It does not serialize two transitions with each other; the
   agent's break reason can be lost, or the break have no open segment.
4. `AgentFalseLogout`: the comment at fs-cc `eslService.js:612` says "This prevents false
   logouts — sessions stay open unless FS confirms logout." Two things refute it. An
   -ERR reply is read as an empty list, and absence from the list as a logout. And
   `reconcileOnStartup` reads the open sessions (`agentSessionService.js:202-204`) after the
   list, so an agent who logs in between the two loses the new session.
   `SlowModule = FALSE` leaves the second cause alone; `UncrossedLogouts` is what holds
   without either.
5. `RecordsTwice`: "Guard: prevent duplicate recording starts" (`monitoringController.js:174`).
   The guard looks at a state that is set when the reply has come: a second request, or
   automatic recording, passes it in between and two files are written.

Four more disagreements show in the bounds of properties that hold:

6. `ClosedIsQuiet` (`EnsRounds`). The comment at `campaignEngine.js:438-439` says of rows that
   wait for their retry that "they must block the completion gate or the campaign closes
   before the retry fires". The -ERR of a call fails its row while the hangup handler
   stands between its decision and its update; a tick that counts then finds nothing
   left and completes the campaign, and the retry is queued in a campaign that
   is never selected again.
7. `CountersCover` (`EnsRounds`). `docs/18-reporting-guide.md:164` calls `failed_count`
   "Unrecoverable failures" and `:160` `queued_count` "Contacts waiting to be dialled". The
   hangup and the -ERR of one call both count: a failure is counted twice, a retry
   that is overwritten stays in `queued_count`, a call that is retried after all stays in
   `failed_count`. The property keeps the half that holds: no row is left out.
8. `AttemptBudget` (`EnsEnds`). `docs/15-ens-guide.md:72` says of `max_attempts` "Maximum call
   attempts per contact before marking FAILED", `:282` of stale rows "Mark stale as FAILED".
   `recoverStaleDialing` queues them, whatever they have spent, and the claim does not
   look: each lost message or crash may cost an attempt above the maximum.
9. `ReapedWhenBlind` (`Calls`). fs-cc `eslService.js:423-424` says "cross references BOTH the CC
   member UUID and the channel VDN so that bridged (answered) calls are not mistakenly
   reaped", `:518-519` "checks BOTH CC member UUIDs and bridged channel UUIDs so answered
   calls are never falsely reaped". A bridged call has left the member list; when `show
   channels` fails, its empty list is no filter, and the call is closed while it goes on.

The following were met while the last three modules were written. They have no run of
their own; the properties of these modules are stated so that they hold in spite of
them, and each is visible in the action that it names.

*ERS.*

1. The held caller of the bridge script has a QUEUED incident but no queue row
   (`ers_conference_bridge.lua:269-270`, `docs/09_INCIDENT_FLOW.md:298`). No completion
   promotes it; the sweep completes it (`ReadUnqueued`) and the caller is told that
   the emergency has been resolved.
2. A completed incident can become ACTIVE again: a supervisor completes the queue's
   head, which is then promoted by that same completion (`CompleteIncident`), against
   `docs/09_INCIDENT_FLOW.md:293-301`.
3. A completion promotes the head of the queue but rings nobody
   (`ersInternalController.js:425-449`), and may promote it into an occupied room.
4. `startRingAll` does nothing while the room has a loop, also one about to end
   (`ersRingService.js:172`); more than one member counts as "caller plus responder"
   (`:224`), also when it is two callers. `OwedIsRung` therefore asks only for callers
   for whom a loop was started and who have been alone since.
5. `/overflow/cancel`, which a comment names (`ersInternalController.js:1181-1184`), is
   called by no script (`StopWaiting`). Two callers who find the queue empty get the
   same position (`:1140-1147`).
6. The advisory lock of ring-all ends before the first caller is in the room
   (`:962`), so a second one may get an incident of its own.

*Call tracking.*

1. A comment (`fs-cc eslService.js:469-471`) calls the close without lists a conservative
   sweep; what it closes is every call older than 10 s. `ReapedWhenBlind` states
   how many failures that takes.
2. bridge-agent-start and the import have no test for a closed row, so a call that the
   reaper closed falsely ends up abandoned and answered, or waiting.
3. The comment at `:207` says that a call is counted when it is finalized. A call that
   the hangup or the reaper finalizes first is not counted. An agent who was rung beside
   the one who answered then stays ringing as well, which is why `TablesTell` excepts
   calls that nobody counted.

*Recordings.*

1. The scan closes rows of files that are still being written, with the length so far;
   `docs/14-recording-guide.md:168-181` says that it looks at rows older than 120 s only,
   and that a missing file gives FAILED.
2. A stop whose command fails leaves STOPPING (`StopFails`), which refuses every later
   start. A row that automatic recording inserted on +OK without a file stays
   RECORDING for ever.
3. A failed `conference list` empties the registry (`Seed`), which the comment at
   `eslService.js:2196-2204` means to exclude. After a restart the state is OFF while
   FreeSWITCH records (`docs/ENTERPRISE_AUDIT.md:453`).
4. `recordingFSM.test.js:127-135` lists the valid transitions; the code also does OFF to
   ACTIVE, ACTIVE to STARTING (an event before its reply) and FAILED to ACTIVE. The tests
   never put an entry into the registry, so they do not meet them.

## 6. Not modelled

* Contact and dial-target resolution of a campaign, creation itself (one
  transaction, the initial state), several campaigns (they share only the tick).
* A second engine process: the comment at `campaignEngine.js:12` promises an
  advisory lock, the code takes none, and the deployment starts one instance.
* ERS: conferences in DYNAMIC mode, the flow trigger `exec_ers`, PIN authentication, the
  responders' report rows, `/overflow/cancel` (nothing calls it), `createIncident` and
  `completeIncident` of `ersController.js` (not routed), and that the sweep empties
  the queue in the end: with the sweep's fairness `ErsCalls` is too large.
* A lost reply (40 s) with a retry interval shorter than that: the rejection of the older
  call fails the row while its next call is under way. The models have it
  (`ReplyTimeout`), `BlastOutcome` allows for it, and no property forbids it.
* Call tracking: the IVR step buffer and the agents' own status column.
* Recordings: FIRST_PARTICIPANT and RECORD_STOP, recordings that Lua scripts make,
  streaming, archive and deletion, a path given in the request's body; and a start
  whose reply times out (10 s) before FreeSWITCH has looked at the command, which
  then opens the file of a request that has already failed.
* Participants of conferences: display only.
* The components that `PROJECT.json` lists as `not_modelled`, with their reasons.

## 7. Plan

Done: `EnsCampaign` with `BlastOutcome`, `EnsThrottle`, `AgentSessions`, `ErsDispatch`,
`CallTracking`, `ConferenceRecording`, and the theorems of section 4, which state every
safety property of the passing runs. Left:

1. **ConfigDeploy** for `DeploymentManager.js`: per file its content, the active version
   in the database, what FreeSWITCH has loaded, and the backup; deploy as drift check,
   backup, write, reload, snapshot, verify and audit, each of which may fail, and two
   deployments at once. Known from reading it: a failure after the snapshot
   restores the file while the new version stays active and loaded (`:278-310`),
   nothing is locked between drift check and write (`:116`), and a rollback ignores
   the result of its reload (`:412`). The property would be that file, version and
   FreeSWITCH agree after every deployment that reports failure.
2. An abstract tier (a queue served first come first served) that `ErsDispatch`
   implements, and the liveness of the sweep on an instance with one script.
3. `AgentSessions` with overlapping changes, and `EnsCampaign` with two ticks for the
   deployment that the comments describe.
4. Theorems: the safety of what 1 to 3 add.
