---------------------------- MODULE EnsCampaign ----------------------------
(***************************************************************************)
(* The ENS campaign engine of fs-enrs (services/campaignEngine.js): one    *)
(* blast campaign, its destination rows, the engine's tick, the handlers   *)
(* of the CHANNEL_ANSWER and CHANNEL_HANGUP events, the promise of each    *)
(* bgapi originate, the stale-row recovery, and the pause, resume and      *)
(* cancel requests.  The engine runs in one Node.js process (the PM2 file  *)
(* says instances: 1), but every awaited SQL statement is a point where    *)
(* the other handlers run: one action stands for one SQL statement and the *)
(* local computation up to the next one.                                   *)
(*                                                                         *)
(* A call is a pair <<d, k>>: the k-th attempt of destination d, which is  *)
(* what the random call UUID identifies.                                   *)
(***************************************************************************)
EXTENDS Integers, FiniteSets

CONSTANTS
  Dest,           \* destination rows of the campaign
  MaxConcurrent,  \* ens_campaigns.max_concurrent
  MaxAttempts,    \* ens_campaign_destinations.max_attempts
  BatchSize,      \* campaign.batch_size
  ClaimBound,     \* bound: attempts of one row that are explored
  FaultBound,     \* bound: lost ESL messages and process crashes explored
  Timeouts,       \* may campaign_timeout_min elapse?
  Cancels         \* may an operator cancel the campaign?

ASSUME ConstantsOK ==
  /\ IsFiniteSet(Dest)
  /\ MaxConcurrent \in Nat \ {0}
  /\ MaxAttempts \in Nat \ {0}
  /\ BatchSize \in Nat \ {0}
  /\ ClaimBound \in Nat \ {0}
  /\ FaultBound \in Nat
  /\ Timeouts \in BOOLEAN
  /\ Cancels \in BOOLEAN

VARIABLES
  \* the database row of the campaign
  camp,       \* ens_campaigns.status
  peak,       \* ens_campaigns.peak_concurrent
  cnt,        \* its counters
  media,      \* recording_file or message_audio_url is set
  elapsed,    \* campaign_timeout_min has passed since started_at
  \* the database rows of the destinations
  status,     \* status
  attempts,   \* attempt_count
  uuid,       \* call_uuid: the attempt it names, 0 for NULL
  answeredAt, \* rows whose answered_at is not NULL
  due,        \* rows whose next_attempt_at is NULL or in the past
  \* the engine process
  pc,         \* where the tick is
  seen,       \* status in the campaign row that the tick selected
  obs,        \* the counts that the tick read
  slots,      \* slots the tick decided to fill
  batch,      \* claimed rows not yet originated
  rec,        \* where recoverStaleDialing is
  canc,       \* a cancel request stands between its two updates
  \* FreeSWITCH and the handlers of its messages, per call
  call,       \* the outbound leg
  ans,        \* CHANNEL_ANSWER and onCallAnswer
  hup,        \* CHANNEL_HANGUP and onCallHangup
  job,        \* the promise of originateCampaignCall and its catch
  faults      \* messages lost and crashes so far

campVars  == <<camp, peak, cnt, media, elapsed>>
rowVars   == <<status, attempts, uuid, answeredAt, due>>
tickVars  == <<pc, seen, obs, slots, batch>>
callVars  == <<call, ans, hup, job>>
vars == <<campVars, rowVars, tickVars, rec, canc, callVars, faults>>

----------------------------------------------------------------------------
Call == Dest \X (1..ClaimBound)

DestStatus == {"queued", "dialing", "answered", "completed", "failed",
               "expired", "skipped"}
CampStatus == {"queued", "running", "paused", "completed", "cancelled"}
Counters   == [queued: Nat, dialing: Nat, answered: Nat, completed: Nat,
               failed: Nat, retried: Nat]
Observed   == [dialing: Nat, ready: Nat, pending: Nat]

TypeOK ==
  /\ camp \in CampStatus
  /\ peak \in Nat
  /\ cnt \in Counters
  /\ media \in BOOLEAN
  /\ elapsed \in BOOLEAN
  /\ status \in [Dest -> DestStatus]
  /\ attempts \in [Dest -> 0..ClaimBound]
  /\ uuid \in [Dest -> 0..ClaimBound]
  /\ answeredAt \in SUBSET Dest
  /\ due \in SUBSET Dest
  /\ pc \in {"idle", "start", "expire", "close", "count", "plan", "finish",
             "media", "claim", "book", "originate", "down"}
  /\ seen \in CampStatus
  /\ obs \in Observed
  /\ slots \in Nat
  /\ batch \in SUBSET Dest
  /\ rec \in {"off", "answered", "sync"}
  /\ canc \in BOOLEAN
  /\ call \in [Call -> {"none", "ringing", "live", "missed", "ended"}]
  /\ ans \in [Call -> {"none", "sent", "count", "done"}]
  /\ hup \in [Call -> {"none", "sent", "complete", "retry", "fail",
                       "countCompleted", "countRetry", "countFailed", "done"}]
  /\ job \in [Call -> {"none", "resolving", "sent", "rejected",
                       "countFailed", "done"}]
  /\ faults \in 0..FaultBound

InStatus(s) == {d \in Dest : status[d] = s}
InFlight == InStatus("dialing") \cup InStatus("answered")
\* The rows that the claim's sub-select takes.
BugReadyFailed == (InStatus("queued") \cup InStatus("failed")) \cap due
Ready    == InStatus("queued") \cap due
Pending  == InStatus("queued") \ due

NoCounts == [dialing |-> 0, ready |-> 0, pending |-> 0]

\* Bugs that the project's mutants bring in carry a prefix Bug; the definition
\* after each is the one the code has.

\* GREATEST(0, x - n)
BugMinusNegative(x, n) == x - n
Minus(x, n) == IF x > n THEN x - n ELSE 0

\* The call that the row's last claim was made for.
Current(d) == <<d, attempts[d]>>

\* No message of a call of d is on its way or half handled.
Quiet(d) == \A k \in 1..ClaimBound :
              /\ ans[<<d, k>>] \in {"none", "done"}
              /\ hup[<<d, k>>] \in {"none", "done"}
              /\ job[<<d, k>>] \in {"none", "done"}

----------------------------------------------------------------------------
\* createCampaignByConfigId has committed: the campaign and all its rows are
\* 'queued'.  A campaign made from message_text starts without a recording.
Init ==
  /\ camp = "queued" /\ peak = 0
  /\ cnt = [queued |-> Cardinality(Dest), dialing |-> 0, answered |-> 0,
            completed |-> 0, failed |-> 0, retried |-> 0]
  /\ media \in BOOLEAN
  /\ elapsed = FALSE
  /\ status = [d \in Dest |-> "queued"]
  /\ attempts = [d \in Dest |-> 0]
  /\ uuid = [d \in Dest |-> 0]
  /\ answeredAt = {}
  /\ due = Dest
  /\ pc = "idle" /\ seen = "queued" /\ slots = 0 /\ batch = {}
  /\ obs = NoCounts
  /\ rec = "off"
  /\ canc = FALSE
  /\ call = [c \in Call |-> "none"]
  /\ ans = [c \in Call |-> "none"]
  /\ hup = [c \in Call |-> "none"]
  /\ job = [c \in Call |-> "none"]
  /\ faults = 0

----------------------------------------------------------------------------
(* The tick: processAllCampaigns and processCampaign.                       *)

\* SELECT the campaigns with work; the row is a snapshot from here on.
SelectCampaign ==
  /\ pc = "idle"
  /\ camp \in {"queued", "running"}
  /\ seen' = camp
  /\ pc' = "start"
  /\ UNCHANGED <<campVars, rowVars, obs, slots, batch, rec, canc,
                 callVars, faults>>

\* queued -> running, then the timeout test on the selected started_at.
StartCampaign ==
  /\ pc = "start"
  /\ camp' = IF seen = "queued" /\ camp = "queued" THEN "running" ELSE camp
  /\ pc' = IF seen = "running" /\ elapsed THEN "expire" ELSE "count"
  /\ UNCHANGED <<peak, cnt, media, elapsed, rowVars, seen, obs, slots, batch,
                 rec, canc, callVars, faults>>

\* expireCampaign, first statement.
ExpireRows ==
  /\ pc = "expire"
  /\ status' = [d \in Dest |-> IF status[d] = "queued" THEN "expired"
                                                       ELSE status[d]]
  /\ pc' = "close"
  /\ UNCHANGED <<campVars, attempts, uuid, answeredAt, due, seen, obs,
                 slots, batch, rec, canc, callVars, faults>>

\* expireCampaign, second statement.
ExpireCampaign ==
  /\ pc = "close"
  /\ camp' = IF camp = "running" THEN "completed" ELSE camp
  /\ pc' = "idle"
  /\ UNCHANGED <<peak, cnt, media, elapsed, rowVars, seen, obs, slots, batch,
                 rec, canc, callVars, faults>>

\* SELECT COUNT(*) FILTER ...: in flight, ready, and waiting for a retry.
CountRows ==
  /\ pc = "count"
  /\ obs' = [dialing |-> Cardinality(InFlight), ready |-> Cardinality(Ready),
             pending |-> Cardinality(Pending)]
  /\ pc' = "plan"
  /\ UNCHANGED <<campVars, rowVars, seen, slots, batch, rec, canc,
                 callVars, faults>>

\* The peak_concurrent statement writes the observed count into dialing_count.
RecordPeak ==
  IF obs.dialing > peak
  THEN peak' = obs.dialing /\ cnt' = [cnt EXCEPT !.dialing = obs.dialing]
  ELSE UNCHANGED <<peak, cnt>>

BugNothingReady == obs.ready = 0 /\ obs.dialing = 0
NothingLeft == obs.ready = 0 /\ obs.dialing = 0 /\ obs.pending = 0

PlanFinish ==
  /\ pc = "plan"
  /\ NothingLeft
  /\ RecordPeak
  /\ pc' = "finish"
  /\ obs' = NoCounts
  /\ UNCHANGED <<camp, media, elapsed, rowVars, seen, slots, batch, rec, canc,
                 callVars, faults>>

\* No free slot, nothing ready, or no room in the CPS window.
PlanWait ==
  /\ pc = "plan"
  /\ ~NothingLeft
  /\ RecordPeak
  /\ pc' = "idle"
  /\ obs' = NoCounts
  /\ UNCHANGED <<camp, media, elapsed, rowVars, seen, slots, batch, rec, canc,
                 callVars, faults>>

\* availableSlots.
BugFreeSlots == MaxConcurrent
FreeSlots    == MaxConcurrent - obs.dialing

\* n = min(free slots, CPS window, batch_size, ready); the CPS window may make
\* it any smaller number.
PlanFill(n) ==
  /\ pc = "plan"
  /\ n <= FreeSlots
  /\ n <= BatchSize
  /\ n <= obs.ready
  /\ RecordPeak
  /\ slots' = n
  /\ pc' = IF media THEN "claim" ELSE "media"
  /\ obs' = NoCounts
  /\ UNCHANGED <<camp, media, elapsed, rowVars, seen, batch, rec, canc,
                 callVars, faults>>

\* completeCampaign.
CompleteCampaign ==
  /\ pc = "finish"
  /\ camp' = IF camp = "running" THEN "completed" ELSE camp
  /\ pc' = "idle"
  /\ UNCHANGED <<peak, cnt, media, elapsed, rowVars, seen, obs, slots, batch,
                 rec, canc, callVars, faults>>

\* ensureCampaignTtsWav and the update of recording_file: a recording exists
\* before any row is claimed ...
SynthesizeMedia ==
  /\ pc = "media"
  /\ media' = TRUE
  /\ pc' = "claim"
  /\ UNCHANGED <<camp, peak, cnt, elapsed, rowVars, seen, obs, slots, batch,
                 rec, canc, callVars, faults>>

\* ... or the tick gives up, and a later one tries again.
BugSynthesisFails ==
  /\ pc = "media"
  /\ pc' = "claim"
  /\ UNCHANGED <<campVars, rowVars, seen, obs, slots, batch, rec, canc,
                 callVars, faults>>

SynthesisFails ==
  /\ pc = "media"
  /\ pc' = "idle"
  /\ slots' = 0
  /\ UNCHANGED <<campVars, rowVars, seen, obs, batch, rec, canc, callVars,
                 faults>>

\* Claim up to `slots` ready rows in one UPDATE.
ClaimRows(S) ==
  /\ pc = "claim"
  /\ S \subseteq Ready
  /\ \/ Cardinality(S) = slots
     \/ S = Ready /\ Cardinality(S) <= slots
  /\ \A d \in S : attempts[d] < ClaimBound
  /\ status'   = [d \in Dest |-> IF d \in S THEN "dialing" ELSE status[d]]
  /\ attempts' = [d \in Dest |-> IF d \in S THEN attempts[d] + 1
                                            ELSE attempts[d]]
  /\ uuid'     = [d \in Dest |-> IF d \in S THEN 0 ELSE uuid[d]]
  /\ batch' = S
  /\ slots' = 0
  /\ pc' = IF S = {} THEN "idle" ELSE "book"
  /\ UNCHANGED <<campVars, answeredAt, due, seen, obs, rec, canc,
                 callVars, faults>>

\* The counters of the claimed rows.
BookClaim ==
  /\ pc = "book"
  /\ cnt' = [cnt EXCEPT !.dialing = @ + Cardinality(batch),
                        !.queued  = Minus(@, Cardinality(batch))]
  /\ pc' = "originate"
  /\ UNCHANGED <<camp, peak, media, elapsed, rowVars, seen, obs, slots, batch,
                 rec, canc, callVars, faults>>

\* originateDestination: store the new UUID, then start the originate without
\* awaiting it.
Originate(d) ==
  /\ pc = "originate"
  /\ d \in batch
  /\ uuid' = [uuid EXCEPT ![d] = attempts[d]]
  /\ job' = [job EXCEPT ![Current(d)] = "resolving"]
  /\ batch' = batch \ {d}
  /\ pc' = IF batch' = {} THEN "idle" ELSE "originate"
  /\ UNCHANGED <<campVars, status, attempts, answeredAt, due, seen,
                 obs, slots, rec, canc, call, ans, hup, faults>>

\* A statement of the dispatch loop throws: the claimed rows that are left stay
\* 'dialing' with no call behind them.
DispatchThrows ==
  /\ pc \in {"book", "originate"}
  /\ faults < FaultBound
  /\ faults' = faults + 1
  /\ batch' = {}
  /\ pc' = "idle"
  /\ UNCHANGED <<campVars, rowVars, seen, obs, slots, rec, canc, callVars>>

----------------------------------------------------------------------------
(* FreeSWITCH and the ESL connection.  Every message may be lost with the   *)
(* socket; with the process down it is lost for sure.                       *)

\* Charge a lost message to the fault bound.
Losing(b) ==
  IF b /\ pc # "down" THEN faults < FaultBound /\ faults' = faults + 1
                      ELSE UNCHANGED faults

Set(f, c, v) == [f EXCEPT ![c] = v]

EngineUnchanged == UNCHANGED <<campVars, rowVars, tickVars, rec, canc>>

\* originateCampaignCall has resolved a dial string and sent bgapi originate.
FsRing(c) ==
  /\ job[c] = "resolving"
  /\ job' = Set(job, c, "sent")
  /\ call' = Set(call, c, "ringing")
  /\ EngineUnchanged /\ UNCHANGED <<ans, hup, faults>>

\* No dial string, no ESL connection, or -ERR before there is a channel.
DispatchRejected(c) ==
  /\ job[c] = "resolving"
  /\ job' = Set(job, c, "rejected")
  /\ EngineUnchanged /\ UNCHANGED <<call, ans, hup, faults>>

\* The callee answers: CHANNEL_ANSWER and, with it, the +OK of the bgapi job.
FsAnswer(c) ==
  /\ call[c] = "ringing"
  /\ call' = Set(call, c, "live")
  /\ \E event \in {"sent", "done"}, reply \in {"done", job[c]} :
       /\ event = "sent" => pc # "down"
       /\ Losing(event = "done" \/ reply = "sent")
       /\ ans' = Set(ans, c, event)
       /\ job' = Set(job, c, reply)
  /\ EngineUnchanged /\ UNCHANGED hup

\* The leg ends: CHANNEL_HANGUP.  A leg that never answered also ends the bgapi
\* job, with -ERR and the cause, and originateCampaignCall throws.
FsHangup(c) ==
  /\ call[c] \in {"ringing", "live"}
  /\ call' = Set(call, c, IF call[c] = "live" THEN "ended" ELSE "missed")
  /\ LET Open == call[c] = "ringing" /\ job[c] = "sent"
     IN \E event \in {"sent", "done"},
           reply \in IF Open THEN {"rejected", "sent"} ELSE {job[c]} :
          /\ event = "sent" => pc # "down"
          /\ Losing(event = "done" \/ (Open /\ reply = "sent"))
          /\ hup' = Set(hup, c, event)
          /\ job' = Set(job, c, reply)
  /\ EngineUnchanged /\ UNCHANGED ans

\* eslCommand gives up on a reply that was lost, 40 s after the originate.
ReplyTimeout(c) ==
  /\ job[c] = "sent"
  /\ call[c] # "ringing"
  /\ job' = Set(job, c, "rejected")
  /\ EngineUnchanged /\ UNCHANGED <<call, ans, hup, faults>>

----------------------------------------------------------------------------
(* The handlers, one action per statement.  None of them waits for another. *)

\* The row that call_uuid = $1 selects, if any.
Names(c) == uuid[c[1]] = c[2]

\* onCallAnswer.
AnswerRow(c) ==
  /\ ans[c] = "sent"
  /\ IF Names(c) /\ status[c[1]] = "dialing"
     THEN /\ status' = Set(status, c[1], "answered")
          /\ answeredAt' = answeredAt \cup {c[1]}
          /\ ans' = Set(ans, c, "count")
     ELSE /\ ans' = Set(ans, c, "done")
          /\ UNCHANGED <<status, answeredAt>>
  /\ UNCHANGED <<campVars, attempts, uuid, due, tickVars, rec, canc,
                 call, hup, job, faults>>

AnswerCount(c) ==
  /\ ans[c] = "count"
  /\ cnt' = [cnt EXCEPT !.answered = @ + 1, !.dialing = Minus(@, 1)]
  /\ ans' = Set(ans, c, "done")
  /\ UNCHANGED <<camp, peak, media, elapsed, rowVars, tickVars, rec, canc, call,
                 hup, job, faults>>

\* answered_at is set, or the status is 'answered'.
BugWasAnswered(d) == status[d] # "queued"
WasAnswered(d)    == d \in answeredAt \/ status[d] = "answered"

BugMayRetry(d) == attempts[d] <= MaxAttempts
MayRetry(d)    == attempts[d] < MaxAttempts

\* onCallHangup reads the row and decides, before any of its updates.  The
\* causes of RETRYABLE_CAUSES end legs that were never answered.
HangupRead(c) ==
  /\ hup[c] = "sent"
  /\ \E retryable \in {FALSE, call[c] = "missed"} :
       hup' = Set(hup, c,
         IF ~Names(c) THEN "done"
         ELSE IF WasAnswered(c[1]) THEN "complete"
         ELSE IF retryable /\ MayRetry(c[1]) THEN "retry"
         ELSE "fail")
  /\ EngineUnchanged /\ UNCHANGED <<call, ans, job, faults>>

HangupComplete(c) ==
  /\ hup[c] = "complete"
  /\ status' = Set(status, c[1], "completed")
  /\ hup' = Set(hup, c, "countCompleted")
  /\ UNCHANGED <<campVars, attempts, uuid, answeredAt, due, tickVars,
                 rec, canc, call, ans, job, faults>>

HangupRetry(c) ==
  /\ hup[c] = "retry"
  /\ status' = Set(status, c[1], "queued")
  /\ uuid' = Set(uuid, c[1], 0)
  /\ due' = due \ {c[1]}
  /\ hup' = Set(hup, c, "countRetry")
  /\ UNCHANGED <<campVars, attempts, answeredAt, tickVars, rec, canc,
                 call, ans, job, faults>>

\* handleDestFailed, first statement: by row id, whatever the row says now.
FailRow(c) ==
  /\ status' = Set(status, c[1], "failed")
  /\ uuid' = Set(uuid, c[1], 0)
  /\ UNCHANGED <<campVars, attempts, answeredAt, due, tickVars, rec,
                 canc, call, ans, faults>>

HangupFail(c) ==
  /\ hup[c] = "fail"
  /\ FailRow(c)
  /\ hup' = Set(hup, c, "countFailed")
  /\ UNCHANGED job

\* The catch of originateDestination.
JobFail(c) ==
  /\ job[c] = "rejected"
  /\ FailRow(c)
  /\ job' = Set(job, c, "countFailed")
  /\ UNCHANGED hup

Counted ==
  UNCHANGED <<camp, peak, media, elapsed, rowVars, tickVars, rec, canc, call,
              ans, faults>>

HangupCount(c) ==
  /\ \/ /\ hup[c] = "countCompleted"
        /\ cnt' = [cnt EXCEPT !.completed = @ + 1]
     \/ /\ hup[c] = "countRetry"
        /\ cnt' = [cnt EXCEPT !.retried = @ + 1, !.queued = @ + 1,
                              !.dialing = Minus(@, 1)]
     \/ /\ hup[c] = "countFailed"
        /\ cnt' = [cnt EXCEPT !.failed = @ + 1, !.dialing = Minus(@, 1)]
  /\ hup' = Set(hup, c, "done")
  /\ Counted /\ UNCHANGED job

JobCount(c) ==
  /\ job[c] = "countFailed"
  /\ cnt' = [cnt EXCEPT !.failed = @ + 1, !.dialing = Minus(@, 1)]
  /\ job' = Set(job, c, "done")
  /\ Counted /\ UNCHANGED hup

----------------------------------------------------------------------------
(* Time.                                                                    *)

\* next_attempt_at passes.  Every delay is a whole number of seconds, never 0:
\* the handler that set it has made its last update by then, and so has the catch
\* of the same call, whose -ERR came with the hangup unless it was lost.
RetryDue(d) ==
  /\ status[d] = "queued" /\ d \notin due
  /\ \A k \in 1..ClaimBound :
       /\ hup[<<d, k>>] \in {"none", "done"}
       /\ job[<<d, k>>] \notin {"rejected", "countFailed"}
  /\ due' = due \cup {d}
  /\ UNCHANGED <<campVars, status, attempts, uuid, answeredAt, tickVars,
                 rec, canc, callVars, faults>>

\* campaign_timeout_min passes since started_at.
TimeoutElapses ==
  /\ Timeouts /\ ~elapsed
  /\ camp # "queued"
  /\ elapsed' = TRUE
  /\ UNCHANGED <<camp, peak, cnt, media, rowVars, tickVars, rec, canc, callVars,
                 faults>>

----------------------------------------------------------------------------
(* recoverStaleDialing, started with the engine and again every minute; it  *)
(* is not awaited, so the tick runs between its statements.  It finds a row *)
(* whose last_attempt_at is 90 s old: its leg has stopped ringing (30 s),   *)
(* its bgapi job has settled (40 s) and its messages have been handled.     *)

BugStaleTooSoon == InStatus("dialing") \ batch
StaleDialing  == {d \in InStatus("dialing") \ batch :
                    Quiet(d) /\ call[Current(d)] # "ringing"}

\* STALE_ANSWERED_SEC is 600: the message has been played by then.
BugStaleAnswered == {}
StaleAnswered == {d \in InStatus("answered") :
                    Quiet(d) /\ call[Current(d)] # "live"}

RecoverDialing(S) ==
  /\ rec = "off" /\ pc # "down"
  /\ S # {} /\ S \subseteq StaleDialing
  /\ status' = [d \in Dest |-> IF d \in S THEN "queued" ELSE status[d]]
  /\ uuid'   = [d \in Dest |-> IF d \in S THEN 0 ELSE uuid[d]]
  /\ due' = due \ S
  /\ rec' = "answered"
  /\ UNCHANGED <<campVars, attempts, answeredAt, tickVars, canc, callVars,
                 faults>>

RecoverAnswered(T) ==
  /\ pc # "down"
  /\ rec = "answered" \/ (rec = "off" /\ T # {})
  /\ T \subseteq StaleAnswered
  /\ status' = [d \in Dest |-> IF d \in T THEN "completed" ELSE status[d]]
  /\ uuid'   = [d \in Dest |-> IF d \in T THEN 0 ELSE uuid[d]]
  /\ rec' = "sync"
  /\ UNCHANGED <<campVars, attempts, answeredAt, due, tickVars, canc,
                 callVars, faults>>

\* syncCampaignCounters.
SyncCounters ==
  /\ rec = "sync"
  /\ cnt' = [cnt EXCEPT !.queued    = Cardinality(InStatus("queued")),
                        !.dialing   = Cardinality(InFlight),
                        !.answered  = Cardinality(answeredAt),
                        !.completed = Cardinality(InStatus("completed")),
                        !.failed    = Cardinality(InStatus("failed"))]
  /\ rec' = "off"
  /\ UNCHANGED <<camp, peak, media, elapsed, rowVars, tickVars, canc, callVars,
                 faults>>

----------------------------------------------------------------------------
(* Requests of an operator.                                                 *)

PauseCampaign ==
  /\ pc # "down"
  /\ camp = "running" /\ camp' = "paused"
  /\ UNCHANGED <<peak, cnt, media, elapsed, rowVars, tickVars, rec, canc,
                 callVars, faults>>

ResumeCampaign ==
  /\ pc # "down"
  /\ camp = "paused" /\ camp' = "running"
  /\ UNCHANGED <<peak, cnt, media, elapsed, rowVars, tickVars, rec, canc,
                 callVars, faults>>

\* cancelCampaign is two statements outside a transaction.
CancelRows ==
  /\ Cancels /\ ~canc /\ pc # "down"
  /\ camp \in {"queued", "running", "paused"}
  /\ status' = [d \in Dest |-> IF status[d] = "queued" THEN "skipped"
                                                       ELSE status[d]]
  /\ canc' = TRUE
  /\ UNCHANGED <<campVars, attempts, uuid, answeredAt, due, tickVars,
                 rec, callVars, faults>>

CancelCampaign ==
  /\ canc
  /\ camp' = IF camp \in {"queued", "running", "paused"} THEN "cancelled"
                                                         ELSE camp
  /\ canc' = FALSE
  /\ UNCHANGED <<peak, cnt, media, elapsed, rowVars, tickVars, rec, callVars,
                 faults>>

----------------------------------------------------------------------------
(* The process dies and PM2 starts it again.  What was in its memory or on  *)
(* the ESL socket is gone; the rows and the calls are not.                  *)

Forget(f) == [c \in Call |-> IF f[c] = "none" THEN "none" ELSE "done"]

Crash ==
  /\ pc # "down"
  /\ faults < FaultBound
  /\ faults' = faults + 1
  /\ pc' = "down" /\ batch' = {} /\ slots' = 0 /\ obs' = NoCounts
  /\ rec' = "off" /\ canc' = FALSE
  /\ ans' = Forget(ans) /\ hup' = Forget(hup) /\ job' = Forget(job)
  /\ UNCHANGED <<campVars, rowVars, seen, call>>

Restart ==
  /\ pc = "down"
  /\ pc' = "idle"
  /\ UNCHANGED <<campVars, rowVars, seen, obs, slots, batch, rec, canc,
                 callVars, faults>>

----------------------------------------------------------------------------
Tick ==
  \/ SelectCampaign \/ StartCampaign \/ ExpireRows \/ ExpireCampaign
  \/ CountRows \/ PlanFinish \/ PlanWait \/ \E n \in 1..BatchSize : PlanFill(n)
  \/ CompleteCampaign \/ SynthesizeMedia \/ SynthesisFails
  \/ \E S \in SUBSET Dest : ClaimRows(S)
  \/ BookClaim \/ \E d \in Dest : Originate(d)

Handler(c) ==
  \/ AnswerRow(c) \/ AnswerCount(c)
  \/ HangupRead(c) \/ HangupComplete(c) \/ HangupRetry(c) \/ HangupFail(c)
  \/ HangupCount(c) \/ JobFail(c) \/ JobCount(c)

Originating(c) == FsRing(c) \/ DispatchRejected(c) \/ ReplyTimeout(c)

Telephone(c) == FsAnswer(c) \/ FsHangup(c)

Recovery ==
  \/ \E S \in SUBSET Dest : RecoverDialing(S) \/ RecoverAnswered(S)
  \/ SyncCounters

Operator == PauseCampaign \/ ResumeCampaign \/ CancelRows \/ CancelCampaign

Next ==
  \/ Tick
  \/ \E c \in Call : Handler(c) \/ Originating(c) \/ Telephone(c)
  \/ \E d \in Dest : RetryDue(d)
  \/ TimeoutElapses
  \/ Recovery
  \/ Operator
  \/ DispatchThrows \/ Crash \/ Restart

Spec == Init /\ [][Next]_vars

\* The timer, the event loop, FreeSWITCH's own timeouts and PM2 keep going.
\* The CPS window empties within a second, so a slot that stays free is filled
\* in some tick, and Piper is assumed to succeed if it is asked for ever.
\* Nobody has to pause, resume or cancel.
Fairness ==
  /\ WF_vars(Tick)
  /\ SF_vars(\E n \in 1..BatchSize : PlanFill(n))
  /\ SF_vars(SynthesizeMedia)
  /\ \A c \in Call : /\ WF_vars(Handler(c))
                     /\ WF_vars(Originating(c))
                     /\ WF_vars(Telephone(c))
  /\ \A d \in Dest :
       /\ WF_vars(RetryDue(d))
       /\ WF_vars(\E S \in SUBSET Dest : d \in S /\ RecoverDialing(S))
       /\ WF_vars(\E S \in SUBSET Dest : d \in S /\ RecoverAnswered(S))
  /\ WF_vars(rec = "answered" /\ RecoverAnswered({}))
  /\ WF_vars(SyncCounters)
  /\ WF_vars(CancelCampaign)
  /\ WF_vars(Restart)

FairSpec == Spec /\ Fairness

----------------------------------------------------------------------------
(* Properties.                                                              *)

FaultFree == faults = 0

\* Rows and messages have come to rest: nothing is half done.
Settled ==
  /\ pc = "idle" /\ rec = "off" /\ ~canc
  /\ \A d \in Dest : Quiet(d)
  /\ \A c \in Call : call[c] \notin {"ringing", "live"}

\* Never are more than max_concurrent destinations of a campaign in flight,
\* although the tick counts, synthesizes speech and claims in separate
\* statements while handlers, recovery and operators move rows.
ConcurrencyLimit ==
  /\ Cardinality(InFlight) <= MaxConcurrent
  /\ peak <= MaxConcurrent

\* The limit holds for the real calls too: no row is released while its call
\* rings or talks, unless a message was lost.
CallsWithinLimit ==
  FaultFree =>
    Cardinality({c \in Call : call[c] \in {"ringing", "live"}})
      <= MaxConcurrent

\* A destination has one call at a time, unless a message was lost.
OneCallPerDest ==
  FaultFree =>
    \A d \in Dest :
      Cardinality({k \in 1..ClaimBound :
                     call[<<d, k>>] \in {"ringing", "live"}}) <= 1

\* Retries spend the attempt budget of the row, and each lost message or crash
\* costs the row at most one attempt more, when the sweep puts it back.
AttemptBudget == \A d \in Dest : attempts[d] <= MaxAttempts + faults

\* call_uuid never names an attempt other than the row's latest, so no event
\* of an older call finds a row that was claimed again.
UuidNamesCurrentAttempt ==
  \A d \in Dest : uuid[d] # 0 => uuid[d] = attempts[d]

\* 'completed' is written for delivered calls only.
CompletedWasAnswered ==
  \A d \in Dest :
    status[d] = "completed" =>
      \E k \in 1..ClaimBound : call[<<d, k>>] \in {"live", "ended"}

\* No row is claimed, and no call is made, before there is something to play.
NoCallWithoutMedia ==
  (InFlight # {} \/ \E c \in Call : call[c] # "none") => media

\* A campaign that closed because nothing was left calls nobody any more.  A row
\* that is queued in it had its failure written before its retry was.
ClosedIsQuiet ==
  camp = "completed" /\ ~elapsed =>
    /\ InFlight = {}
    /\ FaultFree =>
         /\ \A c \in Call : call[c] \notin {"ringing", "live"}
         /\ \A d \in InStatus("queued") :
              call[Current(d)] = "missed" /\ job[Current(d)] \in {"countFailed", "done"}

\* A row that is waiting for its retry is not failed behind its back.
RetryNotAbandoned ==
  [][\A d \in Dest : status[d] = "queued" => status'[d] # "failed"]_vars

\* When everything has come to rest, the counters of answered and of delivered
\* calls, kept by one-step increments, equal a recount of the rows, and those of
\* failed and of waiting rows are not below one: the hangup and the -ERR of one
\* call may both be counted, no row is left out.
CountersCover ==
  Settled /\ FaultFree =>
    /\ cnt.answered  = Cardinality(answeredAt)
    /\ cnt.completed = Cardinality(InStatus("completed"))
    /\ cnt.failed   >= Cardinality(InStatus("failed"))
    /\ cnt.queued   >= Cardinality(InStatus("queued"))

\* A campaign that is not left paused ends, whatever is lost on the way.
CampaignEnds ==
  []<>(camp = "paused") \/ <>(camp \in {"completed", "cancelled"})

\* So does every row: none stays in flight for ever, and none is left waiting
\* unless the campaign has closed.
RowsEnd ==
  []<>(camp = "paused")
    \/ \A d \in Dest :
         \/ <>[](status[d] \notin {"queued", "dialing", "answered"})
         \/ <>[](status[d] = "queued" /\ camp \in {"completed", "cancelled"})

\* What makes the safety properties inductive, part by part.

\* The count that the tick acts on is an upper bound until its claim is made:
\* nothing but the claim itself puts rows in flight.
SlotsReserved ==
  /\ pc = "plan" => /\ Cardinality(InFlight) <= obs.dialing
                    /\ obs.dialing <= MaxConcurrent
  /\ pc \in {"media", "claim"} => Cardinality(InFlight) + slots <= MaxConcurrent

\* A row that carries a UUID, waits in the batch or has a retry coming is not
\* queued, so that no other tick claims it meanwhile.
ClaimedOnce ==
  /\ \A d \in Dest : uuid[d] # 0 => status[d] # "queued"
  /\ \A d \in batch : status[d] # "queued" /\ uuid[d] = 0
  /\ \A d \in Dest, k \in 1..ClaimBound :
       hup[<<d, k>>] = "retry" => /\ k = attempts[d]
                                  /\ status[d] # "queued" /\ d \notin batch
                                  /\ attempts[d] < MaxAttempts

\* A row that has spent its budget is not queued; if it is dialing, its call
\* rings or something of it is still to be handled, so the sweep leaves it alone.
OnItsWay(d) ==
  \/ d \in batch
  \/ LET c == Current(d)
     IN /\ Names(c)
        /\ \/ call[c] = "ringing" \/ ans[c] = "sent"
           \/ job[c] \in {"resolving", "rejected"}
           \/ hup[c] \in {"sent", "complete", "retry", "fail"}

BudgetSpent ==
  \A d \in Dest :
    attempts[d] >= MaxAttempts + faults =>
      /\ pc # "down"
      /\ status[d] # "queued"
      /\ status[d] = "dialing" => OnItsWay(d)

\* answered_at, and whatever follows from it, goes back to a call that talked.
Talked(d) == \E k \in 1..ClaimBound : call[<<d, k>>] \in {"live", "ended"}

AnswerTraced ==
  /\ \A d \in Dest, k \in 1..ClaimBound :
       ans[<<d, k>>] = "sent" => call[<<d, k>>] \in {"live", "ended"}
  /\ \A d \in answeredAt : Talked(d)
  /\ \A d \in Dest : status[d] = "answered" => d \in answeredAt
  /\ \A d \in Dest, k \in 1..ClaimBound :
       hup[<<d, k>>] = "complete" => d \in answeredAt

MediaFirst ==
  /\ pc \in {"claim", "book", "originate"} \/ batch # {} => media
  /\ \A c \in Call : job[c] # "none" => media

\* Every originate is for an attempt that no call was made for.
FreshCalls ==
  /\ \A c \in Call : job[c] \in {"none", "resolving"} => call[c] = "none"
  /\ \A d \in Dest, k \in 1..ClaimBound :
       k > attempts[d] => job[<<d, k>>] = "none"
  /\ \A d \in batch : job[Current(d)] = "none"

EngineInv ==
  /\ SlotsReserved /\ ClaimedOnce /\ BudgetSpent
  /\ AnswerTraced /\ MediaFirst /\ FreshCalls

\* The rows keep the promise of BlastOutcome.
RowOutcome ==
  [d \in Dest |->
     CASE status[d] = "queued"                  -> "waiting"
       [] status[d] \in {"dialing", "answered"} -> "active"
       [] status[d] = "completed"               -> "delivered"
       [] status[d] = "failed"                  -> "failed"
       [] OTHER                                 -> "dropped"]

\* The rows with a verdict still to be written: a hangup handler has the call, the
\* promise of an originate is going to fail a row that is not failed, or the row
\* has been failed for an older call while the current one is under way.
UnderWay(c) == Names(c) /\ (job[c] = "resolving" \/ call[c] \in {"ringing", "live"})

VerdictDue ==
  {d \in Dest : \E k \in 1..ClaimBound :
     LET c == <<d, k>>
     IN \/ hup[c] = "sent" /\ Names(c)
        \/ hup[c] \in {"complete", "retry", "fail"}
        \/ /\ job[c] = "rejected" \/ (job[c] = "sent" /\ call[c] # "ringing")
           /\ status[d] # "failed"
        \/ status[d] = "failed" /\ (d \in batch \/ UnderWay(c))}

Promise == INSTANCE BlastOutcome
             WITH Limit <- MaxConcurrent, row <- RowOutcome, late <- VerdictDue

KeepsPromise == Promise!Spec
=============================================================================
