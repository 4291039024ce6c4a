--------------------------- MODULE EnsCalmProofs ---------------------------
(***************************************************************************)
(* Theorems about EnsCampaign while no message is lost and the process     *)
(* does not die: what a destination, its call and the handlers of its      *)
(* messages look like together at every moment, and what follows from it   *)
(* for the calls in progress, the end of a campaign and its counters.      *)
(***************************************************************************)
EXTENDS EnsCampaignProofs

Talking(c) == call[c] \in {"ringing", "live"}

\* A fault is counted and never forgotten.
LEMMA FaultsGrow ==
  TypeOK /\ [Next]_vars /\ faults' = 0
    => faults = 0 /\ ~DispatchThrows /\ ~Crash
<1>. SUFFICES ASSUME TypeOK, [Next]_vars, faults' = 0
              PROVE  faults = 0 /\ ~DispatchThrows /\ ~Crash
  OBVIOUS
<1>1. faults \in Nat
  BY ConstantsOK DEF TypeOK, ConstantsOK
<1>2. ~DispatchThrows /\ ~Crash
  BY <1>1 DEF DispatchThrows, Crash
<1>3. faults' = faults \/ faults' = faults + 1
  BY <1>2 DEF Next, vars, Tick, SelectCampaign, StartCampaign, ExpireRows,
           ExpireCampaign, CountRows, PlanFinish, PlanWait, PlanFill,
           CompleteCampaign, SynthesizeMedia, SynthesisFails, ClaimRows,
           BookClaim, Originate, Handler, AnswerRow, AnswerCount, HangupRead,
           HangupComplete, HangupRetry, HangupFail, HangupCount, JobFail,
           JobCount, FailRow, Counted, Originating, Telephone, FsRing,
           DispatchRejected, ReplyTimeout, FsAnswer, FsHangup, Losing, RetryDue,
           TimeoutElapses, Recovery, RecoverDialing, RecoverAnswered,
           SyncCounters, Operator, PauseCampaign, ResumeCampaign, CancelRows,
           CancelCampaign, Restart
<1>. QED  BY <1>1, <1>2, <1>3

\* So every step of a run without faults leaves d as it is, or is about d.
LEMMA SameOrConcerns ==
  ASSUME TypeOK, BatchInHand, [Next]_vars, faults' = 0, NEW d \in Dest
  PROVE  Same(d) \/ Concerns(d)
BY SameOrAbout, FaultsGrow

----------------------------------------------------------------------------
(* One call at a time.                                                      *)

\* A destination whose row is in flight is under its UUID, whatever is dialled
\* or talks is its latest attempt, and its events come in their order.
OneCall(d) ==
  /\ status[d] = "dialing" /\ d \notin batch => uuid[d] # 0
  /\ \A k \in 1..ClaimBound :
       /\ job[<<d, k>>] = "resolving" \/ Talking(<<d, k>>)
            => k = attempts[d] /\ d \notin batch /\ status[d] # "queued"
       /\ call[<<d, k>>] \in {"none", "ringing"} => ans[<<d, k>>] = "none"
       /\ call[<<d, k>>] = "live" => ans[<<d, k>>] = "sent" \/ status[d] # "dialing"
       /\ hup[<<d, k>>] # "none" => call[<<d, k>>] \in {"missed", "ended"}

\* The handlers of one call, in the terms that OneCall speaks of.
LEMMA HandlerEffect ==
  ASSUME TypeOK, NEW d \in Dest, NEW k \in 1..ClaimBound, Handler(<<d, k>>)
  PROVE  /\ UNCHANGED <<attempts, batch, call, pc, rec>>
         /\ \A j \in 1..ClaimBound :
              /\ j # k => /\ ans'[<<d, j>>] = ans[<<d, j>>]
                          /\ hup'[<<d, j>>] = hup[<<d, j>>]
                          /\ job'[<<d, j>>] = job[<<d, j>>]
<1>. USE DEF campVars, rowVars, tickVars, callVars, EngineUnchanged, Set
<1>1. /\ \A j \in 1..ClaimBound : j # k => <<d, j>> # <<d, k>>
      /\ \A j \in 1..ClaimBound : <<d, j>> \in Call
      /\ ans \in [Call -> {"none", "sent", "count", "done"}]
      /\ hup \in [Call -> {"none", "sent", "complete", "retry", "fail",
                           "countCompleted", "countRetry", "countFailed", "done"}]
      /\ job \in [Call -> {"none", "resolving", "sent", "rejected",
                           "countFailed", "done"}]
  BY DEF Call, TypeOK
<1>. QED
  BY <1>1
     DEF Handler, AnswerRow, AnswerCount, HangupRead, HangupComplete,
         HangupRetry, HangupFail, HangupCount, JobFail, JobCount, FailRow,
         Counted

LEMMA OneCallHandler ==
  ASSUME TypeOK, Claims, FreshCalls, NEW d \in Dest, OneCall(d),
         NEW k \in 1..ClaimBound, Handler(<<d, k>>)
  PROVE  OneCall(d)'
<1>. DEFINE c == <<d, k>>
<1>0. /\ c \in Call /\ c[1] = d /\ c[2] = k
      /\ \A j \in 1..ClaimBound : <<d, j>> \in Call
      /\ \A j \in 1..ClaimBound : <<d, j>> = c <=> j = k
      /\ ans \in [Call -> {"none", "sent", "count", "done"}]
      /\ hup \in [Call -> {"none", "sent", "complete", "retry", "fail",
                           "countCompleted", "countRetry", "countFailed", "done"}]
      /\ job \in [Call -> {"none", "resolving", "sent", "rejected",
                           "countFailed", "done"}]
      /\ status \in [Dest -> DestStatus] /\ uuid \in [Dest -> 0..ClaimBound]
  BY DEF Call, TypeOK
<1>1. UNCHANGED <<attempts, batch, call>>
  BY HandlerEffect
<1>. HIDE DEF c
<1>. USE DEF Set, OneCall, Talking
<1>2. CASE AnswerRow(c)
  <2>1. uuid' = uuid /\ hup' = hup /\ job' = job
    BY <1>2 DEF AnswerRow, rowVars
  <2>2. CASE Names(c) /\ status[d] = "dialing"
    BY <1>0, <1>1, <1>2, <2>1, <2>2 DEF AnswerRow
  <2>3. CASE ~(Names(c) /\ status[d] = "dialing")
    <3>1. status' = status /\ ans' = [ans EXCEPT ![c] = "done"]
      BY <1>0, <1>2, <2>3 DEF AnswerRow
    <3>2. call[c] # "live" \/ status[d] # "dialing"
      <4>1. k = uuid[d] \/ status[d] # "dialing" \/ call[c] # "live"
        BY <1>0 DEF Claims, UuidNamesCurrentAttempt
      <4>. QED  BY <1>0, <2>3, <4>1 DEF Names
    <3>3. call[c] \notin {"none", "ringing"}
      BY <1>0, <1>2 DEF AnswerRow
    <3>. QED  BY <1>0, <1>1, <2>1, <3>1, <3>2, <3>3
  <2>. QED  BY <2>2, <2>3
<1>3. CASE AnswerCount(c)
  <2>1. ans' = [ans EXCEPT ![c] = "done"] /\ ans[c] = "count"
        /\ UNCHANGED <<status, uuid, hup, job>>
    BY <1>3 DEF AnswerCount, rowVars
  <2>. QED  BY <1>0, <1>1, <2>1
<1>4. CASE HangupRead(c)
  <2>1. /\ hup[c] = "sent"
        /\ \A j \in 1..ClaimBound : j # k => hup'[<<d, j>>] = hup[<<d, j>>]
        /\ UNCHANGED <<status, uuid, ans, job>>
    BY <1>0, <1>4 DEF HangupRead, EngineUnchanged, rowVars
  <2>. QED  BY <1>0, <1>1, <2>1
<1>5. CASE HangupComplete(c)
  <2>1. /\ hup[c] = "complete" /\ status' = [status EXCEPT ![d] = "completed"]
        /\ hup' = [hup EXCEPT ![c] = "countCompleted"]
        /\ UNCHANGED <<uuid, ans, job>>
    BY <1>0, <1>5 DEF HangupComplete
  <2>. QED  BY <1>0, <1>1, <2>1
<1>6. CASE HangupRetry(c)
  <2>1. /\ hup[c] = "retry" /\ status' = [status EXCEPT ![d] = "queued"]
        /\ uuid' = [uuid EXCEPT ![d] = 0]
        /\ hup' = [hup EXCEPT ![c] = "countRetry"]
        /\ UNCHANGED <<ans, job>>
    BY <1>0, <1>6 DEF HangupRetry
  <2>2. k = attempts[d] /\ call[c] \in {"missed", "ended"}
    BY <1>0, <2>1 DEF Claims, ClaimedOnce
  <2>3. job[c] # "resolving"
    BY <1>0, <2>2 DEF FreshCalls
  <2>4. \A j \in 1..ClaimBound : job[<<d, j>>] # "resolving" /\ ~Talking(<<d, j>>)
    BY <1>0, <2>2, <2>3
  <2>. QED  BY <1>0, <1>1, <2>1, <2>2, <2>4
<1>7. CASE HangupFail(c)
  <2>1. /\ hup[c] = "fail" /\ status' = [status EXCEPT ![d] = "failed"]
        /\ hup' = [hup EXCEPT ![c] = "countFailed"]
        /\ UNCHANGED <<ans, job>>
    BY <1>0, <1>7 DEF HangupFail, FailRow
  <2>. QED  BY <1>0, <1>1, <2>1
<1>8. CASE HangupCount(c)
  <2>1. /\ hup[c] # "none" /\ hup' = [hup EXCEPT ![c] = "done"]
        /\ UNCHANGED <<status, uuid, ans, job>>
    BY <1>8 DEF HangupCount, Counted, rowVars
  <2>. QED  BY <1>0, <1>1, <2>1
<1>9. CASE JobFail(c)
  <2>1. /\ status' = [status EXCEPT ![d] = "failed"]
        /\ job' = [job EXCEPT ![c] = "countFailed"]
        /\ UNCHANGED <<ans, hup>>
    BY <1>0, <1>9 DEF JobFail, FailRow
  <2>. QED  BY <1>0, <1>1, <2>1
<1>10. CASE JobCount(c)
  <2>1. /\ job' = [job EXCEPT ![c] = "done"]
        /\ UNCHANGED <<status, uuid, ans, hup>>
    BY <1>10 DEF JobCount, Counted, rowVars
  <2>. QED  BY <1>0, <1>1, <2>1
<1>. QED
  BY <1>2, <1>3, <1>4, <1>5, <1>6, <1>7, <1>8, <1>9, <1>10 DEF Handler, c

\* Without a fault every message that FreeSWITCH sends arrives.
LEMMA AnswerArrives ==
  ASSUME TypeOK, NEW c \in Call, FsAnswer(c),
         pc # "down", faults = 0, faults' = 0
  PROVE  /\ call[c] = "ringing" /\ call' = [call EXCEPT ![c] = "live"]
         /\ ans' = [ans EXCEPT ![c] = "sent"]
         /\ \E reply \in {"done", job[c]} : /\ reply # "sent"
                                            /\ job' = [job EXCEPT ![c] = reply]
         /\ EngineUnchanged /\ UNCHANGED hup
<1>1. PICK event \in {"sent", "done"}, reply \in {"done", job[c]} :
        /\ Losing(event = "done" \/ reply = "sent")
        /\ ans' = [ans EXCEPT ![c] = event] /\ job' = [job EXCEPT ![c] = reply]
  BY DEF FsAnswer, Set
<1>2. ~(event = "done" \/ reply = "sent")
  BY <1>1 DEF Losing
<1>3. event = "sent"
  BY <1>1, <1>2
<1>. QED  BY <1>1, <1>2, <1>3 DEF FsAnswer, Set

LEMMA HangupArrives ==
  ASSUME TypeOK, NEW c \in Call, FsHangup(c),
         pc # "down", faults = 0, faults' = 0
  PROVE  /\ call[c] \in {"ringing", "live"}
         /\ call' = [call EXCEPT ![c] =
                       IF call[c] = "live" THEN "ended" ELSE "missed"]
         /\ hup' = [hup EXCEPT ![c] = "sent"]
         /\ job' = [job EXCEPT ![c] =
                      IF call[c] = "ringing" /\ job[c] = "sent" THEN "rejected"
                                                                ELSE job[c]]
         /\ EngineUnchanged /\ UNCHANGED ans
<1>. DEFINE Open == call[c] = "ringing" /\ job[c] = "sent"
<1>1. PICK event \in {"sent", "done"},
           reply \in IF Open THEN {"rejected", "sent"} ELSE {job[c]} :
        /\ Losing(event = "done" \/ (Open /\ reply = "sent"))
        /\ hup' = [hup EXCEPT ![c] = event] /\ job' = [job EXCEPT ![c] = reply]
  BY DEF FsHangup, Set
<1>2. ~(event = "done" \/ (Open /\ reply = "sent"))
  BY <1>1 DEF Losing
<1>3. event = "sent" /\ reply = IF Open THEN "rejected" ELSE job[c]
  BY <1>1, <1>2
<1>. QED  BY <1>1, <1>3 DEF FsHangup, Set

LEMMA OneCallLine ==
  ASSUME TypeOK, FreshCalls, NEW d \in Dest, OneCall(d), pc # "down",
         faults = 0, faults' = 0,
         NEW k \in 1..ClaimBound, Originating(<<d, k>>) \/ Telephone(<<d, k>>)
  PROVE  OneCall(d)'
<1>. DEFINE c == <<d, k>>
<1>0. /\ c \in Call /\ c[1] = d /\ c[2] = k
      /\ \A j \in 1..ClaimBound : <<d, j>> \in Call
      /\ \A j \in 1..ClaimBound : <<d, j>> = c <=> j = k
      /\ call \in [Call -> {"none", "ringing", "live", "missed", "ended"}]
      /\ ans \in [Call -> {"none", "sent", "count", "done"}]
      /\ hup \in [Call -> {"none", "sent", "complete", "retry", "fail",
                           "countCompleted", "countRetry", "countFailed", "done"}]
      /\ job \in [Call -> {"none", "resolving", "sent", "rejected",
                           "countFailed", "done"}]
  BY DEF Call, TypeOK
<1>. HIDE DEF c
<1>. USE DEF Set, EngineUnchanged, rowVars, tickVars
<1>2. CASE FsRing(c)
  <2>1. /\ job[c] = "resolving" /\ job' = [job EXCEPT ![c] = "sent"]
        /\ call' = [call EXCEPT ![c] = "ringing"]
        /\ UNCHANGED <<status, attempts, uuid, batch, ans, hup>>
    BY <1>2 DEF FsRing
  <2>2. call[c] = "none"
    BY <1>0, <2>1 DEF FreshCalls
  <2>. QED  BY <1>0, <2>1, <2>2 DEF OneCall, Talking
<1>3. CASE DispatchRejected(c) \/ ReplyTimeout(c)
  <2>1. /\ job' = [job EXCEPT ![c] = "rejected"]
        /\ UNCHANGED <<status, attempts, uuid, batch, call, ans, hup>>
    BY <1>3 DEF DispatchRejected, ReplyTimeout
  <2>. QED  BY <1>0, <2>1 DEF OneCall, Talking
<1>4. CASE FsAnswer(c)
  <2>1. /\ call[c] = "ringing" /\ call' = [call EXCEPT ![c] = "live"]
        /\ ans' = [ans EXCEPT ![c] = "sent"]
        /\ UNCHANGED <<status, attempts, uuid, batch, hup>>
    BY <1>0, <1>4, AnswerArrives
  <2>2. /\ job'[c] # "resolving"
        /\ \A j \in 1..ClaimBound : j # k => job'[<<d, j>>] = job[<<d, j>>]
    <3>1. job[c] # "resolving"
      BY <1>0, <2>1 DEF FreshCalls
    <3>. QED  BY <1>0, <1>4, <3>1 DEF FsAnswer
  <2>. QED  BY <1>0, <2>1, <2>2 DEF OneCall, Talking
<1>5. CASE FsHangup(c)
  <2>1. /\ call[c] \in {"ringing", "live"}
        /\ call' = [call EXCEPT ![c] = IF call[c] = "live" THEN "ended" ELSE "missed"]
        /\ UNCHANGED <<status, attempts, uuid, batch, ans>>
    BY <1>5 DEF FsHangup
  <2>2. /\ job'[c] # "resolving"
        /\ \A j \in 1..ClaimBound : j # k => /\ job'[<<d, j>>] = job[<<d, j>>]
                                             /\ hup'[<<d, j>>] = hup[<<d, j>>]
    <3>1. job[c] # "resolving"
      BY <1>0, <2>1 DEF FreshCalls
    <3>. QED  BY <1>0, <1>5, <3>1 DEF FsHangup
  <2>. QED  BY <1>0, <2>1, <2>2 DEF OneCall, Talking
<1>. QED
  BY <1>2, <1>3, <1>4, <1>5 DEF Originating, Telephone, c

LEMMA OneCallStep ==
  ASSUME TypeOK, Claims, Numbered, FreshCalls, BatchInHand,
         pc # "down", [Next]_vars, faults' = 0,
         NEW d \in Dest, OneCall(d)
  PROVE  OneCall(d)'
<1>. USE DEF campVars, rowVars, tickVars, callVars
<1>0. /\ faults = 0
      /\ \A k \in 1..ClaimBound : <<d, k>> \in Call
      /\ status \in [Dest -> DestStatus] /\ uuid \in [Dest -> 0..ClaimBound]
      /\ attempts \in [Dest -> 0..ClaimBound] /\ batch \subseteq Dest
      /\ job \in [Call -> {"none", "resolving", "sent", "rejected",
                           "countFailed", "done"}]
  BY FaultsGrow DEF Call, TypeOK
<1>1. CASE Same(d)
  BY <1>1 DEF OneCall, Same, Talking
<1>2. CASE ExpireRows \/ CancelRows
  <2>1. /\ status'[d] = "dialing" => status[d] = "dialing"
        /\ status'[d] # "queued"
        /\ UNCHANGED <<uuid, attempts, batch, call, ans, hup, job>>
    BY <1>0, <1>2 DEF ExpireRows, CancelRows
  <2>. QED  BY <2>1 DEF OneCall, Talking
<1>3. ASSUME NEW S \in SUBSET Dest, d \in S, ClaimRows(S) PROVE OneCall(d)'
  <2>1. /\ status[d] = "queued" /\ status'[d] = "dialing" /\ d \in batch'
        /\ UNCHANGED <<call, ans, hup, job>>
    BY <1>3 DEF ClaimRows, Ready, InStatus
  <2>. QED  BY <2>1 DEF OneCall, Talking
<1>4. ASSUME NEW S \in SUBSET Dest, RecoverDialing(S) PROVE OneCall(d)'
  <2>1. /\ d \in S => /\ status[d] = "dialing" /\ d \notin batch /\ Quiet(d)
                      /\ call[Current(d)] # "ringing"
        /\ status'[d] = IF d \in S THEN "queued" ELSE status[d]
        /\ uuid'[d] = IF d \in S THEN 0 ELSE uuid[d]
        /\ UNCHANGED <<attempts, batch, call, ans, hup, job>>
    BY <1>4 DEF RecoverDialing, StaleDialing, InStatus
  <2>2. ASSUME d \in S, NEW k \in 1..ClaimBound
        PROVE  job[<<d, k>>] # "resolving" /\ ~Talking(<<d, k>>)
    <3>1. /\ job[<<d, k>>] \in {"none", "done"}
          /\ ans[<<d, k>>] \in {"none", "done"}
      BY <2>1, <2>2 DEF Quiet
    <3>. QED  BY <2>1, <2>2, <3>1 DEF OneCall, Talking, Current
  <2>. QED  BY <2>1, <2>2 DEF OneCall, Talking
<1>5. ASSUME NEW S \in SUBSET Dest, RecoverAnswered(S) PROVE OneCall(d)'
  <2>1. /\ status'[d] = IF d \in S THEN "completed" ELSE status[d]
        /\ uuid'[d] = IF d \in S THEN 0 ELSE uuid[d]
        /\ UNCHANGED <<attempts, batch, call, ans, hup, job>>
    BY <1>5 DEF RecoverAnswered
  <2>. QED  BY <2>1 DEF OneCall, Talking
<1>6. CASE Originate(d)
  <2>1. /\ d \in batch /\ d \notin batch' /\ uuid'[d] = attempts[d]
        /\ job' = [job EXCEPT ![Current(d)] = "resolving"]
        /\ UNCHANGED <<status, attempts, call, ans, hup>>
    BY <1>0, <1>6 DEF Originate
  <2>2. attempts[d] # 0 /\ status[d] # "queued"
    BY <1>0, <2>1 DEF Numbered, Claims, ClaimedOnce
  <2>3. \A k \in 1..ClaimBound :
          job'[<<d, k>>] = "resolving" => k = attempts[d] \/ job[<<d, k>>] = "resolving"
    BY <1>0, <2>1 DEF Current
  <2>. QED  BY <2>1, <2>2, <2>3 DEF OneCall, Talking
<1>7. CASE RetryDue(d)
  BY <1>7 DEF RetryDue, OneCall, Talking
<1>. QED
  BY <1>0, <1>1, <1>2, <1>3, <1>4, <1>5, <1>6, <1>7, SameOrConcerns,
     OneCallHandler, OneCallLine
     DEF Concerns

\* The process that no fault stopped is up.
OneCalls == faults = 0 => pc # "down" /\ \A d \in Dest : OneCall(d)

LEMMA StaysUp ==
  ASSUME TypeOK, pc # "down", [Next]_vars, faults' = 0
  PROVE  pc' # "down"
<1>. USE DEF campVars, rowVars, tickVars, callVars
<1>1. CASE UNCHANGED vars
  BY <1>1 DEF vars
<1>2. CASE Tick \/ Restart
  BY <1>2
     DEF Tick, SelectCampaign, StartCampaign, ExpireRows, ExpireCampaign,
         CountRows, PlanFinish, PlanWait, PlanFill, CompleteCampaign,
         SynthesizeMedia, SynthesisFails, ClaimRows, BookClaim, Originate,
         Restart
<1>3. ASSUME NEW c \in Call, Handler(c) \/ Originating(c) \/ Telephone(c)
      PROVE  pc' = pc
  BY <1>3
     DEF Handler, AnswerRow, AnswerCount, HangupRead, HangupComplete,
         HangupRetry, HangupFail, HangupCount, JobFail, JobCount, FailRow,
         Counted, Originating, Telephone, FsRing, DispatchRejected,
         ReplyTimeout, FsAnswer, FsHangup, EngineUnchanged
<1>4. CASE \/ \E d \in Dest : RetryDue(d)
           \/ TimeoutElapses \/ Recovery \/ Operator
  BY <1>4
     DEF RetryDue, TimeoutElapses, Recovery, RecoverDialing, RecoverAnswered,
         SyncCounters, Operator, PauseCampaign, ResumeCampaign, CancelRows,
         CancelCampaign
<1>. QED  BY <1>1, <1>2, <1>3, <1>4, FaultsGrow DEF Next

LEMMA OneCallsAlways == Spec => []OneCalls
<1>1. Init => OneCalls
  BY DEF Init, OneCalls, OneCall, Talking, Call
<1>2. /\ TypeOK /\ Claims /\ Numbered /\ FreshCalls /\ BatchInHand
      /\ OneCalls /\ [Next]_vars
      => OneCalls'
  <2>. SUFFICES ASSUME TypeOK, Claims, Numbered, FreshCalls, BatchInHand,
                       OneCalls, [Next]_vars, faults' = 0
                PROVE  pc' # "down" /\ \A d \in Dest : OneCall(d)'
    BY DEF OneCalls
  <2>1. pc # "down" /\ \A d \in Dest : OneCall(d)
    BY FaultsGrow DEF OneCalls
  <2>. QED  BY <2>1, StaysUp, OneCallStep
<1>. QED
  BY <1>1, <1>2, TypeCorrect, ClaimsAlways, FreshAlways, BatchAlways, PTL
     DEF Spec

\* While no message is lost a destination never has two calls at once, although
\* onCallHangup and the catch of originateDestination both rewrite the row of an
\* unanswered call by its id.
THEOREM OneCallHolds == Spec => []OneCallPerDest
<1>1. TypeOK /\ OneCalls => OneCallPerDest
  <2>. SUFFICES ASSUME TypeOK, OneCalls, faults = 0, NEW d \in Dest
                PROVE  Cardinality({k \in 1..ClaimBound :
                         call[<<d, k>>] \in {"ringing", "live"}}) <= 1
    BY DEF OneCallPerDest, FaultFree
  <2>. DEFINE K == {k \in 1..ClaimBound : call[<<d, k>>] \in {"ringing", "live"}}
  <2>1. K \subseteq {attempts[d]}
    BY DEF OneCalls, OneCall, Talking
  <2>2. IsFiniteSet({attempts[d]}) /\ Cardinality({attempts[d]}) = 1
    BY FS_Singleton
  <2>. QED  BY <2>1, <2>2, FS_Subset
<1>. QED  BY <1>1, TypeCorrect, OneCallsAlways, PTL

----------------------------------------------------------------------------
(* The life of a destination: at each of its stages the row, the engine's   *)
(* batch, the call and the handlers of its three messages fit together.     *)
(* A missed call is reported twice, by its hangup and by the -ERR of its    *)
(* originate, and the two are handled in any order.                         *)

\* An earlier attempt, with all of its handlers done.
Rests(c) ==
  /\ call[c] \in {"none", "missed"} /\ ans[c] = "none"
  /\ hup[c] \in {"none", "done"} /\ job[c] \in {"none", "done"}

Untouched(c) == call[c] = "none" /\ ans[c] = "none" /\ hup[c] = "none"

\* Not in flight: never tried, or the last attempt was missed.
Waits(d, c) ==
  /\ status[d] \in {"queued", "skipped", "expired"}
  /\ uuid[d] = 0 /\ d \notin batch /\ d \notin answeredAt
  /\ \/ attempts[d] = 0
     \/ /\ call[c] = "missed" /\ ans[c] = "none"
        /\ hup[c] \in {"countRetry", "done"}
        /\ job[c] \in {"rejected", "countFailed", "done"}
        /\ (hup[c] # "done" \/ job[c] # "done") => d \notin due

\* In the batch of the tick.
Claimed(d, c) ==
  /\ status[d] = "dialing" /\ attempts[d] > 0
  /\ uuid[d] = 0 /\ d \in batch /\ d \notin answeredAt
  /\ Untouched(c) /\ job[c] = "none"

Named(d) == uuid[d] = attempts[d] /\ attempts[d] > 0 /\ d \notin batch

\* Originated, and not yet seen to be answered.
Dialled(d, c) ==
  /\ status[d] = "dialing" /\ Named(d) /\ d \notin answeredAt
  /\ \/ Untouched(c) /\ job[c] \in {"resolving", "rejected"}
     \/ call[c] = "ringing" /\ ans[c] = "none" /\ hup[c] = "none" /\ job[c] = "sent"
     \/ /\ call[c] = "missed" /\ ans[c] = "none" /\ job[c] = "rejected"
        /\ hup[c] \in {"sent", "retry", "fail"}
     \/ /\ ans[c] = "sent" /\ job[c] = "done"
        /\ \/ call[c] = "live" /\ hup[c] = "none"
           \/ call[c] = "ended" /\ hup[c] \in {"sent", "fail"}

\* Answered, until the hangup has been handled.
Talks(d, c) ==
  /\ status[d] = "answered" /\ Named(d) /\ d \in answeredAt
  /\ ans[c] \in {"count", "done"} /\ job[c] = "done"
  /\ \/ call[c] = "live" /\ hup[c] = "none"
     \/ call[c] = "ended" /\ hup[c] \in {"sent", "complete", "fail"}

Delivered(d, c) ==
  /\ status[d] = "completed" /\ Named(d) /\ d \in answeredAt
  /\ call[c] = "ended" /\ ans[c] \in {"count", "done"} /\ job[c] = "done"
  /\ hup[c] \in {"countCompleted", "done"}

\* Never rung, missed for good, or hung up before the answer was handled.
Failed(d, c) ==
  /\ status[d] = "failed" /\ attempts[d] > 0 /\ uuid[d] = 0 /\ d \notin batch
  /\ \/ /\ Untouched(c) /\ job[c] \in {"countFailed", "done"}
        /\ d \notin answeredAt
     \/ /\ call[c] = "missed" /\ ans[c] = "none" /\ d \notin answeredAt
        /\ hup[c] \in {"sent", "retry", "fail", "countRetry", "countFailed", "done"}
        /\ job[c] \in {"rejected", "countFailed", "done"}
        /\ job[c] = "rejected" => hup[c] \in {"countFailed", "done"}
     \/ /\ call[c] = "ended" /\ job[c] = "done"
        /\ hup[c] \in {"countFailed", "done"}
        /\ ans[c] = "sent" => d \notin answeredAt
        /\ ans[c] = "count" => d \in answeredAt

Past(d) == \A k \in 1..ClaimBound :
             /\ k < attempts[d] => Rests(<<d, k>>)
             /\ k > attempts[d] => Untouched(<<d, k>>) /\ job[<<d, k>>] = "none"

Life(d) ==
  /\ Past(d)
  /\ \/ Waits(d, Current(d)) \/ Claimed(d, Current(d)) \/ Dialled(d, Current(d))
     \/ Talks(d, Current(d)) \/ Delivered(d, Current(d)) \/ Failed(d, Current(d))

\* The latest call of a claimed row is one of the model's calls.
LEMMA CurrentIsCall ==
  ASSUME TypeOK, NEW d \in Dest
  PROVE  /\ attempts[d] \in 0..ClaimBound
         /\ attempts[d] # 0 => attempts[d] \in 1..ClaimBound /\ Current(d) \in Call
BY ConstantsOK DEF TypeOK, ConstantsOK, Current, Call

LEMMA LifeFrame ==
  ASSUME TypeOK, NEW d \in Dest, Life(d), Same(d)
  PROVE  Life(d)'
<1>1. Current(d)' = Current(d) /\ attempts'[d] = attempts[d]
  BY DEF Same, Current
<1>2. Past(d)'
  BY DEF Past, Rests, Untouched, Same, Life
<1>3. \/ Waits(d, Current(d))' \/ Claimed(d, Current(d))' \/ Dialled(d, Current(d))'
      \/ Talks(d, Current(d))' \/ Delivered(d, Current(d))' \/ Failed(d, Current(d))'
  <2>1. CASE attempts[d] = 0
    <3>1. Waits(d, Current(d))
      BY <2>1 DEF Life, Claimed, Dialled, Talks, Delivered, Failed, Named
    <3>. QED  BY <2>1, <3>1 DEF Waits, Same
  <2>2. CASE attempts[d] # 0
    <3>. DEFINE c == Current(d)
    <3>1. /\ c' = c
          /\ call'[c] = call[c] /\ ans'[c] = ans[c]
          /\ hup'[c] = hup[c] /\ job'[c] = job[c]
      BY <1>1, <2>2, CurrentIsCall DEF Same, Current
    <3>. HIDE DEF c
    <3>2. \/ Waits(d, c) \/ Claimed(d, c) \/ Dialled(d, c)
          \/ Talks(d, c) \/ Delivered(d, c) \/ Failed(d, c)
      BY DEF c, Life
    <3>3. \/ Waits(d, c)' \/ Claimed(d, c)' \/ Dialled(d, c)'
          \/ Talks(d, c)' \/ Delivered(d, c)' \/ Failed(d, c)'
      BY <3>1, <3>2
         DEF Waits, Claimed, Dialled, Talks, Delivered, Failed, Named,
             Untouched, Same
    <3>. QED  BY <3>3 DEF c
  <2>. QED  BY <2>1, <2>2
<1>. QED  BY <1>2, <1>3 DEF Life

\* Only the messages of the latest call are still to be handled.
LEMMA ActsOnCurrent ==
  ASSUME TypeOK, NEW d \in Dest, Life(d), NEW k \in 1..ClaimBound,
         \/ Handler(<<d, k>>) \/ Originating(<<d, k>>) \/ Telephone(<<d, k>>)
  PROVE  /\ <<d, k>> = Current(d) /\ k = attempts[d]
         /\ <<d, k>> \in Call
<1>1. \/ ans[<<d, k>>] \notin {"none", "done"}
      \/ hup[<<d, k>>] \notin {"none", "done"}
      \/ job[<<d, k>>] \notin {"none", "done"}
      \/ call[<<d, k>>] \in {"ringing", "live"}
  BY DEF Handler, AnswerRow, AnswerCount, HangupRead, HangupComplete,
         HangupRetry, HangupFail, HangupCount, JobFail, JobCount, Originating,
         Telephone, FsRing, DispatchRejected, ReplyTimeout, FsAnswer, FsHangup
<1>2. attempts[d] \in 0..ClaimBound
  BY CurrentIsCall
<1>3. k = attempts[d]
  BY <1>1, <1>2 DEF Life, Past, Rests, Untouched
<1>. QED  BY <1>3 DEF Current, Call

\* What is left to show of a step that changes the latest call only.
LEMMA LifeOfCurrent ==
  ASSUME TypeOK, NEW d \in Dest, Life(d), NEW c \in Call, c = Current(d),
         attempts'[d] = attempts[d],
         \A e \in Call : e # c => /\ call'[e] = call[e] /\ ans'[e] = ans[e]
                                  /\ hup'[e] = hup[e] /\ job'[e] = job[e],
         \/ Waits(d, c)' \/ Claimed(d, c)' \/ Dialled(d, c)'
         \/ Talks(d, c)' \/ Delivered(d, c)' \/ Failed(d, c)'
  PROVE  Life(d)'
<1>1. Current(d)' = c
  BY DEF Current
<1>2. \A k \in 1..ClaimBound :
        <<d, k>> \in Call /\ (k # attempts[d] => <<d, k>> # c)
  BY DEF Call, Current
<1>3. attempts[d] \in 0..ClaimBound
  BY CurrentIsCall
<1>4. Past(d)'
  BY <1>2, <1>3 DEF Past, Rests, Untouched, Life
<1>. QED  BY <1>1, <1>4 DEF Life

LEMMA LifeHandler ==
  ASSUME TypeOK, NEW d \in Dest, Life(d),
         NEW k \in 1..ClaimBound, Handler(<<d, k>>)
  PROVE  Life(d)'
<1>. DEFINE c == <<d, k>>
<1>0. /\ c \in Call /\ c[1] = d /\ c[2] = k /\ c = Current(d) /\ k = attempts[d]
      /\ k > 0
      /\ ans \in [Call -> {"none", "sent", "count", "done"}]
      /\ hup \in [Call -> {"none", "sent", "complete", "retry", "fail",
                           "countCompleted", "countRetry", "countFailed", "done"}]
      /\ job \in [Call -> {"none", "resolving", "sent", "rejected",
                           "countFailed", "done"}]
      /\ status \in [Dest -> DestStatus] /\ uuid \in [Dest -> 0..ClaimBound]
      /\ answeredAt \subseteq Dest
  BY ActsOnCurrent, ConstantsOK DEF Call, TypeOK, ConstantsOK
<1>. HIDE DEF c
<1>1. \/ Waits(d, c) \/ Claimed(d, c) \/ Dialled(d, c)
      \/ Talks(d, c) \/ Delivered(d, c) \/ Failed(d, c)
  BY <1>0 DEF Life
<1>. USE DEF Set, rowVars, tickVars, EngineUnchanged, Named, Untouched
<1>2. CASE AnswerRow(c)
  <2>1. ans[c] = "sent"
    BY <1>2 DEF AnswerRow
  <2>2. CASE Dialled(d, c)
    <3>1. Names(c) /\ status[d] = "dialing"
      BY <1>0, <2>2 DEF Dialled, Names
    <3>2. /\ status' = [status EXCEPT ![d] = "answered"]
          /\ answeredAt' = answeredAt \cup {d}
          /\ ans' = [ans EXCEPT ![c] = "count"]
          /\ UNCHANGED <<attempts, uuid, batch, call, hup, job>>
      BY <1>0, <1>2, <3>1 DEF AnswerRow
    <3>3. Talks(d, c)'
      BY <1>0, <2>1, <2>2, <3>2 DEF Dialled, Talks
    <3>. QED  BY <1>0, <3>2, <3>3, LifeOfCurrent
  <2>3. CASE Failed(d, c)
    <3>1. ~Names(c)
      BY <1>0, <2>3 DEF Failed, Names
    <3>2. /\ ans' = [ans EXCEPT ![c] = "done"]
          /\ UNCHANGED <<status, answeredAt, attempts, uuid, batch, call, hup, job>>
      BY <1>0, <1>2, <3>1 DEF AnswerRow
    <3>3. Failed(d, c)'
      BY <1>0, <2>1, <2>3, <3>2 DEF Failed
    <3>. QED  BY <1>0, <3>2, <3>3, LifeOfCurrent
  <2>. QED
    BY <1>0, <1>1, <2>1, <2>2, <2>3 DEF Waits, Claimed, Talks, Delivered
<1>3. CASE AnswerCount(c)
  <2>1. /\ ans[c] = "count" /\ ans' = [ans EXCEPT ![c] = "done"]
        /\ UNCHANGED <<status, answeredAt, attempts, uuid, batch, call, hup, job>>
    BY <1>3 DEF AnswerCount
  <2>2. Talks(d, c)' \/ Delivered(d, c)' \/ Failed(d, c)'
    BY <1>0, <1>1, <2>1
       DEF Waits, Claimed, Dialled, Talks, Delivered, Failed
  <2>. QED  BY <1>0, <2>1, <2>2, LifeOfCurrent
<1>4. CASE HangupRead(c)
  <2>0. hup[c] = "sent" /\ (Dialled(d, c) \/ Talks(d, c) \/ Failed(d, c))
    BY <1>0, <1>1, <1>4 DEF HangupRead, Waits, Claimed, Delivered
  <2>5. CASE Failed(d, c)
    <3>1. ~Names(c)
      BY <1>0, <2>5 DEF Failed, Names
    <3>2. /\ hup' = [hup EXCEPT ![c] = "done"]
          /\ UNCHANGED <<status, answeredAt, attempts, uuid, batch, call, ans, job>>
      BY <1>0, <1>4, <3>1 DEF HangupRead
    <3>3. Failed(d, c)'
      BY <1>0, <2>0, <2>5, <3>2 DEF Failed
    <3>. QED  BY <1>0, <3>2, <3>3, LifeOfCurrent
  <2>6. SUFFICES ASSUME Dialled(d, c) \/ Talks(d, c) PROVE Life(d)'
    BY <2>0, <2>5
  <2>1. hup[c] = "sent" /\ Names(c)
    BY <1>0, <2>0, <2>6 DEF Dialled, Talks, Names
  <2>2. /\ \E r \in {FALSE, call[c] = "missed"} :
             hup' = [hup EXCEPT ![c] =
                       IF WasAnswered(d) THEN "complete"
                       ELSE IF r /\ MayRetry(d) THEN "retry" ELSE "fail"]
        /\ UNCHANGED <<status, answeredAt, attempts, uuid, batch, call, ans, job>>
    BY <1>0, <1>4, <2>1 DEF HangupRead
  <2>3. CASE Dialled(d, c)
    <3>1. ~WasAnswered(d)
      BY <2>3 DEF Dialled, WasAnswered
    <3>2. /\ hup'[c] \in {"retry", "fail"}
          /\ hup'[c] = "retry" => call[c] = "missed"
      BY <1>0, <2>2, <3>1
    <3>3. Dialled(d, c)'
      BY <2>1, <2>2, <2>3, <3>2 DEF Dialled
    <3>. QED  BY <1>0, <2>2, <3>3, LifeOfCurrent
  <2>4. CASE Talks(d, c)
    <3>1. hup'[c] = "complete"
      BY <1>0, <2>2, <2>4 DEF Talks, WasAnswered
    <3>2. Talks(d, c)'
      BY <2>1, <2>2, <2>4, <3>1 DEF Talks
    <3>. QED  BY <1>0, <2>2, <3>2, LifeOfCurrent
  <2>. QED  BY <2>3, <2>4, <2>6
<1>5. CASE HangupComplete(c)
  <2>1. /\ hup[c] = "complete" /\ hup' = [hup EXCEPT ![c] = "countCompleted"]
        /\ status' = [status EXCEPT ![d] = "completed"]
        /\ UNCHANGED <<answeredAt, attempts, uuid, batch, call, ans, job>>
    BY <1>0, <1>5 DEF HangupComplete
  <2>2. Delivered(d, c)'
    BY <1>0, <1>1, <2>1
       DEF Waits, Claimed, Dialled, Talks, Delivered, Failed
  <2>. QED  BY <1>0, <2>1, <2>2, LifeOfCurrent
<1>6. CASE HangupRetry(c)
  <2>1. /\ hup[c] = "retry" /\ hup' = [hup EXCEPT ![c] = "countRetry"]
        /\ status' = [status EXCEPT ![d] = "queued"]
        /\ uuid' = [uuid EXCEPT ![d] = 0]
        /\ due' = due \ {d}
        /\ UNCHANGED <<answeredAt, attempts, batch, call, ans, job>>
    BY <1>0, <1>6 DEF HangupRetry
  <2>2. Waits(d, c)'
    BY <1>0, <1>1, <2>1
       DEF Waits, Claimed, Dialled, Talks, Delivered, Failed
  <2>. QED  BY <1>0, <2>1, <2>2, LifeOfCurrent
<1>7. CASE HangupFail(c)
  <2>1. /\ hup[c] = "fail" /\ hup' = [hup EXCEPT ![c] = "countFailed"]
        /\ status' = [status EXCEPT ![d] = "failed"]
        /\ uuid' = [uuid EXCEPT ![d] = 0]
        /\ UNCHANGED <<answeredAt, attempts, batch, call, ans, job>>
    BY <1>0, <1>7 DEF HangupFail, FailRow
  <2>2. Failed(d, c)'
    BY <1>0, <1>1, <2>1
       DEF Waits, Claimed, Dialled, Talks, Delivered, Failed
  <2>. QED  BY <1>0, <2>1, <2>2, LifeOfCurrent
<1>8. CASE HangupCount(c)
  <2>1. /\ hup[c] \in {"countCompleted", "countRetry", "countFailed"}
        /\ hup' = [hup EXCEPT ![c] = "done"]
        /\ UNCHANGED <<status, answeredAt, due, attempts, uuid, batch, call, ans, job>>
    BY <1>8 DEF HangupCount, Counted
  <2>2. Waits(d, c)' \/ Delivered(d, c)' \/ Failed(d, c)'
    BY <1>0, <1>1, <2>1
       DEF Waits, Claimed, Dialled, Talks, Delivered, Failed
  <2>. QED  BY <1>0, <2>1, <2>2, LifeOfCurrent
<1>9. CASE JobFail(c)
  <2>1. /\ job[c] = "rejected" /\ job' = [job EXCEPT ![c] = "countFailed"]
        /\ status' = [status EXCEPT ![d] = "failed"]
        /\ uuid' = [uuid EXCEPT ![d] = 0]
        /\ UNCHANGED <<answeredAt, attempts, batch, call, ans, hup>>
    BY <1>0, <1>9 DEF JobFail, FailRow
  <2>2. Failed(d, c)'
    BY <1>0, <1>1, <2>1
       DEF Waits, Claimed, Dialled, Talks, Delivered, Failed
  <2>. QED  BY <1>0, <2>1, <2>2, LifeOfCurrent
<1>10. CASE JobCount(c)
  <2>1. /\ job[c] = "countFailed" /\ job' = [job EXCEPT ![c] = "done"]
        /\ UNCHANGED <<status, answeredAt, due, attempts, uuid, batch, call, ans, hup>>
    BY <1>10 DEF JobCount, Counted
  <2>2. Waits(d, c)' \/ Failed(d, c)'
    BY <1>0, <1>1, <2>1
       DEF Waits, Claimed, Dialled, Talks, Delivered, Failed
  <2>. QED  BY <1>0, <2>1, <2>2, LifeOfCurrent
<1>. QED
  BY <1>2, <1>3, <1>4, <1>5, <1>6, <1>7, <1>8, <1>9, <1>10 DEF Handler, c

LEMMA LifeLine ==
  ASSUME TypeOK, NEW d \in Dest, Life(d), pc # "down",
         faults = 0, faults' = 0,
         NEW k \in 1..ClaimBound, Originating(<<d, k>>) \/ Telephone(<<d, k>>)
  PROVE  Life(d)'
<1>. DEFINE c == <<d, k>>
<1>0. /\ c \in Call /\ c[1] = d /\ c[2] = k /\ c = Current(d) /\ k = attempts[d]
      /\ k > 0
      /\ call \in [Call -> {"none", "ringing", "live", "missed", "ended"}]
      /\ ans \in [Call -> {"none", "sent", "count", "done"}]
      /\ hup \in [Call -> {"none", "sent", "complete", "retry", "fail",
                           "countCompleted", "countRetry", "countFailed", "done"}]
      /\ job \in [Call -> {"none", "resolving", "sent", "rejected",
                           "countFailed", "done"}]
  BY ActsOnCurrent, ConstantsOK DEF Call, TypeOK, ConstantsOK
<1>. HIDE DEF c
<1>1. \/ Waits(d, c) \/ Claimed(d, c) \/ Dialled(d, c)
      \/ Talks(d, c) \/ Delivered(d, c) \/ Failed(d, c)
  BY <1>0 DEF Life
<1>. USE DEF Set, rowVars, tickVars, EngineUnchanged, Named, Untouched
<1>2. CASE FsRing(c)
  <2>1. /\ job[c] = "resolving" /\ job' = [job EXCEPT ![c] = "sent"]
        /\ call' = [call EXCEPT ![c] = "ringing"]
        /\ UNCHANGED <<status, answeredAt, attempts, uuid, batch, ans, hup>>
    BY <1>2 DEF FsRing
  <2>2. Dialled(d, c)'
    BY <1>0, <1>1, <2>1
       DEF Waits, Claimed, Dialled, Talks, Delivered, Failed
  <2>. QED  BY <1>0, <2>1, <2>2, LifeOfCurrent
<1>3. CASE DispatchRejected(c)
  <2>1. /\ job[c] = "resolving" /\ job' = [job EXCEPT ![c] = "rejected"]
        /\ UNCHANGED <<status, answeredAt, attempts, uuid, batch, call, ans, hup>>
    BY <1>3 DEF DispatchRejected
  <2>2. Dialled(d, c)'
    BY <1>0, <1>1, <2>1
       DEF Waits, Claimed, Dialled, Talks, Delivered, Failed
  <2>. QED  BY <1>0, <2>1, <2>2, LifeOfCurrent
<1>4. ~ReplyTimeout(c)
  BY <1>0, <1>1
     DEF ReplyTimeout, Waits, Claimed, Dialled, Talks, Delivered, Failed
<1>5. CASE FsAnswer(c)
  <2>1. /\ call[c] = "ringing" /\ call' = [call EXCEPT ![c] = "live"]
        /\ ans' = [ans EXCEPT ![c] = "sent"]
        /\ \E reply \in {"done", job[c]} : /\ reply # "sent"
                                           /\ job' = [job EXCEPT ![c] = reply]
        /\ UNCHANGED <<status, answeredAt, attempts, uuid, batch, hup>>
    BY <1>0, <1>5, AnswerArrives
  <2>2. Dialled(d, c) /\ job[c] = "sent" /\ hup[c] = "none"
    BY <1>0, <1>1, <2>1 DEF Waits, Claimed, Dialled, Talks, Delivered, Failed
  <2>3. job' = [job EXCEPT ![c] = "done"]
    BY <2>1, <2>2
  <2>4. Dialled(d, c)'
    BY <1>0, <2>1, <2>2, <2>3 DEF Dialled
  <2>. QED  BY <1>0, <2>1, <2>3, <2>4, LifeOfCurrent
<1>6. CASE FsHangup(c)
  <2>1. /\ call[c] \in {"ringing", "live"}
        /\ call' = [call EXCEPT ![c] =
                      IF call[c] = "live" THEN "ended" ELSE "missed"]
        /\ hup' = [hup EXCEPT ![c] = "sent"]
        /\ job' = [job EXCEPT ![c] =
                     IF call[c] = "ringing" /\ job[c] = "sent" THEN "rejected"
                                                               ELSE job[c]]
        /\ UNCHANGED <<status, answeredAt, attempts, uuid, batch, ans>>
    BY <1>0, <1>6, HangupArrives
  <2>2. CASE Dialled(d, c)
    <3>1. Dialled(d, c)'
      BY <1>0, <2>1, <2>2 DEF Dialled
    <3>. QED  BY <1>0, <2>1, <3>1, LifeOfCurrent
  <2>3. CASE Talks(d, c)
    <3>1. Talks(d, c)'
      BY <1>0, <2>1, <2>3 DEF Talks
    <3>. QED  BY <1>0, <2>1, <3>1, LifeOfCurrent
  <2>. QED
    BY <1>0, <1>1, <2>1, <2>2, <2>3 DEF Waits, Claimed, Delivered, Failed
<1>. QED
  BY <1>2, <1>3, <1>4, <1>5, <1>6 DEF Originating, Telephone, c

\* While nothing is lost the recovery finds no stale row.
LEMMA NothingStale ==
  ASSUME TypeOK, NEW d \in Dest, Life(d)
  PROVE  d \notin StaleDialing /\ d \notin StaleAnswered
<1>1. SUFFICES ASSUME status[d] \in {"dialing", "answered"}, d \notin batch, Quiet(d)
               PROVE  /\ status[d] = "dialing" => call[Current(d)] = "ringing"
                      /\ status[d] = "answered" => call[Current(d)] = "live"
  <2>1. Life(d) /\ status[d] = "answered" => d \notin batch
    BY DEF Life, Waits, Claimed, Dialled, Talks, Delivered, Failed, Named
  <2>. QED  BY <2>1 DEF StaleDialing, StaleAnswered, InStatus
<1>. DEFINE c == Current(d)
<1>2. \/ Dialled(d, c) \/ Talks(d, c)
  BY <1>1 DEF Life, Waits, Claimed, Dialled, Talks, Delivered, Failed
<1>3. attempts[d] \in 1..ClaimBound
  BY <1>2, CurrentIsCall DEF Dialled, Talks, Named
<1>4. /\ ans[c] \in {"none", "done"} /\ hup[c] \in {"none", "done"}
      /\ job[c] \in {"none", "done"}
  BY <1>1, <1>3 DEF Quiet, Current
<1>. HIDE DEF c
<1>5. /\ status[d] = "dialing" => call[c] = "ringing"
      /\ status[d] = "answered" => call[c] = "live"
  BY <1>2, <1>4 DEF Dialled, Talks, Untouched
<1>. QED  BY <1>5 DEF c

LEMMA LifeStep ==
  ASSUME TypeOK, BatchInHand, pc # "down", rec = "off",
         [Next]_vars, faults' = 0,
         \A e \in Dest : Life(e),
         NEW d \in Dest
  PROVE  Life(d)'
<1>. USE DEF campVars, rowVars, tickVars, callVars
<1>0. /\ faults = 0 /\ Life(d)
      /\ \A k \in 1..ClaimBound : <<d, k>> \in Call
      /\ attempts[d] \in 0..ClaimBound
      /\ attempts[d] # 0 => Current(d) \in Call /\ attempts[d] \in 1..ClaimBound
      /\ status \in [Dest -> DestStatus] /\ uuid \in [Dest -> 0..ClaimBound]
      /\ attempts \in [Dest -> 0..ClaimBound] /\ batch \subseteq Dest
      /\ job \in [Call -> {"none", "resolving", "sent", "rejected",
                           "countFailed", "done"}]
  BY FaultsGrow, CurrentIsCall DEF Call, TypeOK
<1>1. CASE ExpireRows \/ CancelRows
  <2>1. /\ \/ status'[d] = status[d]
           \/ status[d] = "queued" /\ status'[d] \in {"expired", "skipped"}
        /\ UNCHANGED <<uuid, attempts, batch, due, answeredAt, call, ans, hup, job>>
    BY <1>0, <1>1 DEF ExpireRows, CancelRows
  <2>2. CASE status'[d] = status[d]
    BY <1>0, <2>1, <2>2, LifeFrame DEF Same
  <2>3. CASE status[d] = "queued" /\ status'[d] \in {"expired", "skipped"}
    <3>1. Waits(d, Current(d)) /\ Past(d)
      BY <1>0, <2>3 DEF Life, Claimed, Dialled, Talks, Delivered, Failed
    <3>2. Current(d)' = Current(d)
      BY <2>1 DEF Current
    <3>3. Waits(d, Current(d))'
      BY <2>1, <2>3, <3>1, <3>2 DEF Waits
    <3>4. Past(d)'
      BY <2>1, <3>1 DEF Past, Rests, Untouched
    <3>. QED  BY <3>3, <3>4 DEF Life
  <2>. QED  BY <2>1, <2>2, <2>3
<1>2. ASSUME NEW S \in SUBSET Dest, d \in S, ClaimRows(S) PROVE Life(d)'
  <2>1. /\ status[d] = "queued" /\ d \in due /\ attempts[d] < ClaimBound
        /\ status'[d] = "dialing" /\ d \in batch' /\ uuid'[d] = 0
        /\ attempts'[d] = attempts[d] + 1
        /\ UNCHANGED <<answeredAt, call, ans, hup, job>>
    BY <1>2 DEF ClaimRows, Ready, InStatus
  <2>2. Waits(d, Current(d)) /\ Past(d)
    BY <1>0, <2>1 DEF Life, Claimed, Dialled, Talks, Delivered, Failed
  <2>3. attempts'[d] \in 1..ClaimBound /\ attempts'[d] > attempts[d]
    BY <1>0, <2>1, ConstantsOK DEF ConstantsOK
  <2>4. Claimed(d, Current(d))'
    <3>1. Untouched(<<d, attempts'[d]>>) /\ job[<<d, attempts'[d]>>] = "none"
      BY <2>2, <2>3 DEF Past
    <3>. QED
      BY <1>0, <2>1, <2>2, <2>3, <3>1 DEF Claimed, Current, Untouched, Waits
  <2>5. attempts[d] # 0 => Rests(<<d, attempts[d]>>)
    BY <2>1, <2>2 DEF Waits, Rests, Current
  <2>6. Past(d)'
    <3>1. ASSUME NEW k \in 1..ClaimBound
          PROVE  /\ k < attempts'[d] => Rests(<<d, k>>)'
                 /\ k > attempts'[d] => Untouched(<<d, k>>)' /\ job'[<<d, k>>] = "none"
      <4>1. k < attempts'[d] => k < attempts[d] \/ (k = attempts[d] /\ attempts[d] # 0)
        BY <1>0, <2>1
      <4>2. k > attempts'[d] => k > attempts[d]
        BY <1>0, <2>1
      <4>. QED  BY <2>1, <2>2, <2>5, <4>1, <4>2 DEF Past, Rests, Untouched
    <3>. QED  BY <3>1 DEF Past
  <2>. QED  BY <2>4, <2>6 DEF Life
<1>3. ASSUME NEW S \in SUBSET Dest, RecoverDialing(S) \/ RecoverAnswered(S)
      PROVE  FALSE
  <2>1. S # {}
    BY <1>3 DEF RecoverDialing, RecoverAnswered
  <2>. QED  BY <1>3, <2>1, NothingStale DEF RecoverDialing, RecoverAnswered
<1>4. CASE Originate(d)
  <2>1. d \in batch
    BY <1>4 DEF Originate
  <2>2. Claimed(d, Current(d))
    BY <1>0, <2>1 DEF Life, Waits, Dialled, Talks, Delivered, Failed, Named
  <2>3. PICK c \in Call : c = Current(d)
    BY <1>0, <2>2 DEF Claimed
  <2>4. /\ d \notin batch' /\ uuid'[d] = attempts[d]
        /\ job' = [job EXCEPT ![c] = "resolving"]
        /\ UNCHANGED <<status, attempts, answeredAt, call, ans, hup>>
    BY <1>0, <1>4, <2>3 DEF Originate
  <2>5. Dialled(d, c)'
    BY <1>0, <2>2, <2>3, <2>4 DEF Claimed, Dialled, Named, Untouched
  <2>. QED  BY <1>0, <2>3, <2>4, <2>5, LifeOfCurrent
<1>5. CASE RetryDue(d)
  <2>1. UNCHANGED <<status, uuid, attempts, batch, answeredAt, call, ans, hup, job>>
    BY <1>5 DEF RetryDue
  <2>2. \A k \in 1..ClaimBound : /\ hup[<<d, k>>] \in {"none", "done"}
                                  /\ job[<<d, k>>] \notin {"rejected", "countFailed"}
    BY <1>5 DEF RetryDue
  <2>3. attempts[d] # 0 => /\ hup[Current(d)] \in {"none", "done"}
                           /\ job[Current(d)] \notin {"rejected", "countFailed"}
    BY <1>0, <2>2 DEF Current
  <2>4. Past(d)' /\ Current(d)' = Current(d)
    BY <1>0, <2>1 DEF Past, Rests, Untouched, Life, Current
  <2>5. Waits(d, Current(d))
    BY <1>0, <1>5 DEF RetryDue, Life, Claimed, Dialled, Talks, Delivered, Failed
  <2>6. Waits(d, Current(d))'
    BY <2>1, <2>3, <2>4, <2>5 DEF Waits
  <2>. QED  BY <2>4, <2>6 DEF Life
<1>. QED
  BY <1>0, <1>1, <1>2, <1>3, <1>4, <1>5, SameOrConcerns, LifeFrame,
     LifeHandler, LifeLine
     DEF Concerns

Calm == faults = 0 => /\ pc # "down" /\ rec = "off"
                      /\ \A d \in Dest : Life(d)

\* Recovery never starts.
LEMMA StaysOff ==
  ASSUME TypeOK, rec = "off", \A d \in Dest : Life(d), [Next]_vars
  PROVE  rec' = "off"
<1>. USE DEF campVars, rowVars, tickVars, callVars
<1>1. CASE UNCHANGED vars
  BY <1>1 DEF vars
<1>2. CASE Tick \/ TimeoutElapses \/ DispatchThrows \/ Crash \/ Restart
           \/ \E d \in Dest : RetryDue(d)
  BY <1>2
     DEF Tick, SelectCampaign, StartCampaign, ExpireRows, ExpireCampaign,
         CountRows, PlanFinish, PlanWait, PlanFill, CompleteCampaign,
         SynthesizeMedia, SynthesisFails, ClaimRows, BookClaim, Originate,
         TimeoutElapses, DispatchThrows, Crash, Restart, RetryDue
<1>3. ASSUME NEW c \in Call, Handler(c) \/ Originating(c) \/ Telephone(c)
      PROVE  rec' = rec
  BY <1>3
     DEF Handler, AnswerRow, AnswerCount, HangupRead, HangupComplete,
         HangupRetry, HangupFail, HangupCount, JobFail, JobCount, FailRow,
         Counted, Originating, Telephone, FsRing, DispatchRejected,
         ReplyTimeout, FsAnswer, FsHangup, EngineUnchanged
<1>4. ASSUME NEW S \in SUBSET Dest, RecoverDialing(S) \/ RecoverAnswered(S)
      PROVE  FALSE
  <2>1. S # {}
    BY <1>4 DEF RecoverDialing, RecoverAnswered
  <2>. QED  BY <1>4, <2>1, NothingStale DEF RecoverDialing, RecoverAnswered
<1>5. CASE SyncCounters \/ Operator
  BY <1>5 DEF SyncCounters, Operator, PauseCampaign, ResumeCampaign,
              CancelRows, CancelCampaign
<1>. QED  BY <1>1, <1>2, <1>3, <1>4, <1>5 DEF Next, Recovery

LEMMA CalmAlways == Spec => []Calm
<1>1. Init => Calm
  <2>. SUFFICES ASSUME Init, NEW d \in Dest PROVE Life(d)
    BY DEF Init, Calm
  <2>1. Past(d)
    BY DEF Init, Past, Rests, Untouched, Call
  <2>2. Waits(d, Current(d))
    BY DEF Init, Waits
  <2>. QED  BY <2>1, <2>2 DEF Life
<1>2. TypeOK /\ BatchInHand /\ Calm /\ [Next]_vars => Calm'
  <2>. SUFFICES ASSUME TypeOK, BatchInHand, Calm, [Next]_vars, faults' = 0
                PROVE  pc' # "down" /\ rec' = "off" /\ \A d \in Dest : Life(d)'
    BY DEF Calm
  <2>1. pc # "down" /\ rec = "off" /\ \A d \in Dest : Life(d)
    BY FaultsGrow DEF Calm
  <2>. QED  BY <2>1, StaysUp, StaysOff, LifeStep
<1>. QED  BY <1>1, <1>2, TypeCorrect, BatchAlways, PTL DEF Spec

----------------------------------------------------------------------------
(* The limit on real calls.                                                 *)

LEMMA CallsFinite ==
  ASSUME NEW C \in SUBSET Call
  PROVE  IsFiniteSet(C) /\ Cardinality(C) \in Nat
<1>1. IsFiniteSet(1..ClaimBound)
  BY ConstantsOK, FS_Interval DEF ConstantsOK
<1>2. IsFiniteSet(Call)
  BY <1>1, ConstantsOK, FS_Product DEF Call, ConstantsOK
<1>. QED  BY <1>2, FS_Subset, FS_CardinalityType

\* Calls that are the latest of their rows are no more than those rows.
LEMMA OnePerRow ==
  ASSUME NEW C \in SUBSET Call, NEW D \in SUBSET Dest,
         \A c \in C : c[1] \in D /\ c = Current(c[1])
  PROVE  Cardinality(C) <= Cardinality(D)
<1>. DEFINE f == [c \in C |-> c[1]]
<1>1. \A c, e \in C : f[c] = f[e] => c = e
  BY DEF Current
<1>2. f \in Injection(C, D)
  BY <1>1 DEF Injection, IsInjective
<1>3. IsFiniteSet(D)
  BY RowsFinite
<1>. QED  BY <1>2, <1>3, FS_Injection

\* A call that rings or talks is the latest of a row in flight.
LEMMA TalkingInFlight ==
  ASSUME TypeOK, Calm, faults = 0, NEW c \in Call, Talking(c)
  PROVE  c[1] \in InFlight /\ c = Current(c[1])
<1>1. c[1] \in Dest /\ c[2] \in 1..ClaimBound /\ c = <<c[1], c[2]>>
  BY DEF Call
<1>2. Life(c[1]) /\ attempts[c[1]] \in 0..ClaimBound
  BY <1>1, CurrentIsCall DEF Calm
<1>3. c[2] = attempts[c[1]]
  BY <1>1, <1>2 DEF Life, Past, Rests, Untouched, Talking
<1>4. c = Current(c[1]) /\ attempts[c[1]] # 0
  BY <1>1, <1>3, ConstantsOK DEF Current, ConstantsOK
<1>5. Dialled(c[1], c) \/ Talks(c[1], c)
  BY <1>2, <1>4 DEF Life, Waits, Claimed, Delivered, Failed, Untouched, Talking
<1>. QED
  BY <1>1, <1>4, <1>5 DEF Dialled, Talks, InFlight, InStatus

\* While no message is lost the limit holds for the calls that ring or talk,
\* not only for the rows: no row is released before its call has ended.
THEOREM CallsLimited == Spec => []CallsWithinLimit
<1>1. TypeOK /\ Calm /\ ConcurrencyLimit => CallsWithinLimit
  <2>. SUFFICES ASSUME TypeOK, Calm, ConcurrencyLimit, faults = 0
                PROVE  Cardinality({c \in Call : Talking(c)}) <= MaxConcurrent
    BY DEF CallsWithinLimit, FaultFree, Talking
  <2>. DEFINE C == {c \in Call : Talking(c)}
  <2>1. ASSUME NEW c \in C PROVE c[1] \in InFlight /\ c = Current(c[1])
    BY <2>1, TalkingInFlight
  <2>2. Cardinality(C) <= Cardinality(InFlight)
    <3>. HIDE DEF C
    <3>1. C \in SUBSET Call
      BY DEF C
    <3>. QED  BY <2>1, <3>1, OnePerRow, CountsInNat
  <2>. QED
    BY <2>2, CallsFinite, CountsInNat, ConstantsOK
       DEF ConcurrencyLimit, ConstantsOK
<1>. QED  BY <1>1, TypeCorrect, CalmAlways, LimitHolds, PTL

----------------------------------------------------------------------------
(* A closed campaign calls nobody.                                          *)

\* The latest call of d was missed, and its failure has been written.
Decided(d) ==
  /\ attempts[d] # 0
  /\ call[Current(d)] = "missed" /\ job[Current(d)] \in {"countFailed", "done"}

\* A tick found nothing left, and the campaign is or is going to be closed.
Closed == \/ pc = "plan" /\ NothingLeft
          \/ pc = "finish"
          \/ camp = "completed" /\ ~elapsed

Closing ==
  /\ Closed => InFlight = {}
  /\ Closed /\ faults = 0 => \A d \in InStatus("queued") : Decided(d)
  /\ pc \in {"expire", "close"} => elapsed
  /\ camp = "completed" /\ ~elapsed => pc \in {"idle", "down"}

LEMMA NothingCounted ==
  ASSUME Cardinality(InFlight) = 0, Cardinality(Ready) = 0, Cardinality(Pending) = 0
  PROVE  InFlight = {} /\ InStatus("queued") = {}
<1>1. /\ InFlight \in SUBSET Dest /\ Ready \in SUBSET Dest
      /\ Pending \in SUBSET Dest
  BY DEF InFlight, Ready, Pending, InStatus
<1>2. InFlight = {} /\ Ready = {} /\ Pending = {}
  BY <1>1, RowsFinite, FS_EmptySet
<1>. QED  BY <1>2 DEF Ready, Pending

\* Only the claim puts rows in flight.
LEMMA NoNewFlight ==
  ASSUME TypeOK, [Next]_vars, pc # "claim"
  PROVE  InFlight' \subseteq InFlight
<1>. USE DEF campVars, rowVars, tickVars, InFlight, InStatus
<1>1. CASE UNCHANGED vars
  BY <1>1 DEF vars
<1>2. CASE Tick
  BY <1>2
     DEF Tick, SelectCampaign, StartCampaign, ExpireRows, ExpireCampaign,
         CountRows, PlanFinish, PlanWait, PlanFill, CompleteCampaign,
         SynthesizeMedia, SynthesisFails, ClaimRows, BookClaim, Originate
<1>3. CASE DispatchThrows \/ Crash \/ Restart
  BY <1>3 DEF DispatchThrows, Crash, Restart
<1>. QED
  BY <1>1, <1>2, <1>3, HandlersRelease DEF Next

\* The ways a campaign comes to be closed: the count of a tick, and no other.
LEMMA ClosedStep ==
  ASSUME TypeOK, Closing, [Next]_vars
  PROVE  /\ Closed' => Closed \/ (CountRows /\ NothingLeft')
         /\ (pc \in {"expire", "close"} => elapsed)'
         /\ (camp = "completed" /\ ~elapsed => pc \in {"idle", "down"})'
<1>. USE DEF Closing, Closed, campVars, rowVars, tickVars, callVars
<1>1. ASSUME UNCHANGED <<pc, obs>>, camp' = "completed" => camp = "completed",
             elapsed => elapsed'
      PROVE  /\ Closed' => Closed
             /\ (pc \in {"expire", "close"} => elapsed)'
             /\ (camp = "completed" /\ ~elapsed => pc \in {"idle", "down"})'
  BY <1>1 DEF NothingLeft
<1>2. CASE UNCHANGED vars
  BY <1>1, <1>2 DEF vars
<1>3. elapsed \in BOOLEAN
  BY DEF TypeOK
<1>4. CASE Tick
  <2>1. CASE SelectCampaign \/ StartCampaign \/ ExpireRows
    BY <1>3, <2>1 DEF SelectCampaign, StartCampaign, ExpireRows, NothingLeft
  <2>2. CASE ExpireCampaign \/ CompleteCampaign
    BY <1>3, <2>2 DEF ExpireCampaign, CompleteCampaign
  <2>3. CASE CountRows
    BY <1>3, <2>3 DEF CountRows
  <2>4. CASE PlanFinish
    BY <1>3, <2>4 DEF PlanFinish
  <2>5. CASE PlanWait \/ \E n \in 1..BatchSize : PlanFill(n)
    BY <1>3, <2>5 DEF PlanWait, PlanFill
  <2>6. CASE \/ SynthesizeMedia \/ SynthesisFails \/ BookClaim
             \/ (\E S \in SUBSET Dest : ClaimRows(S))
             \/ (\E d \in Dest : Originate(d))
    BY <1>3, <2>6
       DEF SynthesizeMedia, SynthesisFails, ClaimRows, BookClaim, Originate
  <2>. QED  BY <1>4, <2>1, <2>2, <2>3, <2>4, <2>5, <2>6 DEF Tick
<1>5. ASSUME NEW c \in Call, Handler(c) \/ Originating(c) \/ Telephone(c)
      PROVE  UNCHANGED <<pc, obs, camp, elapsed>>
  BY <1>5
     DEF Handler, AnswerRow, AnswerCount, HangupRead, HangupComplete,
         HangupRetry, HangupFail, HangupCount, JobFail, JobCount, FailRow,
         Counted, Originating, Telephone, FsRing, DispatchRejected,
         ReplyTimeout, FsAnswer, FsHangup, EngineUnchanged
<1>6. CASE \/ \E d \in Dest : RetryDue(d)
           \/ TimeoutElapses \/ Recovery \/ Operator
  <2>1. UNCHANGED <<pc, obs>> /\ (camp' = "completed" => camp = "completed")
        /\ (elapsed => elapsed')
    BY <1>6
       DEF RetryDue, TimeoutElapses, Recovery, RecoverDialing, RecoverAnswered,
           SyncCounters, Operator, PauseCampaign, ResumeCampaign, CancelRows,
           CancelCampaign
  <2>. QED  BY <1>1, <2>1
<1>7. CASE DispatchThrows \/ Crash \/ Restart
  BY <1>3, <1>7 DEF DispatchThrows, Crash, Restart
<1>. QED  BY <1>1, <1>2, <1>4, <1>5, <1>6, <1>7 DEF Next

\* In a closed campaign a hangup handler that is still half way through its
\* statements queues again no row but one whose failure has been written.
LEMMA DecidedStays ==
  ASSUME TypeOK, BatchInHand, [Next]_vars, faults' = 0, InFlight = {},
         pc \notin {"claim", "originate"}, NEW d \in Dest, Life(d),
         status'[d] = "queued", status[d] = "queued" => Decided(d)
  PROVE  Decided(d)'
<1>. USE DEF campVars, rowVars, tickVars, callVars
<1>1. status[d] \notin {"dialing", "answered"}
  BY DEF InFlight, InStatus
<1>2. attempts[d] # 0 => attempts[d] \in 1..ClaimBound
  BY CurrentIsCall
<1>3. ASSUME status[d] = "queued", attempts'[d] = attempts[d],
             \A k \in 1..ClaimBound : /\ call'[<<d, k>>] = call[<<d, k>>]
                                      /\ job'[<<d, k>>] = job[<<d, k>>]
      PROVE  Decided(d)'
  BY <1>2, <1>3 DEF Decided, Current
<1>4. CASE Same(d)
  BY <1>3, <1>4 DEF Same
<1>5. CASE ExpireRows \/ CancelRows
  BY <1>5 DEF ExpireRows, CancelRows
<1>6. ASSUME NEW S \in SUBSET Dest, RecoverDialing(S) \/ RecoverAnswered(S)
      PROVE  Decided(d)'
  <2>1. S = {}
    BY <1>6 DEF RecoverDialing, RecoverAnswered, StaleDialing, StaleAnswered,
                InFlight
  <2>2. status'[d] = status[d] /\ UNCHANGED <<attempts, call, job>>
    BY <1>6, <2>1 DEF RecoverDialing, RecoverAnswered
  <2>. QED  BY <1>3, <2>2
<1>7. CASE RetryDue(d)
  BY <1>3, <1>7 DEF RetryDue
<1>8. ASSUME NEW k \in 1..ClaimBound, NEW c, c = <<d, k>>,
             \/ Handler(<<d, k>>) \/ Originating(<<d, k>>) \/ Telephone(<<d, k>>)
      PROVE  Decided(d)'
  <2>0. /\ c \in Call /\ c[1] = d /\ c[2] = k /\ c = Current(d) /\ k = attempts[d]
        /\ k > 0
        /\ \/ Handler(c) \/ Originating(c) \/ Telephone(c)
        /\ status \in [Dest -> DestStatus]
        /\ job \in [Call -> {"none", "resolving", "sent", "rejected",
                             "countFailed", "done"}]
    BY <1>8, ActsOnCurrent DEF TypeOK
  <2>. USE DEF Set, EngineUnchanged
  <2>1. attempts' = attempts
    BY <2>0
       DEF Handler, AnswerRow, AnswerCount, HangupRead, HangupComplete,
           HangupRetry, HangupFail, HangupCount, JobFail, JobCount, FailRow,
           Counted, Originating, Telephone, FsRing, DispatchRejected,
           ReplyTimeout, FsAnswer, FsHangup
  <2>2. Current(d)' = c
    BY <2>0, <2>1 DEF Current
  <2>3. CASE HangupRetry(c)
    <3>1. hup[c] = "retry" /\ UNCHANGED <<call, job>>
      BY <2>3 DEF HangupRetry
    <3>2. Failed(d, c)
      BY <1>1, <2>0, <3>1
         DEF Life, Waits, Claimed, Dialled, Talks, Delivered, Untouched
    <3>3. call[c] = "missed" /\ job[c] \in {"countFailed", "done"}
      BY <3>1, <3>2 DEF Failed, Untouched
    <3>. QED  BY <2>0, <2>1, <2>2, <3>1, <3>3 DEF Decided
  <2>4. CASE ~HangupRetry(c)
    <3>1. status[d] = "queued"
      BY <2>0, <2>4
         DEF Handler, AnswerRow, AnswerCount, HangupRead, HangupComplete,
             HangupFail, HangupCount, JobFail, JobCount, FailRow,
             Counted, Originating, Telephone, FsRing, DispatchRejected,
             ReplyTimeout, FsAnswer, FsHangup
    <3>2. call[c] = "missed" /\ job[c] \in {"countFailed", "done"}
      BY <2>0, <3>1 DEF Decided
    <3>3. Handler(c) /\ ~JobFail(c)
      BY <2>0, <3>2
         DEF Originating, Telephone, FsRing, DispatchRejected, ReplyTimeout,
             FsAnswer, FsHangup, JobFail
    <3>4. /\ call' = call
          /\ job' = job \/ job' = [job EXCEPT ![c] = "done"]
      BY <3>3
         DEF Handler, AnswerRow, AnswerCount, HangupRead, HangupComplete,
             HangupRetry, HangupFail, HangupCount, JobCount, FailRow, Counted
    <3>5. call'[c] = "missed" /\ job'[c] \in {"countFailed", "done"}
      BY <2>0, <3>2, <3>4
    <3>. QED  BY <2>0, <2>1, <2>2, <3>5 DEF Decided
  <2>. QED  BY <2>3, <2>4
<1>. QED
  BY <1>4, <1>5, <1>6, <1>7, <1>8, SameOrConcerns
     DEF Concerns, ClaimRows, Originate

LEMMA ClosingAlways == Spec => []Closing
<1>1. Init => Closing
  BY DEF Init, Closing, Closed
<1>2. TypeOK /\ BatchInHand /\ Calm /\ Closing /\ [Next]_vars => Closing'
  <2>. SUFFICES ASSUME TypeOK, BatchInHand, Calm, Closing, [Next]_vars
                PROVE  Closing'
    OBVIOUS
  <2>1. CASE CountRows /\ NothingLeft'
    <3>1. /\ Cardinality(InFlight) = 0 /\ Cardinality(Ready) = 0
          /\ Cardinality(Pending) = 0 /\ UNCHANGED status
      BY <2>1 DEF CountRows, NothingLeft, rowVars
    <3>2. InFlight = {} /\ InStatus("queued") = {}
      BY <3>1, NothingCounted
    <3>3. InFlight' = {} /\ InStatus("queued")' = {}
      BY <3>1, <3>2 DEF InFlight, InStatus
    <3>. QED  BY <3>3, ClosedStep DEF Closing
  <2>2. ASSUME Closed'
        PROVE  /\ InFlight' = {}
               /\ faults' = 0 => \A d \in InStatus("queued")' : Decided(d)'
    <3>1. SUFFICES ASSUME Closed
                   PROVE  /\ InFlight' = {}
                          /\ faults' = 0 => \A d \in InStatus("queued")' : Decided(d)'
      BY <2>1, <2>2, ClosedStep DEF Closing
    <3>2. InFlight = {} /\ pc \notin {"claim", "originate"}
      BY <3>1 DEF Closing, Closed
    <3>3. ASSUME faults' = 0, NEW d \in Dest, status'[d] = "queued"
          PROVE  Decided(d)'
      <4>1. faults = 0 /\ Life(d)
        BY <3>3, FaultsGrow DEF Calm
      <4>2. status[d] = "queued" => Decided(d)
        BY <3>1, <4>1 DEF Closing, InStatus
      <4>. QED  BY <3>2, <3>3, <4>1, <4>2, DecidedStays
    <3>. QED  BY <3>2, <3>3, NoNewFlight DEF InStatus
  <2>. QED  BY <2>2, ClosedStep DEF Closing
<1>. QED  BY <1>1, <1>2, TypeCorrect, BatchAlways, CalmAlways, PTL DEF Spec

\* A campaign that completed because its tick found nothing left has no row in
\* flight, then and ever after, and no call, unless a message was lost.  A hangup
\* handler that lags behind may still queue a row in it (campaignEngine.js:658-665),
\* but only one that the catch of originateDestination has already failed.
THEOREM ClosedStaysQuiet == Spec => []ClosedIsQuiet
<1>1. TypeOK /\ Calm /\ Closing => ClosedIsQuiet
  <2>. SUFFICES ASSUME TypeOK, Calm, Closing, camp = "completed", ~elapsed
                PROVE  /\ InFlight = {}
                       /\ faults = 0 =>
                            /\ \A c \in Call : call[c] \notin {"ringing", "live"}
                            /\ \A d \in InStatus("queued") : Decided(d)
    BY DEF ClosedIsQuiet, FaultFree, Decided
  <2>1. InFlight = {} /\ (faults = 0 => \A d \in InStatus("queued") : Decided(d))
    BY DEF Closing, Closed
  <2>2. ASSUME faults = 0, NEW c \in Call PROVE call[c] \notin {"ringing", "live"}
    <3>1. ~Talking(c)
      BY <2>1, <2>2, TalkingInFlight
    <3>. QED  BY <3>1 DEF Talking
  <2>. QED  BY <2>1, <2>2
<1>. QED  BY <1>1, TypeCorrect, CalmAlways, ClosingAlways, PTL
----------------------------------------------------------------------------
(* The counters.                                                            *)

\* The number of rows in status s, and of calls whose handler is at step s.
Rows(s) == Cardinality(InStatus(s))
Num(f, s) == Cardinality({c \in Call : f[c] = s})

\* Each counter lags behind a recount of its rows by the handlers that have
\* written the row and not yet the counter, and `queued` by the claimed batch.
\* A missed call may be counted by its hangup and by its -ERR, and dropped rows
\* are not taken off `queued`, so these two run ahead.
Tallies ==
  /\ cnt.queued + Num(hup, "countRetry")
       >= Rows("queued") + (IF pc = "book" THEN Cardinality(batch) ELSE 0)
  /\ cnt.answered + Num(ans, "count") = Cardinality(answeredAt)
  /\ cnt.completed + Num(hup, "countCompleted") = Rows("completed")
  /\ cnt.failed + Num(hup, "countFailed") + Num(job, "countFailed")
       >= Rows("failed")

CountInv == faults = 0 => Tallies

\* How the size of a set changes with one element.
LEMMA OneMoves ==
  ASSUME NEW A, IsFiniteSet(A), NEW B, NEW x,
         \A y : y # x => (y \in B <=> y \in A)
  PROVE  Cardinality(B) = IF x \in A
                          THEN IF x \in B THEN Cardinality(A)
                                          ELSE Cardinality(A) - 1
                          ELSE IF x \in B THEN Cardinality(A) + 1
                                          ELSE Cardinality(A)
<1>1. CASE x \in B /\ x \notin A
  <2>1. B = A \cup {x}
    BY <1>1
  <2>. QED  BY <1>1, <2>1, FS_AddElement
<1>2. CASE x \in A /\ x \notin B
  <2>1. B = A \ {x}
    BY <1>2
  <2>. QED  BY <1>2, <2>1, FS_RemoveElement
<1>3. CASE x \in A <=> x \in B
  <2>1. B = A
    BY <1>3
  <2>. QED  BY <1>3, <2>1
<1>. QED  BY <1>1, <1>2, <1>3

LEMMA NumMoves ==
  ASSUME NEW f, NEW g, NEW c \in Call, g[c] # f[c],
         \A e \in Call : e # c => g[e] = f[e]
  PROVE  /\ Num(g, g[c]) = Num(f, g[c]) + 1
         /\ Num(g, f[c]) = Num(f, f[c]) - 1
         /\ \A s : s # g[c] /\ s # f[c] => Num(g, s) = Num(f, s)
<1>1. ASSUME NEW s
      PROVE  Num(g, s) = IF s = g[c] THEN Num(f, s) + 1
                         ELSE IF s = f[c] THEN Num(f, s) - 1 ELSE Num(f, s)
  <2>. DEFINE A == {e \in Call : f[e] = s}
              B == {e \in Call : g[e] = s}
  <2>1. IsFiniteSet(A)
    BY CallsFinite
  <2>2. \A e : e # c => (e \in B <=> e \in A)
    OBVIOUS
  <2>3. (c \in A <=> s = f[c]) /\ (c \in B <=> s = g[c])
    OBVIOUS
  <2>4. Num(f, s) = Cardinality(A) /\ Num(g, s) = Cardinality(B)
    BY DEF Num
  <2>. HIDE DEF A, B
  <2>. QED  BY <2>1, <2>2, <2>3, <2>4, OneMoves
<1>. QED  BY <1>1

LEMMA NumNat == \A f, s : Num(f, s) \in Nat
BY CallsFinite DEF Num

LEMMA AnsMoves ==
  ASSUME TypeOK, NEW c \in Call, NEW v, v # ans[c], ans' = [ans EXCEPT ![c] = v]
  PROVE  /\ Num(ans', v) = Num(ans, v) + 1
         /\ Num(ans', ans[c]) = Num(ans, ans[c]) - 1
         /\ \A s : s # v /\ s # ans[c] => Num(ans', s) = Num(ans, s)
<1>1. ans'[c] = v /\ \A e \in Call : e # c => ans'[e] = ans[e]
  BY DEF TypeOK
<1>2. v # ans[c] /\ c \in Call
  OBVIOUS
<1>3. /\ Num(ans', ans'[c]) = Num(ans, ans'[c]) + 1
      /\ Num(ans', ans[c]) = Num(ans, ans[c]) - 1
      /\ \A s : s # ans'[c] /\ s # ans[c] => Num(ans', s) = Num(ans, s)
  BY ONLY <1>1, <1>2, NumMoves
<1>. QED  BY ONLY <1>1, <1>3

LEMMA HupMoves ==
  ASSUME TypeOK, NEW c \in Call, NEW v, v # hup[c], hup' = [hup EXCEPT ![c] = v]
  PROVE  /\ Num(hup', v) = Num(hup, v) + 1
         /\ Num(hup', hup[c]) = Num(hup, hup[c]) - 1
         /\ \A s : s # v /\ s # hup[c] => Num(hup', s) = Num(hup, s)
<1>1. hup'[c] = v /\ \A e \in Call : e # c => hup'[e] = hup[e]
  BY DEF TypeOK
<1>2. v # hup[c] /\ c \in Call
  OBVIOUS
<1>3. /\ Num(hup', hup'[c]) = Num(hup, hup'[c]) + 1
      /\ Num(hup', hup[c]) = Num(hup, hup[c]) - 1
      /\ \A s : s # hup'[c] /\ s # hup[c] => Num(hup', s) = Num(hup, s)
  BY ONLY <1>1, <1>2, NumMoves
<1>. QED  BY ONLY <1>1, <1>3

LEMMA JobMoves ==
  ASSUME TypeOK, NEW c \in Call, NEW v, v # job[c], job' = [job EXCEPT ![c] = v]
  PROVE  /\ Num(job', v) = Num(job, v) + 1
         /\ Num(job', job[c]) = Num(job, job[c]) - 1
         /\ \A s : s # v /\ s # job[c] => Num(job', s) = Num(job, s)
<1>1. job'[c] = v /\ \A e \in Call : e # c => job'[e] = job[e]
  BY DEF TypeOK
<1>2. v # job[c] /\ c \in Call
  OBVIOUS
<1>3. /\ Num(job', job'[c]) = Num(job, job'[c]) + 1
      /\ Num(job', job[c]) = Num(job, job[c]) - 1
      /\ \A s : s # job'[c] /\ s # job[c] => Num(job', s) = Num(job, s)
  BY ONLY <1>1, <1>2, NumMoves
<1>. QED  BY ONLY <1>1, <1>3

LEMMA RowMoves ==
  ASSUME TypeOK, NEW d \in Dest, NEW v, status' = [status EXCEPT ![d] = v]
  PROVE  /\ Rows(v)' <= Rows(v) + 1
         /\ v # status[d] => Rows(v)' = Rows(v) + 1
         /\ \A s : s # v => Rows(s)' <= Rows(s)
         /\ \A s : s # v /\ s # status[d] => Rows(s)' = Rows(s)
<1>1. status \in [Dest -> DestStatus]
  BY DEF TypeOK
<1>2. ASSUME NEW s
      PROVE  /\ Rows(s) \in Nat
             /\ Rows(s)' = IF s = status[d]
                           THEN IF s = v THEN Rows(s) ELSE Rows(s) - 1
                           ELSE IF s = v THEN Rows(s) + 1 ELSE Rows(s)
  <2>. DEFINE A == {y \in Dest : status[y] = s}
              B == {y \in Dest : status'[y] = s}
  <2>1. IsFiniteSet(A) /\ Cardinality(A) \in Nat
    BY RowsFinite
  <2>2. \A e : e # d => (e \in B <=> e \in A)
    BY <1>1
  <2>3. (d \in A <=> s = status[d]) /\ (d \in B <=> s = v)
    BY <1>1
  <2>4. Rows(s) = Cardinality(A) /\ Rows(s)' = Cardinality(B)
    BY DEF Rows, InStatus
  <2>. HIDE DEF A, B
  <2>. QED  BY <2>1, <2>2, <2>3, <2>4, OneMoves
<1>3. Rows(v)' <= Rows(v) + 1 /\ (v # status[d] => Rows(v)' = Rows(v) + 1)
  BY ONLY <1>2
<1>4. ASSUME NEW s, s # v
      PROVE  Rows(s)' <= Rows(s) /\ (s # status[d] => Rows(s)' = Rows(s))
  BY ONLY <1>2, <1>4
<1>. QED  BY <1>3, <1>4

LEMMA RowsNat == \A s : Rows(s) \in Nat /\ Rows(s)' \in Nat
BY RowsFinite DEF Rows, InStatus

\* A step that moves no counter, no counted row and no half-done handler.
LEMMA TallyFrame ==
  ASSUME TypeOK, Tallies,
         UNCHANGED <<cnt.queued, cnt.answered, cnt.completed, cnt.failed>>,
         pc' = "book" <=> pc = "book", batch' = batch \/ pc # "book",
         Rows("queued")' <= Rows("queued"),
         Rows("completed")' = Rows("completed"),
         Rows("failed")' = Rows("failed"),
         answeredAt' = answeredAt,
         Num(hup, "countRetry")' = Num(hup, "countRetry"),
         Num(hup, "countCompleted")' = Num(hup, "countCompleted"),
         Num(hup, "countFailed")' = Num(hup, "countFailed"),
         Num(ans, "count")' = Num(ans, "count"),
         Num(job, "countFailed")' = Num(job, "countFailed")
  PROVE  Tallies'
<1>1. /\ Rows("queued") \in Nat /\ Rows("queued")' \in Nat
      /\ cnt.queued \in Nat /\ Num(hup, "countRetry") \in Nat
      /\ Cardinality(batch) \in Nat
  BY NumNat, CountsInNat, RowsFinite DEF TypeOK, Counters, Rows, InStatus
<1>2. cnt'.queued + Num(hup, "countRetry")'
        >= Rows("queued")' + (IF pc' = "book" THEN Cardinality(batch') ELSE 0)
  BY <1>1 DEF Tallies
<1>. QED  BY <1>2 DEF Tallies

\* In particular one that leaves all rows alone.
LEMMA RowsSame ==
  ASSUME UNCHANGED status
  PROVE  \A s : Rows(s)' = Rows(s) /\ Rows(s)' <= Rows(s)
<1>1. \A s : Rows(s)' = Rows(s) /\ Rows(s) \in Nat
  BY CountsInNat DEF Rows, InStatus
<1>. QED  BY <1>1

\* And what a change of one call or one row leaves as it is.
LEMMA NumKept ==
  ASSUME NEW f, NEW g, NEW c \in Call, \A e \in Call : e # c => g[e] = f[e],
         NEW s, s # f[c], s # g[c]
  PROVE  Num(g, s) = Num(f, s)
<1>1. {e \in Call : g[e] = s} = {e \in Call : f[e] = s}
  OBVIOUS
<1>. QED  BY <1>1 DEF Num

LEMMA RowKept ==
  ASSUME NEW d, \A e \in Dest : e # d => status'[e] = status[e],
         NEW s, s # status[d], s # status'[d]
  PROVE  Rows(s)' = Rows(s)
<1>1. {e \in Dest : status'[e] = s} = {e \in Dest : status[e] = s}
  OBVIOUS
<1>. QED  BY <1>1 DEF Rows, InStatus

LEMMA TallyHandler ==
  ASSUME TypeOK, Tallies, NEW d \in Dest, Life(d),
         NEW k \in 1..ClaimBound, Handler(<<d, k>>)
  PROVE  Tallies'
<1>. DEFINE c == <<d, k>>
<1>0. /\ c \in Call /\ c[1] = d /\ c[2] = k /\ c = Current(d) /\ k = attempts[d]
      /\ k > 0
  BY ActsOnCurrent, ConstantsOK DEF Call, TypeOK, ConstantsOK
<1>. HIDE DEF c
<1>1. \/ Waits(d, c) \/ Claimed(d, c) \/ Dialled(d, c)
      \/ Talks(d, c) \/ Delivered(d, c) \/ Failed(d, c)
  BY <1>0 DEF Life
<1>2. /\ cnt \in Counters
      /\ cnt.queued \in Nat /\ cnt.answered \in Nat /\ cnt.completed \in Nat
      /\ cnt.failed \in Nat
      /\ Num(hup, "countRetry") \in Nat /\ Num(hup, "countCompleted") \in Nat
      /\ Num(hup, "countFailed") \in Nat /\ Num(ans, "count") \in Nat
      /\ Num(job, "countFailed") \in Nat
      /\ Rows("queued") \in Nat /\ Rows("completed") \in Nat
      /\ Rows("failed") \in Nat
      /\ Cardinality(answeredAt) \in Nat /\ Cardinality(batch) \in Nat
  BY NumNat, CountsInNat, RowsFinite DEF TypeOK, Counters, Rows
<1>3. CASE AnswerRow(c)
  <2>1. ans[c] = "sent" /\ UNCHANGED <<cnt, pc, batch, hup, job>>
    BY <1>3 DEF AnswerRow, tickVars, campVars
  <2>2. CASE /\ status' = [status EXCEPT ![d] = "answered"] /\ status[d] = "dialing"
             /\ answeredAt' = answeredAt \cup {d} /\ ans' = [ans EXCEPT ![c] = "count"]
    <3>1. d \notin answeredAt
      BY <1>1, <2>2 DEF Waits, Claimed, Dialled, Talks, Delivered, Failed
    <3>2. Cardinality(answeredAt') = Cardinality(answeredAt) + 1
      <4>1. IsFiniteSet(answeredAt)
        BY RowsFinite DEF TypeOK
      <4>. QED  BY <2>2, <3>1, <4>1, FS_AddElement
    <3>3. Num(ans', "count") = Num(ans, "count") + 1
      BY <1>0, <1>2, <2>1, <2>2, AnsMoves
    <3>4. Rows("queued")' = Rows("queued")
      BY <1>2, <2>2, RowMoves
    <3>5. Rows("completed")' = Rows("completed")
      BY <1>2, <2>2, RowMoves
    <3>6. Rows("failed")' = Rows("failed")
      BY <1>2, <2>2, RowMoves
    <3>. QED  BY <1>2, <2>1, <3>2, <3>3, <3>4, <3>5, <3>6 DEF Tallies
  <2>3. CASE UNCHANGED <<status, answeredAt>> /\ ans' = [ans EXCEPT ![c] = "done"]
    <3>1. "done" # ans[c] /\ "count" # ans[c]
      BY <2>1
    <3>2. \A s : s # "done" /\ s # ans[c] => Num(ans', s) = Num(ans, s)
      BY <1>0, <2>3, <3>1, AnsMoves
    <3>3. Num(ans', "count") = Num(ans, "count")
      BY ONLY <3>1, <3>2
    <3>. QED  BY <2>1, <2>3, <3>3, RowsSame, TallyFrame
  <2>. QED  BY <1>0, <1>3, <2>2, <2>3 DEF AnswerRow, Set
<1>4. CASE AnswerCount(c)
  <2>1. /\ ans[c] = "count" /\ ans' = [ans EXCEPT ![c] = "done"]
        /\ UNCHANGED <<pc, batch, status, answeredAt, hup, job>>
    BY <1>4 DEF AnswerCount, tickVars, rowVars, Set
  <2>2. Num(ans', "count") = Num(ans, "count") - 1
    <3>1. Num(ans', ans[c]) = Num(ans, ans[c]) - 1
      BY <1>0, <2>1, AnsMoves
    <3>. QED  BY <3>1, <2>1
  <2>3. /\ cnt'.answered = cnt.answered + 1 /\ cnt'.queued = cnt.queued
        /\ cnt'.completed = cnt.completed /\ cnt'.failed = cnt.failed
    BY <1>2, <1>4 DEF AnswerCount, Counters
  <2>4. /\ Rows("queued")' = Rows("queued") /\ Rows("failed")' = Rows("failed")
        /\ Rows("completed")' = Rows("completed")
    BY <2>1, RowsSame
  <2>5. UNCHANGED <<pc, batch, answeredAt, hup, job>>
    BY <2>1
  <2>. QED  BY ONLY Tallies, <1>2, <2>2, <2>3, <2>4, <2>5 DEF Tallies
<1>5. CASE HangupRead(c)
  <2>1. /\ hup[c] = "sent"
        /\ UNCHANGED <<pc, batch, cnt, status, answeredAt, ans, job>>
    BY <1>5 DEF HangupRead, EngineUnchanged, tickVars, rowVars, campVars
  <2>2. PICK v \in {"complete", "retry", "fail", "done"} :
          hup' = [hup EXCEPT ![c] = v]
    BY <1>5 DEF HangupRead, Set
  <2>3. v # hup[c]
    BY <2>1
  <2>4. \A s : s # v /\ s # hup[c] => Num(hup', s) = Num(hup, s)
    BY <1>0, <2>2, <2>3, HupMoves
  <2>5. /\ Num(hup', "countRetry") = Num(hup, "countRetry")
        /\ Num(hup', "countCompleted") = Num(hup, "countCompleted")
        /\ Num(hup', "countFailed") = Num(hup, "countFailed")
    BY ONLY <2>1, <2>4, v \in {"complete", "retry", "fail", "done"}
  <2>. QED  BY <2>1, <2>5, RowsSame, TallyFrame
<1>6. CASE HangupComplete(c)
  <2>1. /\ hup[c] = "complete" /\ hup' = [hup EXCEPT ![c] = "countCompleted"]
        /\ status' = [status EXCEPT ![d] = "completed"]
        /\ UNCHANGED <<pc, batch, cnt, answeredAt, ans, job>>
    BY <1>0, <1>6 DEF HangupComplete, tickVars, campVars, Set
  <2>2. status[d] = "answered"
    <3>1. hup[c] = "complete"
      BY <2>1
    <3>. QED
      BY ONLY <1>0, <1>1, <3>1 DEF Waits, Claimed, Dialled, Talks, Delivered, Failed, Untouched
  <2>3. Num(hup', "countCompleted") = Num(hup, "countCompleted") + 1
    BY <1>0, <2>1, HupMoves
  <2>4. Num(hup', "countRetry") = Num(hup, "countRetry")
    <3>1. /\ \A e \in Call : e # c => hup'[e] = hup[e]
          /\ "countRetry" # hup[c] /\ "countRetry" # hup'[c] /\ c \in Call
      BY <1>0, <2>1 DEF TypeOK
    <3>. QED  BY ONLY <3>1, NumKept
  <2>5. Num(hup', "countFailed") = Num(hup, "countFailed")
    <3>1. /\ \A e \in Call : e # c => hup'[e] = hup[e]
          /\ "countFailed" # hup[c] /\ "countFailed" # hup'[c] /\ c \in Call
      BY <1>0, <2>1 DEF TypeOK
    <3>. QED  BY ONLY <3>1, NumKept
  <2>6. Rows("completed")' = Rows("completed") + 1
    BY <2>1, <2>2, RowMoves
  <2>7. Rows("queued")' = Rows("queued")
    <3>1. /\ \A e \in Dest : e # d => status'[e] = status[e]
          /\ "queued" # status[d] /\ "queued" # status'[d]
      BY <2>1, <2>2 DEF TypeOK
    <3>. QED  BY ONLY <3>1, RowKept
  <2>8. Rows("failed")' = Rows("failed")
    <3>1. /\ \A e \in Dest : e # d => status'[e] = status[e]
          /\ "failed" # status[d] /\ "failed" # status'[d]
      BY <2>1, <2>2 DEF TypeOK
    <3>. QED  BY ONLY <3>1, RowKept
  <2>10. UNCHANGED <<pc, batch, cnt, answeredAt, ans, job>>
    BY <2>1
  <2>. QED
    BY ONLY Tallies, <1>2, <2>3, <2>4, <2>5, <2>6, <2>7, <2>8, <2>10
       DEF Tallies
<1>7. CASE HangupRetry(c)
  <2>1. /\ hup[c] = "retry" /\ hup' = [hup EXCEPT ![c] = "countRetry"]
        /\ status' = [status EXCEPT ![d] = "queued"]
        /\ UNCHANGED <<pc, batch, cnt, answeredAt, ans, job>>
    BY <1>0, <1>7 DEF HangupRetry, tickVars, campVars, Set
  <2>2. status[d] \in {"dialing", "failed"}
    <3>1. hup[c] = "retry"
      BY <2>1
    <3>. QED
      BY ONLY <1>0, <1>1, <3>1 DEF Waits, Claimed, Dialled, Talks, Delivered, Failed, Untouched
  <2>3. Num(hup', "countRetry") = Num(hup, "countRetry") + 1
    BY <1>0, <2>1, HupMoves
  <2>4. Num(hup', "countCompleted") = Num(hup, "countCompleted")
    <3>1. /\ \A e \in Call : e # c => hup'[e] = hup[e]
          /\ "countCompleted" # hup[c] /\ "countCompleted" # hup'[c] /\ c \in Call
      BY <1>0, <2>1 DEF TypeOK
    <3>. QED  BY ONLY <3>1, NumKept
  <2>5. Num(hup', "countFailed") = Num(hup, "countFailed")
    <3>1. /\ \A e \in Call : e # c => hup'[e] = hup[e]
          /\ "countFailed" # hup[c] /\ "countFailed" # hup'[c] /\ c \in Call
      BY <1>0, <2>1 DEF TypeOK
    <3>. QED  BY ONLY <3>1, NumKept
  <2>6. Rows("queued")' = Rows("queued") + 1
    BY <2>1, <2>2, RowMoves
  <2>7. Rows("completed")' = Rows("completed")
    <3>1. /\ \A e \in Dest : e # d => status'[e] = status[e]
          /\ "completed" # status[d] /\ "completed" # status'[d]
      BY <2>1, <2>2 DEF TypeOK
    <3>. QED  BY ONLY <3>1, RowKept
  <2>8. Rows("failed")' <= Rows("failed") /\ Rows("failed")' \in Nat
    <3>1. \A s : s # "queued" => Rows(s)' <= Rows(s)
      BY <2>1, RowMoves
    <3>. QED  BY <3>1, RowsNat
  <2>10. UNCHANGED <<pc, batch, cnt, answeredAt, ans, job>>
    BY <2>1
  <2>. QED
    BY ONLY Tallies, <1>2, <2>3, <2>4, <2>5, <2>6, <2>7, <2>8, <2>10
       DEF Tallies
<1>8. ASSUME status' = [status EXCEPT ![d] = "failed"], status[d] # "completed",
             UNCHANGED <<pc, batch, cnt, answeredAt, ans>>,
             \/ /\ hup[c] = "fail" /\ hup' = [hup EXCEPT ![c] = "countFailed"]
                /\ job' = job
             \/ /\ job[c] = "rejected" /\ job' = [job EXCEPT ![c] = "countFailed"]
                /\ hup' = hup
      PROVE  Tallies'
  <2>1. /\ Rows("failed")' <= Rows("failed") + 1 /\ Rows("queued")' <= Rows("queued")
        /\ Rows("failed")' \in Nat /\ Rows("queued")' \in Nat
    <3>1. /\ Rows("failed")' <= Rows("failed") + 1
          /\ \A s : s # "failed" => Rows(s)' <= Rows(s)
      BY <1>8, RowMoves
    <3>. QED  BY <3>1, RowsNat
  <2>3. Rows("completed")' = Rows("completed")
    <3>1. /\ \A e \in Dest : e # d => status'[e] = status[e]
          /\ "completed" # status[d] /\ "completed" # status'[d]
      BY <1>8 DEF TypeOK
    <3>. QED  BY ONLY <3>1, RowKept
  <2>5. CASE /\ hup[c] = "fail" /\ hup' = [hup EXCEPT ![c] = "countFailed"]
             /\ job' = job
    <3>1. Num(hup', "countFailed") = Num(hup, "countFailed") + 1
      BY <1>0, <2>5, HupMoves
    <3>2. Num(hup', "countRetry") = Num(hup, "countRetry")
      <4>1. /\ \A e \in Call : e # c => hup'[e] = hup[e]
            /\ "countRetry" # hup[c] /\ "countRetry" # hup'[c] /\ c \in Call
        BY <1>0, <2>5 DEF TypeOK
      <4>. QED  BY ONLY <4>1, NumKept
    <3>3. Num(hup', "countCompleted") = Num(hup, "countCompleted")
      <4>1. /\ \A e \in Call : e # c => hup'[e] = hup[e]
            /\ "countCompleted" # hup[c] /\ "countCompleted" # hup'[c] /\ c \in Call
        BY <1>0, <2>5 DEF TypeOK
      <4>. QED  BY ONLY <4>1, NumKept
    <3>. QED
      BY <1>2, <1>8, <2>1, <2>3, <2>5, <3>1, <3>2, <3>3 DEF Tallies
  <2>6. CASE /\ job[c] = "rejected" /\ job' = [job EXCEPT ![c] = "countFailed"]
             /\ hup' = hup
    <3>1. Num(job', "countFailed") = Num(job, "countFailed") + 1
      BY <1>0, <2>6, JobMoves
    <3>. QED
      BY <1>2, <1>8, <2>1, <2>3, <2>6, <3>1 DEF Tallies
  <2>. QED  BY <1>8, <2>5, <2>6
<1>9. CASE HangupFail(c) \/ JobFail(c)
  <2>1. /\ status' = [status EXCEPT ![d] = "failed"]
        /\ UNCHANGED <<pc, batch, cnt, answeredAt, ans>>
        /\ \/ /\ hup[c] = "fail" /\ hup' = [hup EXCEPT ![c] = "countFailed"]
              /\ job' = job
           \/ /\ job[c] = "rejected" /\ job' = [job EXCEPT ![c] = "countFailed"]
              /\ hup' = hup
    BY <1>0, <1>9 DEF HangupFail, JobFail, FailRow, tickVars, campVars, Set
  <2>2. status[d] # "completed"
    <3>1. hup[c] = "fail" \/ job[c] = "rejected"
      BY <2>1
    <3>. QED
      BY ONLY <1>0, <1>1, <3>1 DEF Waits, Claimed, Dialled, Talks, Delivered, Failed, Untouched
  <2>. QED  BY <1>8, <2>1, <2>2
<1>10. CASE HangupCount(c)
  <2>1. /\ hup' = [hup EXCEPT ![c] = "done"]
        /\ UNCHANGED <<pc, batch, status, answeredAt, ans, job>>
    BY <1>10 DEF HangupCount, Counted, tickVars, rowVars, Set
  <2>2. /\ Rows("queued")' = Rows("queued") /\ Rows("failed")' = Rows("failed")
        /\ Rows("completed")' = Rows("completed")
    BY <2>1, RowsSame
  <2>3. ASSUME hup[c] = "countCompleted",
               cnt' = [cnt EXCEPT !.completed = @ + 1]
        PROVE  Tallies'
    <3>1. Num(hup', "countCompleted") = Num(hup, "countCompleted") - 1
      <4>1. Num(hup', hup[c]) = Num(hup, hup[c]) - 1
        BY <1>0, <2>1, <2>3, HupMoves
      <4>. QED  BY <4>1, <2>3
    <3>2. Num(hup', "countRetry") = Num(hup, "countRetry")
      <4>1. /\ \A e \in Call : e # c => hup'[e] = hup[e]
            /\ "countRetry" # hup[c] /\ "countRetry" # hup'[c] /\ c \in Call
        BY <1>0, <2>1, <2>3 DEF TypeOK
      <4>. QED  BY ONLY <4>1, NumKept
    <3>3. Num(hup', "countFailed") = Num(hup, "countFailed")
      <4>1. /\ \A e \in Call : e # c => hup'[e] = hup[e]
            /\ "countFailed" # hup[c] /\ "countFailed" # hup'[c] /\ c \in Call
        BY <1>0, <2>1, <2>3 DEF TypeOK
      <4>. QED  BY ONLY <4>1, NumKept
    <3>4. /\ cnt'.answered = cnt.answered /\ cnt'.queued = cnt.queued
          /\ cnt'.completed = cnt.completed + 1 /\ cnt'.failed = cnt.failed
      BY <1>2, <2>3 DEF Counters
    <3>. QED  BY <1>2, <2>1, <2>2, <3>1, <3>2, <3>3, <3>4 DEF Tallies
  <2>4. ASSUME hup[c] = "countRetry",
               cnt' = [cnt EXCEPT !.retried = @ + 1, !.queued = @ + 1,
                                  !.dialing = Minus(@, 1)]
        PROVE  Tallies'
    <3>1. Num(hup', "countRetry") = Num(hup, "countRetry") - 1
      <4>1. Num(hup', hup[c]) = Num(hup, hup[c]) - 1
        BY <1>0, <2>1, <2>4, HupMoves
      <4>. QED  BY <4>1, <2>4
    <3>2. Num(hup', "countCompleted") = Num(hup, "countCompleted")
      <4>1. /\ \A e \in Call : e # c => hup'[e] = hup[e]
            /\ "countCompleted" # hup[c] /\ "countCompleted" # hup'[c] /\ c \in Call
        BY <1>0, <2>1, <2>4 DEF TypeOK
      <4>. QED  BY ONLY <4>1, NumKept
    <3>3. Num(hup', "countFailed") = Num(hup, "countFailed")
      <4>1. /\ \A e \in Call : e # c => hup'[e] = hup[e]
            /\ "countFailed" # hup[c] /\ "countFailed" # hup'[c] /\ c \in Call
        BY <1>0, <2>1, <2>4 DEF TypeOK
      <4>. QED  BY ONLY <4>1, NumKept
    <3>4. /\ cnt'.answered = cnt.answered /\ cnt'.queued = cnt.queued + 1
          /\ cnt'.completed = cnt.completed /\ cnt'.failed = cnt.failed
      BY <1>2, <2>4 DEF Counters
    <3>. QED  BY <1>2, <2>1, <2>2, <3>1, <3>2, <3>3, <3>4 DEF Tallies
  <2>5. ASSUME hup[c] = "countFailed",
               cnt' = [cnt EXCEPT !.failed = @ + 1, !.dialing = Minus(@, 1)]
        PROVE  Tallies'
    <3>1. Num(hup', "countFailed") = Num(hup, "countFailed") - 1
      <4>1. Num(hup', hup[c]) = Num(hup, hup[c]) - 1
        BY <1>0, <2>1, <2>5, HupMoves
      <4>. QED  BY <4>1, <2>5
    <3>2. Num(hup', "countRetry") = Num(hup, "countRetry")
      <4>1. /\ \A e \in Call : e # c => hup'[e] = hup[e]
            /\ "countRetry" # hup[c] /\ "countRetry" # hup'[c] /\ c \in Call
        BY <1>0, <2>1, <2>5 DEF TypeOK
      <4>. QED  BY ONLY <4>1, NumKept
    <3>3. Num(hup', "countCompleted") = Num(hup, "countCompleted")
      <4>1. /\ \A e \in Call : e # c => hup'[e] = hup[e]
            /\ "countCompleted" # hup[c] /\ "countCompleted" # hup'[c] /\ c \in Call
        BY <1>0, <2>1, <2>5 DEF TypeOK
      <4>. QED  BY ONLY <4>1, NumKept
    <3>4. /\ cnt'.answered = cnt.answered /\ cnt'.queued = cnt.queued
          /\ cnt'.completed = cnt.completed /\ cnt'.failed = cnt.failed + 1
      BY <1>2, <2>5 DEF Counters
    <3>. QED  BY <1>2, <2>1, <2>2, <3>1, <3>2, <3>3, <3>4 DEF Tallies
  <2>6. \/ hup[c] = "countCompleted" /\ cnt' = [cnt EXCEPT !.completed = @ + 1]
        \/ hup[c] = "countRetry" /\ cnt' = [cnt EXCEPT !.retried = @ + 1,
              !.queued = @ + 1, !.dialing = Minus(@, 1)]
        \/ hup[c] = "countFailed" /\ cnt' = [cnt EXCEPT !.failed = @ + 1,
              !.dialing = Minus(@, 1)]
    BY <1>10 DEF HangupCount
  <2>. QED  BY <2>3, <2>4, <2>5, <2>6
<1>11. CASE JobCount(c)
  <2>1. /\ job[c] = "countFailed" /\ job' = [job EXCEPT ![c] = "done"]
        /\ UNCHANGED <<pc, batch, status, answeredAt, ans, hup>>
    BY <1>11 DEF JobCount, Counted, tickVars, rowVars, Set
  <2>2. /\ Rows("queued")' = Rows("queued") /\ Rows("failed")' = Rows("failed")
        /\ Rows("completed")' = Rows("completed")
    BY <2>1, RowsSame
  <2>3. Num(job', "countFailed") = Num(job, "countFailed") - 1
    <3>1. Num(job', job[c]) = Num(job, job[c]) - 1
      BY <1>0, <2>1, JobMoves
    <3>. QED  BY <3>1, <2>1
  <2>4. /\ cnt'.answered = cnt.answered /\ cnt'.queued = cnt.queued
        /\ cnt'.completed = cnt.completed /\ cnt'.failed = cnt.failed + 1
    BY <1>2, <1>11 DEF JobCount, Counters
  <2>5. UNCHANGED <<pc, batch, answeredAt, ans, hup>>
    BY <2>1
  <2>6. cnt'.failed + Num(hup', "countFailed") + Num(job', "countFailed")
          >= Rows("failed")'
    <3>1. cnt.failed + Num(hup, "countFailed") + Num(job, "countFailed")
            >= Rows("failed")
      BY DEF Tallies
    <3>. QED  BY ONLY <3>1, <1>2, <2>2, <2>3, <2>4, <2>5
  <2>. QED  BY ONLY Tallies, <2>2, <2>4, <2>5, <2>6 DEF Tallies
<1>. QED
  BY <1>3, <1>4, <1>5, <1>6, <1>7, <1>9, <1>10, <1>11 DEF Handler, c

\* Dialling, ringing, answering and hanging up are not counted.
LEMMA TallyLine ==
  ASSUME TypeOK, Tallies, pc # "down", faults = 0, faults' = 0,
         NEW d \in Dest, Life(d), NEW k \in 1..ClaimBound,
         Originating(<<d, k>>) \/ Telephone(<<d, k>>)
  PROVE  Tallies'
<1>. DEFINE c == <<d, k>>
<1>0. c \in Call /\ c = Current(d) /\ k = attempts[d] /\ k > 0
  BY ActsOnCurrent, ConstantsOK DEF Call, TypeOK, ConstantsOK
<1>. HIDE DEF c
<1>1. \/ Waits(d, c) \/ Claimed(d, c) \/ Dialled(d, c)
      \/ Talks(d, c) \/ Delivered(d, c) \/ Failed(d, c)
  BY <1>0 DEF Life
<1>2. ASSUME UNCHANGED <<cnt, pc, batch, status, answeredAt>>,
             \A e \in Call : e # c => /\ ans'[e] = ans[e] /\ hup'[e] = hup[e]
                                      /\ job'[e] = job[e],
             ans'[c] = ans[c] \/ (ans[c] # "count" /\ ans'[c] # "count"),
             hup'[c] = hup[c] \/ (hup[c] = "none" /\ hup'[c] = "sent"),
             \/ job'[c] = job[c]
             \/ job[c] # "countFailed" /\ job'[c] # "countFailed"
      PROVE  Tallies'
  <2>1. ASSUME NEW f, NEW g, NEW s, \A e \in Call : e # c => g[e] = f[e],
               g[c] = f[c] \/ (f[c] # s /\ g[c] # s)
        PROVE  Num(g, s) = Num(f, s)
    <3>1. {e \in Call : g[e] = s} = {e \in Call : f[e] = s}
      BY <2>1
    <3>. QED  BY <3>1 DEF Num
  <2>2. Num(ans', "count") = Num(ans, "count")
    BY ONLY <1>2, <2>1
  <2>3. Num(hup', "countRetry") = Num(hup, "countRetry")
    BY ONLY <1>2, <2>1
  <2>4. Num(hup', "countCompleted") = Num(hup, "countCompleted")
    BY ONLY <1>2, <2>1
  <2>5. Num(hup', "countFailed") = Num(hup, "countFailed")
    BY ONLY <1>2, <2>1
  <2>6. Num(job', "countFailed") = Num(job, "countFailed")
    BY ONLY <1>2, <2>1
  <2>. QED
    BY <1>2, <2>2, <2>3, <2>4, <2>5, <2>6, RowsSame, TallyFrame
<1>. USE DEF Set, EngineUnchanged, rowVars, tickVars, campVars
<1>3. CASE Originating(c)
  <2>1. /\ job[c] \in {"resolving", "sent"}
        /\ \E v \in {"sent", "rejected"} : job' = [job EXCEPT ![c] = v]
        /\ UNCHANGED <<cnt, pc, batch, status, answeredAt, ans, hup>>
    BY <1>3 DEF Originating, FsRing, DispatchRejected, ReplyTimeout
  <2>2. /\ job'[c] \in {"sent", "rejected"}
        /\ \A e \in Call : e # c => job'[e] = job[e]
    BY <1>0, <2>1 DEF TypeOK
  <2>3. /\ job[c] \in {"resolving", "sent"}
        /\ UNCHANGED <<cnt, pc, batch, status, answeredAt, ans, hup>>
    BY <2>1
  <2>. QED  BY ONLY <1>2, <2>2, <2>3
<1>4. CASE FsAnswer(c)
  <2>1. /\ call[c] = "ringing" /\ ans' = [ans EXCEPT ![c] = "sent"]
        /\ \E reply \in {"done", job[c]} : job' = [job EXCEPT ![c] = reply]
        /\ UNCHANGED <<cnt, pc, batch, status, answeredAt, hup>>
    BY <1>0, <1>4, AnswerArrives
  <2>2. ans[c] = "none" /\ job[c] = "sent"
    <3>1. call[c] = "ringing"
      BY <2>1
    <3>. QED
      BY ONLY <1>0, <1>1, <3>1
         DEF Waits, Claimed, Dialled, Talks, Delivered, Failed, Untouched
  <2>3. /\ ans'[c] = "sent" /\ job'[c] \in {"done", "sent"}
        /\ \A e \in Call : e # c => ans'[e] = ans[e] /\ job'[e] = job[e]
    BY <1>0, <2>1, <2>2 DEF TypeOK
  <2>4. UNCHANGED <<cnt, pc, batch, status, answeredAt, hup>>
    BY <2>1
  <2>. QED  BY ONLY <1>2, <2>2, <2>3, <2>4
<1>5. CASE FsHangup(c)
  <2>1. /\ call[c] \in {"ringing", "live"} /\ hup' = [hup EXCEPT ![c] = "sent"]
        /\ \E reply \in {"rejected", job[c]} : job' = [job EXCEPT ![c] = reply]
        /\ UNCHANGED <<cnt, pc, batch, status, answeredAt, ans>>
    BY <1>0, <1>5, HangupArrives
  <2>2. hup[c] = "none" /\ job[c] \in {"sent", "done"}
    <3>1. call[c] \in {"ringing", "live"}
      BY <2>1
    <3>. QED
      BY ONLY <1>0, <1>1, <3>1
         DEF Waits, Claimed, Dialled, Talks, Delivered, Failed, Untouched
  <2>3. /\ hup'[c] = "sent" /\ job'[c] \in {"rejected", "done", "sent"}
        /\ \A e \in Call : e # c => hup'[e] = hup[e] /\ job'[e] = job[e]
    BY <1>0, <2>1, <2>2 DEF TypeOK
  <2>4. UNCHANGED <<cnt, pc, batch, status, answeredAt, ans>>
    BY <2>1
  <2>. QED  BY ONLY <1>2, <2>2, <2>3, <2>4
<1>. QED  BY <1>3, <1>4, <1>5 DEF Telephone, c

\* A claim takes its rows out of the queue and into the batch.
LEMMA TallyClaim ==
  ASSUME TypeOK, Tallies, NEW S \in SUBSET Dest, ClaimRows(S)
  PROVE  Tallies'
<1>1. /\ S \subseteq InStatus("queued")
      /\ status' = [d \in Dest |-> IF d \in S THEN "dialing" ELSE status[d]]
      /\ pc = "claim" /\ batch' = S
      /\ pc' = IF S = {} THEN "idle" ELSE "book"
      /\ UNCHANGED <<cnt, answeredAt, ans, hup, job>>
  BY DEF ClaimRows, Ready, campVars, callVars
<1>2. InStatus("queued")' = InStatus("queued") \ S
  BY <1>1 DEF InStatus
<1>3. /\ InStatus("completed")' = InStatus("completed")
      /\ InStatus("failed")' = InStatus("failed")
  BY <1>1 DEF InStatus
<1>4. IsFiniteSet(InStatus("queued")) /\ IsFiniteSet(S)
  BY RowsFinite DEF InStatus
<1>5. InStatus("queued") \cap S = S
  BY <1>1
<1>6. Cardinality(InStatus("queued") \ S) = Cardinality(InStatus("queued")) - Cardinality(S)
  BY <1>4, <1>5, FS_Difference
<1>7. /\ Rows("queued")' = Rows("queued") - Cardinality(S)
      /\ Rows("completed")' = Rows("completed") /\ Rows("failed")' = Rows("failed")
  BY <1>2, <1>3, <1>6 DEF Rows
<1>8. S = {} => Cardinality(S) = 0
  BY FS_EmptySet
<1>9. /\ cnt.queued \in Nat /\ Num(hup, "countRetry") \in Nat
      /\ Rows("queued") \in Nat /\ Cardinality(S) \in Nat
  BY NumNat, CountsInNat, <1>4, FS_CardinalityType DEF TypeOK, Counters, Rows
<1>10. UNCHANGED <<cnt, answeredAt, ans, hup, job>> /\ batch' = S
  BY <1>1
<1>11. cnt'.queued + Num(hup', "countRetry")
         >= Rows("queued")' + (IF pc' = "book" THEN Cardinality(batch') ELSE 0)
  <2>1. cnt.queued + Num(hup, "countRetry") >= Rows("queued")
    BY <1>1, <1>9 DEF Tallies
  <2>. QED  BY ONLY <2>1, <1>1, <1>7, <1>8, <1>9, <1>10
<1>. QED  BY ONLY Tallies, <1>7, <1>10, <1>11 DEF Tallies

\* The batch is booked in one statement.  GREATEST(0, ...) cuts it short only when
\* `queued` lags behind, by retries that are still to be counted.
LEMMA TallyBook ==
  ASSUME TypeOK, Tallies, BookClaim
  PROVE  Tallies'
<1>1. /\ pc = "book" /\ pc' = "originate"
      /\ UNCHANGED <<status, answeredAt, ans, hup, job>>
  BY DEF BookClaim, rowVars, callVars
<1>2. /\ cnt.queued \in Nat /\ Num(hup, "countRetry") \in Nat
      /\ Rows("queued") \in Nat /\ Cardinality(batch) \in Nat
  BY NumNat, CountsInNat, RowsFinite DEF TypeOK, Counters, Rows
<1>3. /\ cnt'.queued = IF cnt.queued > Cardinality(batch)
                       THEN cnt.queued - Cardinality(batch) ELSE 0
      /\ cnt'.answered = cnt.answered /\ cnt'.completed = cnt.completed
      /\ cnt'.failed = cnt.failed
  BY DEF BookClaim, Minus, TypeOK, Counters
<1>4. cnt.queued + Num(hup, "countRetry") >= Rows("queued") + Cardinality(batch)
  BY <1>1 DEF Tallies
<1>5. cnt'.queued + Num(hup, "countRetry") >= Rows("queued")
  BY ONLY <1>2, <1>3, <1>4
<1>6. /\ Rows("queued")' = Rows("queued") /\ Rows("failed")' = Rows("failed")
      /\ Rows("completed")' = Rows("completed")
  BY <1>1, RowsSame
<1>7. cnt'.queued + Num(hup', "countRetry")
        >= Rows("queued")' + (IF pc' = "book" THEN Cardinality(batch') ELSE 0)
  BY ONLY <1>1, <1>2, <1>5, <1>6
<1>. QED  BY ONLY Tallies, <1>1, <1>3, <1>6, <1>7 DEF Tallies

LEMMA TallyStep ==
  ASSUME TypeOK, Tallies, pc # "down", rec = "off", faults' = 0,
         \A d \in Dest : Life(d), [Next]_vars
  PROVE  Tallies'
<1>. USE DEF campVars, rowVars, tickVars, callVars
<1>0. cnt \in Counters
  BY DEF TypeOK
<1>1. ASSUME UNCHANGED <<cnt.queued, cnt.answered, cnt.completed, cnt.failed,
                         status, answeredAt, ans, hup, job>>,
             pc' = "book" <=> pc = "book", batch' = batch \/ pc # "book"
      PROVE  Tallies'
  BY <1>1, RowsSame, TallyFrame
<1>2. CASE UNCHANGED vars
  BY <1>1, <1>2 DEF vars
<1>3. CASE ExpireRows \/ CancelRows
  <2>1. /\ \E s \in {"expired", "skipped"} :
             status' = [d \in Dest |-> IF status[d] = "queued" THEN s ELSE status[d]]
        /\ UNCHANGED <<cnt, answeredAt, batch, ans, hup, job>>
        /\ pc' = "book" <=> pc = "book"
    BY <1>3 DEF ExpireRows, CancelRows
  <2>2. InStatus("completed")' = InStatus("completed")
    BY <2>1 DEF InStatus
  <2>3. InStatus("failed")' = InStatus("failed")
    BY <2>1 DEF InStatus
  <2>4. Rows("queued")' <= Rows("queued")
    <3>1. InStatus("queued")' = {}
      BY <2>1 DEF InStatus, TypeOK
    <3>. QED  BY <3>1, FS_EmptySet, CountsInNat DEF Rows
  <2>. QED  BY <2>1, <2>2, <2>3, <2>4, TallyFrame DEF Rows
<1>4. CASE Tick /\ ~ExpireRows
  <2>1. CASE \/ SelectCampaign \/ StartCampaign \/ ExpireCampaign \/ CountRows
             \/ CompleteCampaign \/ SynthesizeMedia \/ SynthesisFails
    BY <1>1, <2>1
       DEF SelectCampaign, StartCampaign, ExpireCampaign, CountRows,
           CompleteCampaign, SynthesizeMedia, SynthesisFails
  <2>2. CASE PlanFinish \/ PlanWait \/ \E n \in 1..BatchSize : PlanFill(n)
    <3>1. UNCHANGED <<cnt.queued, cnt.answered, cnt.completed, cnt.failed>>
      BY <1>0, <2>2 DEF PlanFinish, PlanWait, PlanFill, RecordPeak, Counters
    <3>. QED  BY <1>1, <2>2, <3>1 DEF PlanFinish, PlanWait, PlanFill
  <2>3. ASSUME NEW d \in Dest, Originate(d) PROVE Tallies'
    <3>1. /\ d \in batch /\ pc = "originate" /\ pc' # "book"
          /\ UNCHANGED <<cnt, status, answeredAt, ans, hup>>
          /\ job' = [job EXCEPT ![Current(d)] = "resolving"]
      BY <2>3 DEF Originate
    <3>2. Claimed(d, Current(d))
      BY <3>1 DEF Life, Waits, Dialled, Talks, Delivered, Failed, Named
    <3>3. PICK c \in Call : c = Current(d)
      BY <3>2, CurrentIsCall, ConstantsOK DEF Claimed, ConstantsOK
    <3>4. /\ \A e \in Call : e # c => job'[e] = job[e]
          /\ job[c] = "none" /\ job'[c] = "resolving"
      BY <3>1, <3>2, <3>3 DEF TypeOK, Claimed
    <3>5. Num(job', "countFailed") = Num(job, "countFailed")
      BY ONLY <3>3, <3>4, NumKept
    <3>. QED  BY <3>1, <3>5, RowsSame, TallyFrame
  <2>. QED  BY <1>4, <2>1, <2>2, <2>3, TallyClaim, TallyBook DEF Tick
<1>5. ASSUME NEW c \in Call, Handler(c) \/ Originating(c) \/ Telephone(c)
      PROVE  Tallies'
  <2>1. PICK d \in Dest, k \in 1..ClaimBound : c = <<d, k>>
    BY DEF Call
  <2>2. faults = 0
    BY FaultsGrow
  <2>. QED  BY <1>5, <2>1, <2>2, TallyHandler, TallyLine
<1>6. CASE \/ \E d \in Dest : RetryDue(d)
           \/ TimeoutElapses \/ PauseCampaign \/ ResumeCampaign
           \/ CancelCampaign \/ Restart
  BY <1>1, <1>6
     DEF RetryDue, TimeoutElapses, PauseCampaign, ResumeCampaign,
         CancelCampaign, Restart
<1>7. ~Recovery
  BY NothingStale DEF Recovery, RecoverDialing, RecoverAnswered, SyncCounters
<1>. QED
  BY <1>2, <1>3, <1>4, <1>5, <1>6, <1>7, FaultsGrow DEF Next, Operator

LEMMA CountAlways == Spec => []CountInv
<1>1. Init => CountInv
  <2>. SUFFICES ASSUME Init PROVE Tallies
    BY DEF CountInv
  <2>1. /\ Num(hup, "countRetry") = 0 /\ Num(hup, "countCompleted") = 0
        /\ Num(hup, "countFailed") = 0 /\ Num(ans, "count") = 0
        /\ Num(job, "countFailed") = 0
    <3>1. \A s \in {"countRetry", "countCompleted", "countFailed", "count"} :
            /\ {c \in Call : hup[c] = s} = {} /\ {c \in Call : ans[c] = s} = {}
            /\ {c \in Call : job[c] = s} = {}
      BY DEF Init
    <3>. QED  BY <3>1, FS_EmptySet DEF Num
  <2>2. /\ InStatus("queued") = Dest /\ InStatus("completed") = {}
        /\ InStatus("failed") = {} /\ answeredAt = {}
    BY DEF Init, InStatus
  <2>3. /\ cnt.queued = Cardinality(Dest) /\ cnt.answered = 0
        /\ cnt.completed = 0 /\ cnt.failed = 0 /\ pc # "book"
    BY DEF Init
  <2>4. Cardinality(Dest) \in Nat /\ Cardinality({}) = 0
    BY ConstantsOK, FS_EmptySet, FS_CardinalityType DEF ConstantsOK
  <2>. QED  BY <2>1, <2>2, <2>3, <2>4 DEF Tallies, Rows
<1>2. TypeOK /\ Calm /\ CountInv /\ [Next]_vars => CountInv'
  <2>. SUFFICES ASSUME TypeOK, Calm, CountInv, [Next]_vars, faults' = 0
                PROVE  Tallies'
    BY DEF CountInv
  <2>1. /\ Tallies /\ pc # "down" /\ rec = "off"
        /\ \A d \in Dest : Life(d)
    BY FaultsGrow DEF CountInv, Calm
  <2>. QED  BY <2>1, TallyStep
<1>. QED  BY <1>1, <1>2, TypeCorrect, CalmAlways, PTL DEF Spec

\* The statements that count by one leave no row out: at rest, and while no
\* message is lost, the counters of answered and completed rows are a recount, and
\* those of queued and failed rows are not below one (campaignEngine.js:529-530,
\* 608-609, 644, 670-672, 701-702).
THEOREM CountersHold == Spec => []CountersCover
<1>1. TypeOK /\ CountInv => CountersCover
  <2>. SUFFICES ASSUME TypeOK, Tallies, Settled
                PROVE  /\ cnt.answered  = Cardinality(answeredAt)
                       /\ cnt.completed = Rows("completed")
                       /\ cnt.failed   >= Rows("failed")
                       /\ cnt.queued   >= Rows("queued")
    BY DEF CountInv, CountersCover, FaultFree, Rows
  <2>1. \A c \in Call : /\ ans[c] \in {"none", "done"}
                        /\ hup[c] \in {"none", "done"}
                        /\ job[c] \in {"none", "done"}
    BY DEF Settled, Quiet, Call
  <2>2. \A s \in {"countRetry", "countCompleted", "countFailed", "count"} :
          /\ {c \in Call : hup[c] = s} = {} /\ {c \in Call : ans[c] = s} = {}
          /\ {c \in Call : job[c] = s} = {}
    BY <2>1
  <2>3. /\ Num(hup, "countRetry") = 0 /\ Num(hup, "countCompleted") = 0
        /\ Num(hup, "countFailed") = 0 /\ Num(ans, "count") = 0
        /\ Num(job, "countFailed") = 0
    BY <2>2, FS_EmptySet DEF Num
  <2>4. /\ cnt.queued \in Nat /\ cnt.answered \in Nat /\ cnt.completed \in Nat
        /\ cnt.failed \in Nat /\ Rows("queued") \in Nat
        /\ Rows("completed") \in Nat /\ Rows("failed") \in Nat
        /\ Cardinality(answeredAt) \in Nat
    BY CountsInNat, RowsFinite DEF TypeOK, Counters, Rows
  <2>5. pc # "book"
    BY DEF Settled
  <2>. QED  BY ONLY Tallies, <2>3, <2>4, <2>5 DEF Tallies
<1>. QED  BY <1>1, TypeCorrect, CountAlways, PTL
=============================================================================
