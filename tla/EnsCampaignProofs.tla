------------------------- MODULE EnsCampaignProofs -------------------------
(***************************************************************************)
(* Theorems about EnsCampaign, for any number of destinations and every    *)
(* value of the other constants: with or without lost messages, crashes,   *)
(* timeouts and cancellation.                                              *)
(***************************************************************************)
EXTENDS EnsCampaign, FiniteSetTheorems, TLAPS

\* Every set of rows is finite.
LEMMA RowsFinite ==
  ASSUME NEW S \in SUBSET Dest
  PROVE  IsFiniteSet(S) /\ Cardinality(S) \in Nat
BY ConstantsOK, FS_Subset, FS_CardinalityType DEF ConstantsOK

\* The rows of a status, and the unions that the statements count.
LEMMA CountsInNat ==
  /\ \A s : InStatus(s) \in SUBSET Dest /\ Cardinality(InStatus(s)) \in Nat
  /\ InFlight \in SUBSET Dest /\ Cardinality(InFlight) \in Nat
  /\ Cardinality(Ready) \in Nat
  /\ Cardinality(Pending) \in Nat
<1>1. /\ \A s : InStatus(s) \in SUBSET Dest
      /\ InFlight \in SUBSET Dest
      /\ Ready \in SUBSET Dest
      /\ Pending \in SUBSET Dest
  BY DEF InStatus, InFlight, Ready, Pending
<1>. QED  BY <1>1, RowsFinite

\* The clamped decrement stays a natural number.
LEMMA MinusNat ==
  ASSUME NEW x \in Nat, NEW n \in Nat
  PROVE  Minus(x, n) \in Nat
BY DEF Minus

LEMMA TypeInit == Init => TypeOK
<1>. SUFFICES ASSUME Init PROVE TypeOK
  OBVIOUS
<1>1. Cardinality(Dest) \in Nat
  BY RowsFinite
<1>2. cnt \in Counters /\ obs \in Observed
  BY <1>1 DEF Init, Counters, Observed, NoCounts
<1>3. 0 \in 0..ClaimBound /\ 0 \in 0..FaultBound
  BY ConstantsOK DEF ConstantsOK
<1>. QED
  BY <1>2, <1>3 DEF Init, TypeOK, CampStatus, DestStatus

LEMMA TypeTick == TypeOK /\ Tick => TypeOK'
<1>. SUFFICES ASSUME TypeOK, Tick PROVE TypeOK'
  OBVIOUS
<1>. USE DEF TypeOK, campVars, rowVars, tickVars, callVars, NoCounts, Observed,
             CampStatus
<1>1. CASE SelectCampaign
  BY <1>1 DEF SelectCampaign
<1>2. CASE StartCampaign
  BY <1>2 DEF StartCampaign
<1>3. CASE ExpireRows
  BY <1>3 DEF ExpireRows, DestStatus
<1>4. CASE ExpireCampaign
  BY <1>4 DEF ExpireCampaign
<1>5. CASE CountRows
  BY <1>5, CountsInNat DEF CountRows
<1>6. CASE PlanFinish
  BY <1>6 DEF PlanFinish, RecordPeak, Counters
<1>7. CASE PlanWait
  BY <1>7 DEF PlanWait, RecordPeak, Counters
<1>8. ASSUME NEW n \in 1..BatchSize, PlanFill(n) PROVE TypeOK'
  BY <1>8, ConstantsOK DEF PlanFill, RecordPeak, Counters, ConstantsOK
<1>9. CASE CompleteCampaign
  BY <1>9 DEF CompleteCampaign
<1>10. CASE SynthesizeMedia
  BY <1>10 DEF SynthesizeMedia
<1>11. CASE SynthesisFails
  BY <1>11 DEF SynthesisFails
<1>12. ASSUME NEW S \in SUBSET Dest, ClaimRows(S) PROVE TypeOK'
  <2>1. status' \in [Dest -> DestStatus]
    BY <1>12 DEF ClaimRows, DestStatus
  <2>2. attempts' \in [Dest -> 0..ClaimBound]
    BY <1>12, ConstantsOK DEF ClaimRows, ConstantsOK
  <2>3. uuid' \in [Dest -> 0..ClaimBound]
    BY <1>12, ConstantsOK DEF ClaimRows, ConstantsOK
  <2>. QED  BY <1>12, <2>1, <2>2, <2>3 DEF ClaimRows
<1>13. CASE BookClaim
  <2>1. Cardinality(batch) \in Nat
    BY RowsFinite
  <2>2. cnt.queued \in Nat /\ cnt.dialing \in Nat
    BY DEF Counters
  <2>3. Minus(cnt.queued, Cardinality(batch)) \in Nat
    BY <2>1, <2>2, MinusNat
  <2>4. cnt.dialing + Cardinality(batch) \in Nat
    BY <2>1, <2>2
  <2>5. cnt' \in Counters
    BY <1>13, <2>3, <2>4 DEF BookClaim, Counters
  <2>. QED  BY <1>13, <2>5 DEF BookClaim
<1>14. ASSUME NEW d \in Dest, Originate(d) PROVE TypeOK'
  BY <1>14 DEF Originate, Current
<1>. QED
  BY <1>1, <1>2, <1>3, <1>4, <1>5, <1>6, <1>7, <1>8, <1>9, <1>10, <1>11, <1>12,
     <1>13, <1>14
     DEF Tick

LEMMA TypeHandler ==
  ASSUME TypeOK, NEW c \in Call, Handler(c)
  PROVE  TypeOK'
<1>. USE DEF TypeOK, campVars, rowVars, tickVars, callVars, DestStatus, Set
<1>1. c[1] \in Dest /\ c[2] \in 1..ClaimBound
  BY DEF Call
<1>2. /\ cnt.queued + 1 \in Nat /\ cnt.answered + 1 \in Nat
      /\ cnt.completed + 1 \in Nat /\ cnt.failed + 1 \in Nat
      /\ cnt.retried + 1 \in Nat
      /\ Minus(cnt.dialing, 1) \in Nat
  <2>1. /\ cnt.queued \in Nat /\ cnt.answered \in Nat /\ cnt.dialing \in Nat
        /\ cnt.completed \in Nat /\ cnt.failed \in Nat /\ cnt.retried \in Nat
    BY DEF Counters
  <2>2. Minus(cnt.dialing, 1) \in Nat
    BY <2>1 DEF Minus
  <2>. QED  BY <2>1, <2>2
<1>3. 0 \in 0..ClaimBound
  BY ConstantsOK DEF ConstantsOK
<1>4. CASE AnswerRow(c)
  BY <1>1, <1>4 DEF AnswerRow
<1>5. CASE AnswerCount(c)
  <2>1. cnt' \in Counters
    BY <1>2, <1>5 DEF AnswerCount, Counters
  <2>. QED  BY <1>5, <2>1 DEF AnswerCount
<1>6. CASE HangupRead(c)
  BY <1>6 DEF HangupRead, EngineUnchanged
<1>7. CASE HangupComplete(c)
  BY <1>1, <1>7 DEF HangupComplete
<1>8. CASE HangupRetry(c)
  BY <1>1, <1>3, <1>8 DEF HangupRetry
<1>9. CASE HangupFail(c)
  BY <1>1, <1>3, <1>9 DEF HangupFail, FailRow
<1>10. CASE HangupCount(c)
  <2>1. ASSUME hup[c] = "countCompleted" PROVE cnt' \in Counters
    BY <1>2, <1>10, <2>1 DEF HangupCount, Counters
  <2>2. ASSUME hup[c] = "countRetry" PROVE cnt' \in Counters
    BY <1>2, <1>10, <2>2 DEF HangupCount, Counters
  <2>3. ASSUME hup[c] = "countFailed" PROVE cnt' \in Counters
    BY <1>2, <1>10, <2>3 DEF HangupCount, Counters
  <2>4. cnt' \in Counters
    BY <1>10, <2>1, <2>2, <2>3 DEF HangupCount
  <2>. QED  BY <1>10, <2>4 DEF HangupCount, Counted
<1>11. CASE JobFail(c)
  BY <1>1, <1>3, <1>11 DEF JobFail, FailRow
<1>12. CASE JobCount(c)
  <2>1. cnt' \in Counters
    BY <1>2, <1>12 DEF JobCount, Counters
  <2>. QED  BY <1>12, <2>1 DEF JobCount, Counted
<1>. QED
  BY <1>4, <1>5, <1>6, <1>7, <1>8, <1>9, <1>10, <1>11, <1>12 DEF Handler

LEMMA TypeLine ==
  ASSUME TypeOK, NEW c \in Call, Originating(c) \/ Telephone(c)
  PROVE  TypeOK'
<1>. USE DEF TypeOK, campVars, rowVars, tickVars, EngineUnchanged, Set
<1>1. ASSUME NEW b \in BOOLEAN, Losing(b) PROVE faults' \in 0..FaultBound
  BY <1>1, ConstantsOK DEF Losing, ConstantsOK
<1>2. CASE FsRing(c)
  BY <1>2 DEF FsRing
<1>3. CASE DispatchRejected(c)
  BY <1>3 DEF DispatchRejected
<1>4. CASE ReplyTimeout(c)
  BY <1>4 DEF ReplyTimeout
<1>5. CASE FsAnswer(c)
  <2>1. PICK event \in {"sent", "done"}, reply \in {"done", job[c]} :
          /\ Losing(event = "done" \/ reply = "sent")
          /\ ans' = Set(ans, c, event)
          /\ job' = Set(job, c, reply)
    BY <1>5 DEF FsAnswer
  <2>2. faults' \in 0..FaultBound
    BY <1>1, <2>1
  <2>. QED  BY <1>5, <2>1, <2>2 DEF FsAnswer
<1>6. CASE FsHangup(c)
  <2>1. PICK event \in {"sent", "done"}, reply \in {"done", "rejected", "sent", job[c]},
             lost \in BOOLEAN :
          /\ Losing(lost)
          /\ hup' = Set(hup, c, event)
          /\ job' = Set(job, c, reply)
    BY <1>6 DEF FsHangup
  <2>2. faults' \in 0..FaultBound
    BY <1>1, <2>1
  <2>. QED  BY <1>6, <2>1, <2>2 DEF FsHangup
<1>. QED
  BY <1>2, <1>3, <1>4, <1>5, <1>6 DEF Originating, Telephone

LEMMA TypeRest ==
  ASSUME TypeOK,
         \/ \E d \in Dest : RetryDue(d)
         \/ TimeoutElapses \/ Recovery \/ Operator
         \/ DispatchThrows \/ Crash \/ Restart
  PROVE  TypeOK'
<1>. USE DEF TypeOK, campVars, rowVars, tickVars, callVars, DestStatus
<1>1. ASSUME NEW d \in Dest, RetryDue(d) PROVE TypeOK'
  BY <1>1 DEF RetryDue
<1>2. CASE TimeoutElapses
  BY <1>2 DEF TimeoutElapses
<1>3. ASSUME NEW S \in SUBSET Dest, RecoverDialing(S) PROVE TypeOK'
  <2>1. uuid' \in [Dest -> 0..ClaimBound]
    BY <1>3, ConstantsOK DEF RecoverDialing, ConstantsOK
  <2>. QED  BY <1>3, <2>1 DEF RecoverDialing
<1>4. ASSUME NEW S \in SUBSET Dest, RecoverAnswered(S) PROVE TypeOK'
  <2>1. uuid' \in [Dest -> 0..ClaimBound]
    BY <1>4, ConstantsOK DEF RecoverAnswered, ConstantsOK
  <2>. QED  BY <1>4, <2>1 DEF RecoverAnswered
<1>5. CASE SyncCounters
  <2>1. Cardinality(answeredAt) \in Nat
    BY RowsFinite
  <2>2. cnt' \in Counters
    BY <1>5, <2>1, CountsInNat DEF SyncCounters, Counters
  <2>. QED  BY <1>5, <2>2 DEF SyncCounters
<1>6. CASE PauseCampaign
  BY <1>6 DEF PauseCampaign, CampStatus
<1>7. CASE ResumeCampaign
  BY <1>7 DEF ResumeCampaign, CampStatus
<1>8. CASE CancelRows
  BY <1>8 DEF CancelRows
<1>9. CASE CancelCampaign
  BY <1>9 DEF CancelCampaign, CampStatus
<1>10. CASE DispatchThrows
  BY <1>10, ConstantsOK DEF DispatchThrows, ConstantsOK
<1>11. CASE Crash
  <2>1. faults' \in 0..FaultBound
    BY <1>11, ConstantsOK DEF Crash, ConstantsOK
  <2>2. obs' \in Observed
    BY <1>11 DEF Crash, NoCounts, Observed
  <2>3. /\ ans' \in [Call -> {"none", "sent", "count", "done"}]
        /\ hup' \in [Call -> {"none", "sent", "complete", "retry", "fail",
                             "countCompleted", "countRetry", "countFailed", "done"}]
        /\ job' \in [Call -> {"none", "resolving", "sent", "rejected",
                             "countFailed", "done"}]
    BY <1>11 DEF Crash, Forget
  <2>. QED  BY <1>11, <2>1, <2>2, <2>3 DEF Crash
<1>12. CASE Restart
  BY <1>12 DEF Restart
<1>. QED
  BY <1>1, <1>2, <1>3, <1>4, <1>5, <1>6, <1>7, <1>8, <1>9, <1>10, <1>11, <1>12
     DEF Recovery, Operator

LEMMA TypeStep == TypeOK /\ [Next]_vars => TypeOK'
<1>. SUFFICES ASSUME TypeOK, [Next]_vars PROVE TypeOK'
  OBVIOUS
<1>1. CASE UNCHANGED vars
  BY <1>1 DEF vars, campVars, rowVars, tickVars, callVars, TypeOK
<1>2. CASE Next
  BY <1>2, TypeTick, TypeHandler, TypeLine, TypeRest DEF Next
<1>. QED  BY <1>1, <1>2

\* The rows, the campaign and every program counter keep their types.
THEOREM TypeCorrect == Spec => []TypeOK
BY TypeInit, TypeStep, PTL DEF Spec

----------------------------------------------------------------------------
(* The concurrency limit.                                                   *)

Limit == SlotsReserved /\ ConcurrencyLimit

\* A step that puts no row in flight can only lower the number of those rows.
LEMMA FewerInFlight ==
  ASSUME InFlight' \subseteq InFlight
  PROVE  /\ Cardinality(InFlight) \in Nat
         /\ Cardinality(InFlight') \in Nat
         /\ Cardinality(InFlight') <= Cardinality(InFlight)
<1>1. InFlight \in SUBSET Dest
  BY CountsInNat
<1>2. IsFiniteSet(InFlight) /\ Cardinality(InFlight) \in Nat
  BY <1>1, RowsFinite
<1>. QED  BY <1>2, FS_Subset, FS_CardinalityType

\* Outside the tick no step puts a row in flight or touches the plan.
LEMMA HandlersRelease ==
  ASSUME TypeOK,
         \/ \E c \in Call : Handler(c) \/ Originating(c) \/ Telephone(c)
         \/ \E d \in Dest : RetryDue(d)
         \/ TimeoutElapses \/ Recovery \/ Operator
  PROVE  /\ InFlight' \subseteq InFlight
         /\ UNCHANGED <<pc, obs, slots, peak>>
<1>. USE DEF campVars, rowVars, tickVars, callVars, InFlight, InStatus, Set,
             EngineUnchanged
<1>1. ASSUME NEW c \in Call, Handler(c)
      PROVE  InFlight' \subseteq InFlight /\ UNCHANGED <<pc, obs, slots, peak>>
  <2>. c[1] \in Dest /\ status \in [Dest -> DestStatus]
    BY DEF Call, TypeOK
  <2>1. CASE AnswerRow(c)
    BY <2>1 DEF AnswerRow
  <2>2. CASE HangupComplete(c)
    BY <2>2 DEF HangupComplete
  <2>3. CASE HangupRetry(c)
    BY <2>3 DEF HangupRetry
  <2>4. CASE HangupFail(c)
    BY <2>4 DEF HangupFail, FailRow
  <2>5. CASE JobFail(c)
    BY <2>5 DEF JobFail, FailRow
  <2>6. CASE AnswerCount(c) \/ HangupRead(c) \/ HangupCount(c) \/ JobCount(c)
    BY <2>6 DEF AnswerCount, HangupRead, HangupCount, JobCount, Counted
  <2>. QED
    BY <1>1, <2>1, <2>2, <2>3, <2>4, <2>5, <2>6 DEF Handler
<1>2. ASSUME NEW c \in Call, Originating(c) \/ Telephone(c)
      PROVE  InFlight' \subseteq InFlight /\ UNCHANGED <<pc, obs, slots, peak>>
  BY <1>2 DEF Originating, Telephone, FsRing, DispatchRejected, ReplyTimeout,
              FsAnswer, FsHangup
<1>3. ASSUME NEW d \in Dest, RetryDue(d)
      PROVE  InFlight' \subseteq InFlight /\ UNCHANGED <<pc, obs, slots, peak>>
  BY <1>3 DEF RetryDue
<1>4. CASE TimeoutElapses
  BY <1>4 DEF TimeoutElapses
<1>5. CASE Recovery
  BY <1>5 DEF Recovery, RecoverDialing, RecoverAnswered, SyncCounters
<1>6. CASE Operator
  BY <1>6 DEF Operator, PauseCampaign, ResumeCampaign, CancelRows,
              CancelCampaign
<1>. QED  BY <1>1, <1>2, <1>3, <1>4, <1>5, <1>6

LEMMA LimitStep == TypeOK /\ Limit /\ [Next]_vars => Limit'
<1>. SUFFICES ASSUME TypeOK, Limit, [Next]_vars PROVE Limit'
  OBVIOUS
<1>. USE DEF Limit, SlotsReserved, ConcurrencyLimit
<1>0. /\ MaxConcurrent \in Nat /\ peak \in Nat /\ slots \in Nat
      /\ obs.dialing \in Nat
      /\ Cardinality(InFlight) \in Nat
  BY ConstantsOK, CountsInNat DEF ConstantsOK, TypeOK, Observed
<1>1. ASSUME InFlight' \subseteq InFlight, UNCHANGED <<pc, obs, slots, peak>>
      PROVE  Limit'
  BY <1>0, <1>1, FewerInFlight
<1>2. ASSUME InFlight' \subseteq InFlight, peak' \in {peak, obs.dialing},
             peak' = peak \/ pc = "plan",
             pc' \notin {"plan", "media", "claim"}
      PROVE  Limit'
  BY <1>0, <1>2, FewerInFlight
<1>3. CASE UNCHANGED vars
  BY <1>1, <1>3 DEF vars, campVars, rowVars, tickVars, InFlight, InStatus
<1>4. CASE \/ \E c \in Call : Handler(c) \/ Originating(c) \/ Telephone(c)
           \/ \E d \in Dest : RetryDue(d)
           \/ TimeoutElapses \/ Recovery \/ Operator
  BY <1>1, <1>4, HandlersRelease
<1>5. CASE DispatchThrows \/ Crash \/ Restart
  BY <1>2, <1>5 DEF DispatchThrows, Crash, Restart, campVars, rowVars,
                    InFlight, InStatus
<1>6. CASE Tick
  <2>. USE DEF campVars, rowVars, InFlight, InStatus
  <2>1. CASE \/ SelectCampaign \/ StartCampaign \/ ExpireRows \/ ExpireCampaign
             \/ CompleteCampaign \/ SynthesisFails \/ BookClaim
             \/ \E d \in Dest : Originate(d)
    BY <1>2, <2>1
       DEF SelectCampaign, StartCampaign, ExpireRows, ExpireCampaign,
           CompleteCampaign, SynthesisFails, BookClaim, Originate
  <2>2. CASE CountRows
    BY <1>0, <2>2 DEF CountRows
  <2>3. CASE PlanFinish \/ PlanWait
    BY <1>2, <2>3 DEF PlanFinish, PlanWait, RecordPeak
  <2>4. ASSUME NEW n \in 1..BatchSize, PlanFill(n) PROVE Limit'
    <3>1. n \in Nat
      BY ConstantsOK DEF ConstantsOK
    <3>2. InFlight' = InFlight
      BY <2>4 DEF PlanFill
    <3>3. peak' \in {peak, obs.dialing}
      BY <2>4 DEF PlanFill, RecordPeak
    <3>4. /\ pc = "plan" /\ n <= MaxConcurrent - obs.dialing
          /\ slots' = n /\ pc' \in {"media", "claim"}
      BY <2>4 DEF PlanFill, FreeSlots
    <3>5. Cardinality(InFlight') + slots' <= MaxConcurrent
      BY <1>0, <3>1, <3>2, <3>4
    <3>. QED  BY <1>0, <3>2, <3>3, <3>4, <3>5
  <2>5. CASE SynthesizeMedia
    BY <1>0, <2>5 DEF SynthesizeMedia
  <2>6. ASSUME NEW S \in SUBSET Dest, ClaimRows(S) PROVE Limit'
    <3>1. InFlight' \subseteq InFlight \cup S
      BY <2>6 DEF ClaimRows
    <3>2. Cardinality(S) <= slots
      BY <2>6, <1>0 DEF ClaimRows
    <3>3. /\ IsFiniteSet(S) /\ Cardinality(S) \in Nat
          /\ IsFiniteSet(InFlight)
      BY RowsFinite, CountsInNat
    <3>4. /\ IsFiniteSet(InFlight \cup S)
          /\ Cardinality(InFlight \cup S) \in Nat
          /\ Cardinality(InFlight \cup S)
               <= Cardinality(InFlight) + Cardinality(S)
      <4>1. /\ IsFiniteSet(InFlight \cup S)
            /\ Cardinality(InFlight \cup S)
                 = Cardinality(InFlight) + Cardinality(S)
                     - Cardinality(InFlight \cap S)
        BY <3>3, FS_Union
      <4>2. Cardinality(InFlight \cap S) \in Nat
        BY RowsFinite
      <4>. QED  BY <1>0, <3>3, <4>1, <4>2, FS_CardinalityType
    <3>5. /\ Cardinality(InFlight') \in Nat
          /\ Cardinality(InFlight') <= Cardinality(InFlight \cup S)
      BY <3>1, <3>4, FS_Subset, FS_CardinalityType
    <3>6. /\ pc = "claim" /\ pc' \in {"idle", "book"} /\ peak' = peak
      BY <2>6 DEF ClaimRows
    <3>7. Cardinality(InFlight') <= MaxConcurrent
      BY <1>0, <3>2, <3>3, <3>4, <3>5, <3>6
    <3>. QED  BY <3>6, <3>7
  <2>. QED
    BY <1>6, <2>1, <2>2, <2>3, <2>4, <2>5, <2>6 DEF Tick
<1>. QED  BY <1>3, <1>4, <1>5, <1>6 DEF Next

LEMMA LimitAlways == Spec => []Limit
<1>1. Init => Limit
  <2>. SUFFICES ASSUME Init PROVE Limit
    OBVIOUS
  <2>1. InFlight = {}
    BY DEF Init, InFlight, InStatus
  <2>2. Cardinality(InFlight) = 0
    BY <2>1, FS_EmptySet
  <2>. QED
    BY <2>2, ConstantsOK
       DEF Init, Limit, SlotsReserved, ConcurrencyLimit, ConstantsOK
<1>. QED  BY <1>1, LimitStep, TypeCorrect, PTL DEF Spec

\* A campaign never has more than max_concurrent rows in flight, and never
\* records a higher peak: the tick's count stays an upper bound until its
\* claim, whatever handlers, recovery, operators and crashes do in between.
THEOREM LimitHolds == Spec => []ConcurrencyLimit
<1>1. Limit => ConcurrencyLimit
  BY DEF Limit
<1>. QED  BY <1>1, LimitAlways, PTL

----------------------------------------------------------------------------
(* Claims: UUIDs and retries.                                               *)

Claims == ClaimedOnce /\ UuidNamesCurrentAttempt

\* The variables that Claims speaks of.
claimVars == <<status, attempts, uuid, batch, hup>>

LEMMA ClaimsFrame ==
  ASSUME Claims, UNCHANGED claimVars
  PROVE  Claims'
BY DEF Claims, ClaimedOnce, UuidNamesCurrentAttempt, claimVars

LEMMA ClaimsTick == TypeOK /\ Claims /\ Tick => Claims'
<1>. SUFFICES ASSUME TypeOK, Claims, Tick PROVE Claims'
  OBVIOUS
<1>. USE DEF campVars, rowVars, callVars
<1>1. CASE \/ SelectCampaign \/ StartCampaign \/ ExpireCampaign \/ CountRows
           \/ PlanFinish \/ PlanWait \/ (\E n \in 1..BatchSize : PlanFill(n))
           \/ CompleteCampaign \/ SynthesizeMedia \/ SynthesisFails \/ BookClaim
  BY <1>1, ClaimsFrame
     DEF SelectCampaign, StartCampaign, ExpireCampaign, CountRows, PlanFinish,
         PlanWait, PlanFill, CompleteCampaign, SynthesizeMedia, SynthesisFails,
         BookClaim, claimVars
<1>2. CASE ExpireRows
  <2>1. /\ UNCHANGED <<attempts, uuid, batch, hup>>
        /\ \A d \in Dest : status'[d] = status[d] \/ status[d] = "queued"
        /\ \A d \in Dest : status'[d] = "queued" => status[d] = "queued"
        /\ \A d \in Dest : status'[d] # "queued"
    BY <1>2 DEF ExpireRows, TypeOK
  <2>2. batch \subseteq Dest
    BY DEF TypeOK
  <2>. QED
    BY <2>1, <2>2 DEF Claims, ClaimedOnce, UuidNamesCurrentAttempt
<1>3. ASSUME NEW S \in SUBSET Dest, ClaimRows(S) PROVE Claims'
  <2>. USE DEF Claims, ClaimedOnce, UuidNamesCurrentAttempt
  <2>1. /\ \A d \in S : status[d] = "queued"
        /\ \A d \in Dest : /\ status'[d] = IF d \in S THEN "dialing" ELSE status[d]
                           /\ attempts'[d] = IF d \in S THEN attempts[d] + 1
                                                        ELSE attempts[d]
                           /\ uuid'[d] = IF d \in S THEN 0 ELSE uuid[d]
        /\ batch' = S
        /\ UNCHANGED hup
    BY <1>3 DEF ClaimRows, Ready, InStatus
  <2>4. /\ \A d \in Dest : uuid'[d] # 0 => status'[d] # "queued"
        /\ \A d \in batch' : status'[d] # "queued" /\ uuid'[d] = 0
        /\ \A d \in Dest : uuid'[d] # 0 => uuid'[d] = attempts'[d]
    BY <2>1
  <2>5. \A d \in Dest, k \in 1..ClaimBound :
          hup'[<<d, k>>] = "retry" => /\ k = attempts'[d]
                                      /\ status'[d] # "queued" /\ d \notin batch'
                                      /\ attempts'[d] < MaxAttempts
    BY <2>1
  <2>. QED  BY <2>4, <2>5
<1>4. ASSUME NEW d \in Dest, Originate(d) PROVE Claims'
  <2>1. /\ d \in batch /\ batch' = batch \ {d} /\ batch \subseteq Dest
        /\ \A e \in Dest : uuid'[e] = IF e = d THEN attempts[d] ELSE uuid[e]
        /\ UNCHANGED <<status, attempts, hup>>
    BY <1>4 DEF Originate, TypeOK
  <2>. QED
    BY <2>1 DEF Claims, ClaimedOnce, UuidNamesCurrentAttempt
<1>. QED  BY <1>1, <1>2, <1>3, <1>4 DEF Tick

\* A row that a handler takes out of flight and strips of its UUID.
LEMMA ClaimsRowWritten ==
  ASSUME TypeOK, Claims, NEW c \in Call,
         \A d \in Dest : d # c[1] => status'[d] = status[d] /\ uuid'[d] = uuid[d],
         uuid'[c[1]] \in {0, uuid[c[1]]},
         status'[c[1]] # "queued",
         \A e \in Call : hup'[e] = "retry" => hup[e] = "retry",
         UNCHANGED <<attempts, batch>>
  PROVE  Claims'
<1>1. \A d \in Dest, k \in 1..ClaimBound : <<d, k>> \in Call
  BY DEF Call
<1>2. batch \subseteq Dest
  BY DEF TypeOK
<1>. QED
  BY <1>1, <1>2
     DEF Claims, ClaimedOnce, UuidNamesCurrentAttempt

LEMMA ClaimsHandler ==
  ASSUME TypeOK, Claims, NEW c \in Call, Handler(c)
  PROVE  Claims'
<1>. USE DEF campVars, rowVars, tickVars, callVars, Set, EngineUnchanged
<1>0. /\ c[1] \in Dest /\ c[2] \in 1..ClaimBound /\ c = <<c[1], c[2]>>
      /\ status \in [Dest -> DestStatus] /\ uuid \in [Dest -> 0..ClaimBound]
      /\ hup \in [Call -> {"none", "sent", "complete", "retry", "fail",
                           "countCompleted", "countRetry", "countFailed", "done"}]
  BY DEF Call, TypeOK
<1>1. CASE AnswerRow(c)
  <2>1. CASE ans' = [ans EXCEPT ![c] = "count"] /\ status' = [status EXCEPT ![c[1]] = "answered"]
    BY <1>0, <1>1, <2>1, ClaimsRowWritten DEF AnswerRow
  <2>2. CASE status' = status
    BY <1>1, <2>2, ClaimsFrame DEF AnswerRow, claimVars
  <2>. QED  BY <1>1, <2>1, <2>2 DEF AnswerRow
<1>2. CASE AnswerCount(c) \/ JobCount(c)
  BY <1>2, ClaimsFrame DEF AnswerCount, JobCount, Counted, claimVars
<1>3. CASE HangupRead(c)
  <2>1. /\ UNCHANGED <<status, attempts, uuid, batch>>
        /\ \A e \in Call : e # c => hup'[e] = hup[e]
        /\ hup'[c] = "retry" => uuid[c[1]] = c[2] /\ attempts[c[1]] < MaxAttempts
    BY <1>0, <1>3 DEF HangupRead, Names, MayRetry
  <2>2. c[2] # 0
    BY <1>0, ConstantsOK DEF ConstantsOK
  <2>3. \A d \in Dest, k \in 1..ClaimBound :
          <<d, k>> \in Call /\ (<<d, k>> = c => d = c[1] /\ k = c[2])
    BY <1>0 DEF Call
  <2>4. hup'[c] = "retry" => /\ c[2] = attempts[c[1]] /\ status[c[1]] # "queued"
                             /\ c[1] \notin batch /\ attempts[c[1]] < MaxAttempts
    BY <1>0, <2>1, <2>2 DEF Claims, ClaimedOnce, UuidNamesCurrentAttempt
  <2>5. \A d \in Dest, k \in 1..ClaimBound :
          hup'[<<d, k>>] = "retry" => /\ k = attempts[d] /\ status[d] # "queued"
                                      /\ d \notin batch /\ attempts[d] < MaxAttempts
    BY <2>1, <2>3, <2>4 DEF Claims, ClaimedOnce
  <2>. QED
    BY <2>1, <2>5
       DEF Claims, ClaimedOnce, UuidNamesCurrentAttempt
<1>4. CASE HangupComplete(c)
  BY <1>0, <1>4, ClaimsRowWritten DEF HangupComplete
<1>5. CASE HangupRetry(c)
  <2>1. /\ hup[c] = "retry"
        /\ \A d \in Dest : /\ status'[d] = IF d = c[1] THEN "queued" ELSE status[d]
                           /\ uuid'[d] = IF d = c[1] THEN 0 ELSE uuid[d]
        /\ \A e \in Call : hup'[e] = IF e = c THEN "countRetry" ELSE hup[e]
        /\ UNCHANGED <<attempts, batch>>
    BY <1>0, <1>5 DEF HangupRetry
  <2>2. c[2] = attempts[c[1]] /\ attempts[c[1]] < MaxAttempts /\ c[1] \notin batch
    BY <1>0, <2>1 DEF Claims, ClaimedOnce
  <2>4. \A d \in Dest, k \in 1..ClaimBound :
          /\ <<d, k>> \in Call
          /\ <<d, k>> = c <=> d = c[1] /\ k = c[2]
    BY <1>0 DEF Call
  <2>5. \A d \in Dest, k \in 1..ClaimBound :
          hup'[<<d, k>>] = "retry" => hup[<<d, k>>] = "retry" /\ d # c[1]
    BY <2>1, <2>2, <2>4 DEF Claims, ClaimedOnce
  <2>6. batch \subseteq Dest
    BY DEF TypeOK
  <2>. QED
    BY <1>0, <2>1, <2>2, <2>5, <2>6
       DEF Claims, ClaimedOnce, UuidNamesCurrentAttempt
<1>6. CASE HangupFail(c)
  BY <1>0, <1>6, ClaimsRowWritten DEF HangupFail, FailRow
<1>7. CASE HangupCount(c)
  <2>1. /\ \A e \in Call : hup'[e] = IF e = c THEN "done" ELSE hup[e]
        /\ UNCHANGED <<status, attempts, uuid, batch>>
    BY <1>0, <1>7 DEF HangupCount, Counted
  <2>2. \A d \in Dest, k \in 1..ClaimBound : <<d, k>> \in Call
    BY DEF Call
  <2>. QED
    BY <2>1, <2>2
       DEF Claims, ClaimedOnce, UuidNamesCurrentAttempt
<1>8. CASE JobFail(c)
  BY <1>0, <1>8, ClaimsRowWritten DEF JobFail, FailRow
<1>. QED
  BY <1>1, <1>2, <1>3, <1>4, <1>5, <1>6, <1>7, <1>8 DEF Handler

LEMMA ClaimsRest ==
  ASSUME TypeOK, Claims,
         \/ \E c \in Call : Originating(c) \/ Telephone(c)
         \/ \E d \in Dest : RetryDue(d)
         \/ TimeoutElapses \/ Recovery \/ Operator
         \/ DispatchThrows \/ Crash \/ Restart
  PROVE  Claims'
<1>. USE DEF campVars, rowVars, tickVars, callVars, EngineUnchanged
<1>0. \A d \in Dest, k \in 1..ClaimBound : <<d, k>> \in Call
  BY DEF Call
<1>1. CASE \/ \E c \in Call : FsRing(c) \/ DispatchRejected(c) \/ ReplyTimeout(c)
                              \/ FsAnswer(c)
           \/ \E d \in Dest : RetryDue(d)
           \/ TimeoutElapses \/ SyncCounters
           \/ PauseCampaign \/ ResumeCampaign \/ CancelCampaign \/ Restart
  BY <1>1, ClaimsFrame
     DEF FsRing, DispatchRejected, ReplyTimeout, FsAnswer, RetryDue,
         TimeoutElapses, SyncCounters, PauseCampaign, ResumeCampaign,
         CancelCampaign, Restart, claimVars
<1>2. ASSUME NEW c \in Call, FsHangup(c) PROVE Claims'
  <2>1. /\ \A e \in Call : hup'[e] = "retry" => hup[e] = "retry"
        /\ UNCHANGED <<status, attempts, uuid, batch>>
    BY <1>2 DEF FsHangup, Set, TypeOK
  <2>. QED
    BY <1>0, <2>1 DEF Claims, ClaimedOnce, UuidNamesCurrentAttempt
<1>3. ASSUME NEW S \in SUBSET Dest, RecoverDialing(S) PROVE Claims'
  <2>1. /\ \A d \in S : d \notin batch
        /\ \A d \in S, k \in 1..ClaimBound : hup[<<d, k>>] # "retry"
    BY <1>3 DEF RecoverDialing, StaleDialing, Quiet
  <2>2. /\ \A d \in Dest : /\ status'[d] = IF d \in S THEN "queued" ELSE status[d]
                           /\ uuid'[d] = IF d \in S THEN 0 ELSE uuid[d]
        /\ UNCHANGED <<attempts, batch, hup>>
    BY <1>3 DEF RecoverDialing
  <2>4. batch \subseteq Dest
    BY DEF TypeOK
  <2>5. /\ \A d \in Dest : uuid'[d] # 0 => status'[d] # "queued"
        /\ \A d \in batch' : status'[d] # "queued" /\ uuid'[d] = 0
        /\ \A d \in Dest, k \in 1..ClaimBound :
             hup'[<<d, k>>] = "retry" => /\ k = attempts'[d]
                                         /\ status'[d] # "queued" /\ d \notin batch'
                                         /\ attempts'[d] < MaxAttempts
        /\ \A d \in Dest : uuid'[d] # 0 => uuid'[d] = attempts'[d]
    BY <2>1, <2>2, <2>4 DEF Claims, ClaimedOnce, UuidNamesCurrentAttempt
  <2>. QED
    BY <2>5 DEF Claims, ClaimedOnce, UuidNamesCurrentAttempt
<1>4. ASSUME NEW S \in SUBSET Dest, RecoverAnswered(S) PROVE Claims'
  <2>1. /\ \A d \in Dest : /\ status'[d] = "queued" => status[d] = "queued"
                           /\ uuid'[d] \in {0, uuid[d]}
        /\ UNCHANGED <<attempts, batch, hup>>
    BY <1>4 DEF RecoverAnswered
  <2>2. batch \subseteq Dest
    BY DEF TypeOK
  <2>. QED
    BY <2>1, <2>2 DEF Claims, ClaimedOnce, UuidNamesCurrentAttempt
<1>5. CASE CancelRows
  <2>1. /\ \A d \in Dest : status'[d] # "queued"
        /\ UNCHANGED <<attempts, uuid, batch, hup>>
    BY <1>5 DEF CancelRows
  <2>2. batch \subseteq Dest
    BY DEF TypeOK
  <2>. QED
    BY <2>1, <2>2 DEF Claims, ClaimedOnce, UuidNamesCurrentAttempt
<1>6. CASE DispatchThrows
  BY <1>6 DEF DispatchThrows, Claims, ClaimedOnce, UuidNamesCurrentAttempt
<1>7. CASE Crash
  <2>1. /\ \A e \in Call : hup'[e] # "retry"
        /\ batch' = {}
        /\ UNCHANGED <<status, attempts, uuid>>
    BY <1>7 DEF Crash, Forget
  <2>. QED
    BY <1>0, <2>1 DEF Claims, ClaimedOnce, UuidNamesCurrentAttempt
<1>. QED
  BY <1>1, <1>2, <1>3, <1>4, <1>5, <1>6, <1>7
     DEF Originating, Telephone, Recovery, Operator

LEMMA ClaimsStep == TypeOK /\ Claims /\ [Next]_vars => Claims'
<1>. SUFFICES ASSUME TypeOK, Claims, [Next]_vars PROVE Claims'
  OBVIOUS
<1>1. CASE UNCHANGED vars
  BY <1>1, ClaimsFrame DEF vars, rowVars, tickVars, callVars, claimVars
<1>2. CASE Next
  BY <1>2, ClaimsTick, ClaimsHandler, ClaimsRest DEF Next
<1>. QED  BY <1>1, <1>2

LEMMA ClaimsAlways == Spec => []Claims
<1>1. Init => Claims
  <2>. SUFFICES ASSUME Init PROVE Claims
    OBVIOUS
  <2>1. \A d \in Dest : /\ uuid[d] = 0 /\ attempts[d] = 0
                        /\ \A k \in 1..ClaimBound : hup[<<d, k>>] = "none"
    BY DEF Init, Call
  <2>2. batch = {}
    BY DEF Init
  <2>3. MaxAttempts \in Nat /\ 0 < MaxAttempts
    BY ConstantsOK DEF ConstantsOK
  <2>. QED
    BY <2>1, <2>2, <2>3
       DEF Claims, ClaimedOnce, UuidNamesCurrentAttempt
<1>. QED  BY <1>1, ClaimsStep, TypeCorrect, PTL DEF Spec

\* call_uuid names the latest attempt or nothing: the events of an older call
\* never select a row that was claimed again.
THEOREM UuidHolds == Spec => []UuidNamesCurrentAttempt
<1>1. Claims => UuidNamesCurrentAttempt
  BY DEF Claims
<1>. QED  BY <1>1, ClaimsAlways, PTL

----------------------------------------------------------------------------
(* Calls are fresh.                                                         *)

LEMMA FreshFrame ==
  ASSUME FreshCalls,
         \A c \in Call : job'[c] \in {"none", "resolving"}
                           => job'[c] = job[c] /\ call'[c] = call[c],
         \A c \in Call : job[c] = "none" => job'[c] = "none",
         batch' \subseteq batch, batch \subseteq Dest,
         \A d \in batch : Current(d) \in Call,
         UNCHANGED attempts
  PROVE  FreshCalls'
<1>1. \A d \in Dest, k \in 1..ClaimBound : <<d, k>> \in Call
  BY DEF Call
<1>. QED  BY <1>1 DEF FreshCalls, Current

\* A row in the batch has been claimed.
Numbered == \A d \in batch : attempts[d] >= 1

LEMMA FreshStep ==
  TypeOK /\ Numbered /\ FreshCalls /\ [Next]_vars => (Numbered /\ FreshCalls)'
<1>. SUFFICES ASSUME TypeOK, Numbered, FreshCalls, [Next]_vars
              PROVE  Numbered' /\ FreshCalls'
  OBVIOUS
<1>. USE DEF campVars, rowVars, tickVars, callVars, EngineUnchanged, Set
<1>0. /\ \A d \in Dest, k \in 1..ClaimBound : <<d, k>> \in Call
      /\ batch \subseteq Dest
      /\ \A d \in Dest : attempts[d] \in 0..ClaimBound
      /\ \A d \in batch : Current(d) \in Call
      /\ call \in [Call -> {"none", "ringing", "live", "missed", "ended"}]
      /\ job \in [Call -> {"none", "resolving", "sent", "rejected",
                           "countFailed", "done"}]
  <2>1. /\ batch \subseteq Dest
        /\ \A d \in Dest : attempts[d] \in 0..ClaimBound
    BY DEF TypeOK
  <2>2. \A d \in batch : attempts[d] \in 1..ClaimBound
    BY <2>1, ConstantsOK DEF Numbered, ConstantsOK
  <2>. QED  BY <2>1, <2>2 DEF Call, Current, TypeOK
<1>1. ASSUME UNCHANGED attempts, batch' \subseteq batch PROVE Numbered'
  BY <1>1 DEF Numbered
<1>2. CASE UNCHANGED vars
  BY <1>0, <1>1, <1>2, FreshFrame DEF vars
<1>3. CASE \/ SelectCampaign \/ StartCampaign \/ ExpireRows \/ ExpireCampaign
           \/ CountRows \/ PlanFinish \/ PlanWait
           \/ (\E n \in 1..BatchSize : PlanFill(n))
           \/ CompleteCampaign \/ SynthesizeMedia \/ SynthesisFails \/ BookClaim
  BY <1>0, <1>1, <1>3, FreshFrame
     DEF SelectCampaign, StartCampaign, ExpireRows, ExpireCampaign, CountRows,
         PlanFinish, PlanWait, PlanFill, CompleteCampaign, SynthesizeMedia,
         SynthesisFails, BookClaim
<1>4. ASSUME NEW S \in SUBSET Dest, ClaimRows(S) PROVE Numbered' /\ FreshCalls'
  <2>1. /\ \A d \in Dest : attempts'[d] = IF d \in S THEN attempts[d] + 1
                                                     ELSE attempts[d]
        /\ batch' = S
        /\ \A d \in S : attempts[d] < ClaimBound
        /\ UNCHANGED <<job, call>>
    BY <1>4 DEF ClaimRows
  <2>2. \A d \in S : attempts'[d] \in 1..ClaimBound /\ attempts'[d] > attempts[d]
    BY <1>0, <2>1, ConstantsOK DEF ConstantsOK
  <2>3. \A d \in S : job'[<<d, attempts'[d]>>] = "none"
    BY <2>1, <2>2 DEF FreshCalls
  <2>4. \A d \in Dest, k \in 1..ClaimBound :
          k > attempts'[d] => job'[<<d, k>>] = "none"
    <3>1. \A d \in Dest, k \in 1..ClaimBound :
            k > attempts'[d] => k > attempts[d]
      BY <1>0, <2>1
    <3>. QED  BY <2>1, <3>1 DEF FreshCalls
  <2>5. Numbered'
    BY <2>1, <2>2 DEF Numbered
  <2>. QED  BY <2>1, <2>3, <2>4, <2>5 DEF FreshCalls, Current
<1>5. ASSUME NEW d \in Dest, Originate(d) PROVE Numbered' /\ FreshCalls'
  <2>1. /\ d \in batch /\ batch' = batch \ {d}
        /\ \A c \in Call : job'[c] = IF c = Current(d) THEN "resolving" ELSE job[c]
        /\ UNCHANGED <<attempts, call>>
    BY <1>0, <1>5 DEF Originate
  <2>2. /\ Current(d) \in Call /\ job[Current(d)] = "none"
        /\ call[Current(d)] = "none"
    BY <1>0, <2>1 DEF FreshCalls
  <2>3. \A e \in Dest, k \in 1..ClaimBound :
          k > attempts[e] => <<e, k>> # Current(d)
    BY <1>0 DEF Current
  <2>4. \A e \in batch' : Current(e) # Current(d) /\ Current(e) \in Call
    BY <1>0, <2>1 DEF Current
  <2>5. \A e \in Dest, k \in 1..ClaimBound :
          k > attempts'[e] => job'[<<e, k>>] = "none"
    BY <1>0, <2>1, <2>3 DEF FreshCalls
  <2>6. \A e \in batch' : job'[Current(e)] = "none"
    BY <2>1, <2>4 DEF FreshCalls
  <2>7. \A c \in Call : job'[c] \in {"none", "resolving"} => call'[c] = "none"
    BY <2>1, <2>2 DEF FreshCalls
  <2>8. Numbered'
    BY <1>1, <2>1
  <2>. QED  BY <2>1, <2>5, <2>6, <2>7, <2>8 DEF FreshCalls, Current
<1>6. ASSUME NEW c \in Call, Handler(c) PROVE Numbered' /\ FreshCalls'
  BY <1>0, <1>1, <1>6, FreshFrame
     DEF Handler, AnswerRow, AnswerCount, HangupRead, HangupComplete,
         HangupRetry, HangupFail, HangupCount, JobFail, JobCount, FailRow, Counted
<1>7. ASSUME NEW c \in Call, Originating(c) PROVE Numbered' /\ FreshCalls'
  BY <1>0, <1>1, <1>7, FreshFrame
     DEF Originating, FsRing, DispatchRejected, ReplyTimeout
<1>8. ASSUME NEW c \in Call, Telephone(c) PROVE Numbered' /\ FreshCalls'
  <2>1. call[c] # "none" /\ job[c] \notin {"none", "resolving"}
    BY <1>8 DEF Telephone, FsAnswer, FsHangup, FreshCalls
  <2>2. /\ job'[c] \notin {"none", "resolving"}
        /\ \A e \in Call : e # c => job'[e] = job[e] /\ call'[e] = call[e]
        /\ UNCHANGED <<attempts, batch>>
    BY <1>0, <1>8, <2>1 DEF Telephone, FsAnswer, FsHangup
  <2>. QED  BY <1>0, <1>1, <2>1, <2>2, FreshFrame
<1>9. CASE \/ \E d \in Dest : RetryDue(d)
           \/ TimeoutElapses \/ Recovery \/ Operator
           \/ DispatchThrows \/ Restart
  BY <1>0, <1>1, <1>9, FreshFrame
     DEF RetryDue, TimeoutElapses, Recovery, RecoverDialing, RecoverAnswered,
         SyncCounters, Operator, PauseCampaign, ResumeCampaign, CancelRows,
         CancelCampaign, DispatchThrows, Restart
<1>10. CASE Crash
  BY <1>0, <1>1, <1>10, FreshFrame DEF Crash, Forget
<1>. QED
  BY <1>2, <1>3, <1>4, <1>5, <1>6, <1>7, <1>8, <1>9, <1>10 DEF Next, Tick

LEMMA FreshAlways == Spec => [](Numbered /\ FreshCalls)
<1>1. Init => Numbered /\ FreshCalls
  BY DEF Init, Numbered, FreshCalls, Call
<1>. QED  BY <1>1, FreshStep, TypeCorrect, PTL DEF Spec

----------------------------------------------------------------------------
(* The attempt budget.                                                      *)

\* Claimed rows are in the batch only until they are originated.
BatchInHand == batch # {} => pc \in {"book", "originate"}

LEMMA BatchAlways == Spec => []BatchInHand
<1>1. Init => BatchInHand
  BY DEF Init, BatchInHand
<1>2. BatchInHand /\ [Next]_vars => BatchInHand'
  <2>. SUFFICES ASSUME BatchInHand, [Next]_vars PROVE BatchInHand'
    OBVIOUS
  <2>. USE DEF campVars, rowVars, tickVars, callVars, BatchInHand
  <2>1. CASE UNCHANGED vars
    BY <2>1 DEF vars
  <2>2. CASE Tick \/ DispatchThrows \/ Crash \/ Restart
    BY <2>2
       DEF Tick, SelectCampaign, StartCampaign, ExpireRows, ExpireCampaign,
           CountRows, PlanFinish, PlanWait, PlanFill, CompleteCampaign,
           SynthesizeMedia, SynthesisFails, ClaimRows, BookClaim, Originate,
           DispatchThrows, Crash, Restart
  <2>3. ASSUME NEW c \in Call, Handler(c) \/ Originating(c) \/ Telephone(c)
        PROVE  BatchInHand'
    BY <2>3
       DEF Handler, AnswerRow, AnswerCount, HangupRead, HangupComplete,
           HangupRetry, HangupFail, HangupCount, JobFail, JobCount, FailRow,
           Counted, Originating, Telephone, FsRing, DispatchRejected,
           ReplyTimeout, FsAnswer, FsHangup, EngineUnchanged
  <2>4. CASE \/ \E d \in Dest : RetryDue(d)
             \/ TimeoutElapses \/ Recovery \/ Operator
    BY <2>4
       DEF RetryDue, TimeoutElapses, Recovery, RecoverDialing, RecoverAnswered,
           SyncCounters, Operator, PauseCampaign, ResumeCampaign, CancelRows,
           CancelCampaign
  <2>. QED  BY <2>1, <2>2, <2>3, <2>4 DEF Next
<1>. QED  BY <1>1, <1>2, PTL DEF Spec

Budget == BudgetSpent /\ AttemptBudget

\* A lost message or a crash gives every row one attempt more; any other step
\* that makes no attempt must keep what the spent rows have.
LEMMA BudgetFrame ==
  ASSUME TypeOK, Budget, UNCHANGED attempts,
         \/ faults' = faults + 1
         \/ /\ faults' = faults
            /\ pc' = "down" => pc = "down"
            /\ \A d \in Dest :
                 /\ status'[d] = "queued" => \/ status[d] = "queued"
                                             \/ attempts[d] < MaxAttempts + faults
                 /\ status'[d] = "dialing" => status[d] = "dialing"
                 /\ pc # "down" /\ Current(d) \in Call /\ status'[d] = "dialing"
                      /\ OnItsWay(d) => OnItsWay(d)'
  PROVE  Budget'
<1>1. /\ MaxAttempts \in Nat \ {0} /\ faults \in Nat
      /\ \A d \in Dest : attempts[d] \in 0..ClaimBound
  BY ConstantsOK DEF TypeOK, ConstantsOK
<1>2. \A d \in Dest : attempts[d] <= MaxAttempts + faults
  BY DEF Budget, AttemptBudget
<1>3. CASE faults' = faults + 1
  <2>1. \A d \in Dest : attempts'[d] < MaxAttempts + faults'
    BY <1>1, <1>2, <1>3
  <2>. QED  BY <1>1, <2>1 DEF Budget, AttemptBudget, BudgetSpent
<1>4. CASE faults' = faults
  <2>1. AttemptBudget'
    BY <1>2, <1>4 DEF AttemptBudget
  <2>2. ASSUME NEW d \in Dest, attempts[d] >= MaxAttempts + faults
        PROVE  /\ pc' # "down" /\ status'[d] # "queued"
               /\ status'[d] = "dialing" => OnItsWay(d)'
    <3>1. attempts[d] \in 1..ClaimBound /\ ~(attempts[d] < MaxAttempts + faults)
      BY <1>1, <2>2, ConstantsOK DEF ConstantsOK
    <3>2. Current(d) \in Call
      BY <3>1 DEF Current, Call
    <3>3. /\ pc # "down" /\ status[d] # "queued"
          /\ status[d] = "dialing" => OnItsWay(d)
      BY <2>2 DEF Budget, BudgetSpent
    <3>. QED  BY <1>1, <1>4, <3>1, <3>2, <3>3
  <2>. QED  BY <1>4, <2>1, <2>2 DEF Budget, BudgetSpent
<1>. QED  BY <1>3, <1>4

\* A step that leaves the rows, the batch and what is still to come as they are.
LEMMA BudgetStill ==
  ASSUME TypeOK, Budget,
         UNCHANGED <<status, attempts, uuid, batch, call, ans, hup, job, faults>>,
         pc' = "down" => pc = "down"
  PROVE  Budget'
<1>1. \A d \in Dest : OnItsWay(d) => OnItsWay(d)'
  BY DEF OnItsWay, Names, Current
<1>. QED  BY <1>1, BudgetFrame

LEMMA BudgetTick == TypeOK /\ BatchInHand /\ Budget /\ Tick => Budget'
<1>. SUFFICES ASSUME TypeOK, BatchInHand, Budget, Tick PROVE Budget'
  OBVIOUS
<1>. USE DEF campVars, rowVars, callVars
<1>0. /\ MaxAttempts \in Nat \ {0} /\ faults \in Nat
      /\ \A d \in Dest : attempts[d] \in 0..ClaimBound
      /\ \A d \in Dest : attempts[d] <= MaxAttempts + faults
  BY ConstantsOK DEF TypeOK, ConstantsOK, Budget, AttemptBudget
<1>1. CASE \/ SelectCampaign \/ StartCampaign \/ ExpireCampaign \/ CountRows
           \/ PlanFinish \/ PlanWait \/ (\E n \in 1..BatchSize : PlanFill(n))
           \/ CompleteCampaign \/ SynthesizeMedia \/ SynthesisFails \/ BookClaim
  BY <1>1, BudgetStill
     DEF SelectCampaign, StartCampaign, ExpireCampaign, CountRows, PlanFinish,
         PlanWait, PlanFill, CompleteCampaign, SynthesizeMedia, SynthesisFails,
         BookClaim
<1>2. CASE ExpireRows
  <2>1. /\ \A d \in Dest : status'[d] = IF status[d] = "queued" THEN "expired"
                                                                ELSE status[d]
        /\ UNCHANGED <<attempts, uuid, batch, call, ans, hup, job, faults>>
        /\ pc' # "down"
    BY <1>2 DEF ExpireRows
  <2>2. \A d \in Dest : OnItsWay(d) => OnItsWay(d)'
    BY <2>1 DEF OnItsWay, Names, Current
  <2>. QED  BY <2>1, <2>2, BudgetFrame
<1>3. ASSUME NEW S \in SUBSET Dest, ClaimRows(S) PROVE Budget'
  <2>1. /\ pc' # "down" /\ pc # "down" /\ batch' = S /\ faults' = faults
        /\ \A d \in S : status[d] = "queued"
        /\ \A d \in Dest : /\ status'[d] = IF d \in S THEN "dialing" ELSE status[d]
                           /\ attempts'[d] = IF d \in S THEN attempts[d] + 1
                                                        ELSE attempts[d]
                           /\ uuid'[d] = IF d \in S THEN 0 ELSE uuid[d]
        /\ UNCHANGED <<call, ans, hup, job>>
    BY <1>3 DEF ClaimRows, Ready, InStatus
  <2>2. \A d \in S : attempts[d] < MaxAttempts + faults
    BY <1>0, <2>1 DEF Budget, BudgetSpent
  <2>3. \A d \in Dest : attempts'[d] <= MaxAttempts + faults'
    BY <1>0, <2>1, <2>2
  <2>4. ASSUME NEW d \in Dest, attempts'[d] >= MaxAttempts + faults'
        PROVE  status'[d] # "queued" /\ (status'[d] = "dialing" => OnItsWay(d)')
    <3>1. CASE d \in S
      BY <2>1, <3>1 DEF OnItsWay
    <3>2. CASE d \notin S
      <4>1. /\ status[d] # "queued"
            /\ status[d] = "dialing" => OnItsWay(d)
        BY <2>1, <2>4, <3>2 DEF Budget, BudgetSpent
      <4>2. batch = {}
        BY <1>3 DEF ClaimRows, BatchInHand
      <4>3. OnItsWay(d) => OnItsWay(d)'
        BY <2>1, <3>2, <4>2 DEF OnItsWay, Names, Current
      <4>. QED  BY <2>1, <3>2, <4>1, <4>3
    <3>. QED  BY <3>1, <3>2
  <2>. QED  BY <2>1, <2>3, <2>4 DEF Budget, BudgetSpent, AttemptBudget
<1>4. ASSUME NEW e \in Dest, Originate(e) PROVE Budget'
  <2>1. /\ e \in batch /\ batch' = batch \ {e} /\ batch \subseteq Dest
        /\ \A d \in Dest : uuid'[d] = IF d = e THEN attempts[e] ELSE uuid[d]
        /\ \A c \in Call : job'[c] = IF c = Current(e) THEN "resolving" ELSE job[c]
        /\ UNCHANGED <<status, attempts, call, ans, hup, faults>>
        /\ pc' # "down"
    BY <1>4 DEF Originate, TypeOK
  <2>2. ASSUME NEW d \in Dest, Current(d) \in Call, OnItsWay(d) PROVE OnItsWay(d)'
    <3>1. CASE d = e
      <4>1. Names(Current(d))' /\ job'[Current(d)] = "resolving"
        BY <2>1, <2>2, <3>1 DEF Names, Current
      <4>. QED  BY <2>1, <4>1 DEF OnItsWay, Current
    <3>2. CASE d # e
      <4>1. Current(d) # Current(e)
        BY <3>2 DEF Current
      <4>. QED  BY <2>1, <2>2, <3>2, <4>1 DEF OnItsWay, Names, Current
    <3>. QED  BY <3>1, <3>2
  <2>. QED  BY <2>1, <2>2, BudgetFrame
<1>. QED  BY <1>1, <1>2, <1>3, <1>4 DEF Tick

\* A handler that takes something of the current call off the way takes the row
\* out of 'dialing', or has found that the UUID names another call.
LEMMA BudgetHandler ==
  ASSUME TypeOK, Claims, Budget, NEW c \in Call, Handler(c)
  PROVE  Budget'
<1>. USE DEF campVars, rowVars, tickVars, callVars, Set, EngineUnchanged
<1>0. /\ c[1] \in Dest /\ c[2] \in 1..ClaimBound /\ c = <<c[1], c[2]>>
      /\ status \in [Dest -> DestStatus] /\ uuid \in [Dest -> 0..ClaimBound]
      /\ ans \in [Call -> {"none", "sent", "count", "done"}]
      /\ hup \in [Call -> {"none", "sent", "complete", "retry", "fail",
                           "countCompleted", "countRetry", "countFailed", "done"}]
      /\ job \in [Call -> {"none", "resolving", "sent", "rejected",
                           "countFailed", "done"}]
      /\ \A d \in Dest : d # c[1] => Current(d) # c
  BY DEF Call, TypeOK, Current
<1>1. /\ UNCHANGED <<attempts, batch, call, pc, faults>>
      /\ \A e \in Call : e # c =>
           ans'[e] = ans[e] /\ hup'[e] = hup[e] /\ job'[e] = job[e]
      /\ \A d \in Dest : d # c[1] => status'[d] = status[d] /\ uuid'[d] = uuid[d]
  <2>1. UNCHANGED <<attempts, batch, call, pc, faults>>
    BY DEF Handler, AnswerRow, AnswerCount, HangupRead, HangupComplete,
           HangupRetry, HangupFail, HangupCount, JobFail, JobCount, FailRow,
           Counted
  <2>2. CASE AnswerRow(c) \/ AnswerCount(c) \/ HangupRead(c) \/ HangupComplete(c)
    BY <1>0, <2>1, <2>2 DEF AnswerRow, AnswerCount, HangupRead, HangupComplete
  <2>3. CASE HangupRetry(c) \/ HangupFail(c) \/ JobFail(c)
    BY <1>0, <2>1, <2>3 DEF HangupRetry, HangupFail, JobFail, FailRow
  <2>4. CASE HangupCount(c) \/ JobCount(c)
    BY <1>0, <2>1, <2>4 DEF HangupCount, JobCount, Counted
  <2>. QED  BY <2>1, <2>2, <2>3, <2>4 DEF Handler
<1>2. ASSUME NEW d \in Dest, d # c[1], Current(d) \in Call, OnItsWay(d)
      PROVE  OnItsWay(d)'
  BY <1>0, <1>1, <1>2 DEF OnItsWay, Names, Current
<1>. DEFINE Kept ==
       /\ status'[c[1]] = "queued" => \/ status[c[1]] = "queued"
                                      \/ attempts[c[1]] < MaxAttempts + faults
       /\ status'[c[1]] = "dialing" =>
            /\ status[c[1]] = "dialing"
            /\ Current(c[1]) \in Call /\ OnItsWay(c[1]) => OnItsWay(c[1])'
<1>3. ASSUME Kept PROVE Budget'
  <2>1. ASSUME NEW d \in Dest
        PROVE  /\ status'[d] = "queued" => \/ status[d] = "queued"
                                           \/ attempts[d] < MaxAttempts + faults
               /\ status'[d] = "dialing" => status[d] = "dialing"
               /\ (Current(d) \in Call /\ status'[d] = "dialing" /\ OnItsWay(d))
                    => OnItsWay(d)'
    <3>1. CASE d = c[1]
      BY <1>3, <3>1
    <3>2. CASE d # c[1]
      <4>1. status'[d] = status[d]
        BY <1>1, <2>1, <3>2
      <4>2. Current(d) \in Call /\ OnItsWay(d) => OnItsWay(d)'
        BY <1>2, <2>1, <3>2
      <4>. QED  BY <4>1, <4>2
    <3>. QED  BY <3>1, <3>2
  <2>. QED  BY <1>1, <2>1, BudgetFrame
<1>. SUFFICES Kept
  BY <1>3
<1>4. CASE AnswerRow(c)
  <2>1. CASE Names(c) /\ status[c[1]] = "dialing"
    BY <1>0, <1>4, <2>1 DEF AnswerRow
  <2>2. CASE ~(Names(c) /\ status[c[1]] = "dialing")
    <3>1. /\ UNCHANGED <<status, uuid, hup, job>>
          /\ status[c[1]] = "dialing" => ~Names(c)
      BY <1>0, <1>4, <2>2 DEF AnswerRow
    <3>2. ASSUME status[c[1]] = "dialing", OnItsWay(c[1]), Current(c[1]) \in Call
          PROVE  OnItsWay(c[1])'
      BY <1>0, <1>1, <3>1, <3>2 DEF OnItsWay, Names, Current
    <3>. QED  BY <3>1, <3>2
  <2>. QED  BY <2>1, <2>2
<1>5. CASE AnswerCount(c) \/ JobCount(c) \/ HangupCount(c)
  <2>1. /\ UNCHANGED <<status, uuid>>
        /\ ans'[c] = ans[c] \/ ans[c] = "count"
        /\ job'[c] = job[c] \/ job[c] = "countFailed"
        /\ \/ hup'[c] = hup[c]
           \/ hup[c] \in {"countCompleted", "countRetry", "countFailed"}
    BY <1>5 DEF AnswerCount, JobCount, HangupCount, Counted
  <2>2. OnItsWay(c[1]) /\ Current(c[1]) \in Call => OnItsWay(c[1])'
    BY <1>0, <1>1, <2>1 DEF OnItsWay, Names, Current
  <2>. QED  BY <2>1, <2>2
<1>6. CASE HangupRead(c)
  <2>1. /\ UNCHANGED <<status, uuid, ans, job>>
        /\ Names(c) => hup'[c] \in {"complete", "retry", "fail"}
    BY <1>0, <1>6 DEF HangupRead
  <2>2. OnItsWay(c[1]) /\ Current(c[1]) \in Call => OnItsWay(c[1])'
    BY <1>0, <1>1, <2>1 DEF OnItsWay, Names, Current
  <2>. QED  BY <2>1, <2>2
<1>7. CASE HangupComplete(c)
  BY <1>0, <1>7 DEF HangupComplete
<1>8. CASE HangupRetry(c)
  <2>1. attempts[c[1]] < MaxAttempts
    BY <1>0, <1>8 DEF HangupRetry, Claims, ClaimedOnce
  <2>2. MaxAttempts \in Nat /\ faults \in Nat /\ attempts[c[1]] \in Nat
    BY <1>0, ConstantsOK DEF TypeOK, ConstantsOK
  <2>3. attempts[c[1]] < MaxAttempts + faults
    BY <2>1, <2>2
  <2>4. status'[c[1]] = "queued"
    BY <1>0, <1>8 DEF HangupRetry
  <2>. QED  BY <2>3, <2>4
<1>9. CASE HangupFail(c) \/ JobFail(c)
  BY <1>0, <1>9 DEF HangupFail, JobFail, FailRow
<1>. QED
  BY <1>4, <1>5, <1>6, <1>7, <1>8, <1>9 DEF Handler

\* FreeSWITCH's messages are on their way, or lost and counted.
LEMMA BudgetLine ==
  ASSUME TypeOK, FreshCalls, Budget, NEW c \in Call, Originating(c) \/ Telephone(c)
  PROVE  Budget'
<1>. USE DEF campVars, rowVars, tickVars, callVars, Set, EngineUnchanged
<1>0. /\ call \in [Call -> {"none", "ringing", "live", "missed", "ended"}]
      /\ ans \in [Call -> {"none", "sent", "count", "done"}]
      /\ hup \in [Call -> {"none", "sent", "complete", "retry", "fail",
                           "countCompleted", "countRetry", "countFailed", "done"}]
      /\ job \in [Call -> {"none", "resolving", "sent", "rejected",
                           "countFailed", "done"}]
  BY DEF TypeOK
<1>1. UNCHANGED <<status, attempts, uuid, batch, pc>>
  BY DEF Originating, Telephone, FsRing, DispatchRejected, ReplyTimeout, FsAnswer,
         FsHangup
<1>2. ASSUME faults' = faults, pc # "down"
      PROVE  \A d \in Dest : Current(d) \in Call /\ OnItsWay(d) => OnItsWay(d)'
  <2>1. CASE FsRing(c)
    BY <1>0, <1>1, <2>1 DEF FsRing, OnItsWay, Names, Current
  <2>2. CASE DispatchRejected(c) \/ ReplyTimeout(c)
    BY <1>0, <1>1, <2>2 DEF DispatchRejected, ReplyTimeout, OnItsWay, Names, Current
  <2>3. CASE FsAnswer(c)
    <3>1. /\ \A e \in Call : e # c =>
               /\ call'[e] = call[e] /\ ans'[e] = ans[e]
               /\ hup'[e] = hup[e] /\ job'[e] = job[e]
          /\ ans'[c] = "sent"
      <4>1. PICK event \in {"sent", "done"}, reply \in {"done", job[c]} :
              /\ Losing(event = "done" \/ reply = "sent")
              /\ ans' = Set(ans, c, event) /\ job' = Set(job, c, reply)
        BY <2>3 DEF FsAnswer
      <4>2. event = "sent"
        BY <1>2, <4>1, ConstantsOK DEF Losing, TypeOK, ConstantsOK
      <4>. QED  BY <1>0, <2>3, <4>1, <4>2 DEF FsAnswer
    <3>. QED  BY <1>1, <3>1 DEF OnItsWay, Names, Current
  <2>4. CASE FsHangup(c)
    <3>1. /\ \A e \in Call : e # c =>
               /\ call'[e] = call[e] /\ ans'[e] = ans[e]
               /\ hup'[e] = hup[e] /\ job'[e] = job[e]
          /\ hup'[c] = "sent"
      <4>1. PICK event \in {"sent", "done"}, reply \in {"rejected", "sent", job[c]},
                 lost \in BOOLEAN :
              /\ Losing(event = "done" \/ lost)
              /\ hup' = Set(hup, c, event) /\ job' = Set(job, c, reply)
        BY <2>4 DEF FsHangup
      <4>2. event = "sent"
        BY <1>2, <4>1, ConstantsOK DEF Losing, TypeOK, ConstantsOK
      <4>. QED  BY <1>0, <2>4, <4>1, <4>2 DEF FsHangup
    <3>. QED  BY <1>1, <3>1 DEF OnItsWay, Names, Current
  <2>. QED  BY <2>1, <2>2, <2>3, <2>4 DEF Originating, Telephone
<1>3. faults' = faults \/ faults' = faults + 1
  BY DEF Originating, Telephone, FsRing, DispatchRejected, ReplyTimeout, FsAnswer,
         FsHangup, Losing
<1>. QED  BY <1>1, <1>2, <1>3, BudgetFrame

LEMMA BudgetRest ==
  ASSUME TypeOK, Budget,
         \/ \E d \in Dest : RetryDue(d)
         \/ TimeoutElapses \/ Recovery \/ Operator
         \/ DispatchThrows \/ Crash \/ Restart
  PROVE  Budget'
<1>. USE DEF campVars, rowVars, tickVars, callVars
<1>1. CASE \/ \E d \in Dest : RetryDue(d)
           \/ TimeoutElapses \/ SyncCounters
           \/ PauseCampaign \/ ResumeCampaign \/ CancelCampaign
  BY <1>1, BudgetStill
     DEF RetryDue, TimeoutElapses, SyncCounters, PauseCampaign, ResumeCampaign,
         CancelCampaign
<1>2. ASSUME NEW S \in SUBSET Dest, RecoverDialing(S) PROVE Budget'
  <2>1. /\ \A d \in Dest : /\ status'[d] = IF d \in S THEN "queued" ELSE status[d]
                           /\ uuid'[d] = IF d \in S THEN 0 ELSE uuid[d]
        /\ UNCHANGED <<attempts, batch, call, ans, hup, job, faults, pc>>
    BY <1>2 DEF RecoverDialing
  <2>2. ASSUME NEW d \in S PROVE attempts[d] < MaxAttempts + faults
    <3>1. /\ d \in Dest /\ status[d] = "dialing" /\ d \notin batch /\ Quiet(d)
          /\ call[Current(d)] # "ringing"
      BY <1>2, <2>2 DEF RecoverDialing, StaleDialing, InStatus
    <3>2. MaxAttempts \in Nat \ {0} /\ faults \in Nat /\ attempts[d] \in 0..ClaimBound
      BY <3>1, ConstantsOK DEF TypeOK, ConstantsOK
    <3>3. CASE attempts[d] = 0
      BY <3>2, <3>3
    <3>4. CASE attempts[d] \in 1..ClaimBound
      <4>1. /\ ans[Current(d)] \in {"none", "done"}
            /\ hup[Current(d)] \in {"none", "done"}
            /\ job[Current(d)] \in {"none", "done"}
        BY <3>1, <3>4 DEF Quiet, Current
      <4>2. ~OnItsWay(d)
        BY <3>1, <4>1 DEF OnItsWay
      <4>. QED  BY <3>1, <3>2, <4>2 DEF Budget, BudgetSpent
    <3>. QED  BY <3>2, <3>3, <3>4
  <2>3. \A d \in Dest : d \notin S => (OnItsWay(d) => OnItsWay(d)')
    BY <2>1 DEF OnItsWay, Names, Current
  <2>. QED  BY <2>1, <2>2, <2>3, BudgetFrame
<1>3. ASSUME NEW S \in SUBSET Dest, RecoverAnswered(S) PROVE Budget'
  <2>1. /\ \A d \in Dest : /\ status'[d] = IF d \in S THEN "completed" ELSE status[d]
                           /\ uuid'[d] = IF d \in S THEN 0 ELSE uuid[d]
        /\ UNCHANGED <<attempts, batch, call, ans, hup, job, faults, pc>>
    BY <1>3 DEF RecoverAnswered
  <2>2. \A d \in Dest : d \notin S => (OnItsWay(d) => OnItsWay(d)')
    BY <2>1 DEF OnItsWay, Names, Current
  <2>. QED  BY <2>1, <2>2, BudgetFrame
<1>4. CASE CancelRows
  <2>1. /\ \A d \in Dest : status'[d] = IF status[d] = "queued" THEN "skipped"
                                                                ELSE status[d]
        /\ UNCHANGED <<attempts, uuid, batch, call, ans, hup, job, faults, pc>>
    BY <1>4 DEF CancelRows
  <2>2. \A d \in Dest : OnItsWay(d) => OnItsWay(d)'
    BY <2>1 DEF OnItsWay, Names, Current
  <2>. QED  BY <2>1, <2>2, BudgetFrame
<1>5. CASE DispatchThrows \/ Crash
  <2>1. faults' = faults + 1 /\ attempts' = attempts
    BY <1>5 DEF DispatchThrows, Crash
  <2>. QED  BY <2>1, BudgetFrame
<1>6. CASE Restart
  BY <1>6, BudgetStill DEF Restart
<1>. QED
  BY <1>1, <1>2, <1>3, <1>4, <1>5, <1>6 DEF Recovery, Operator

LEMMA BudgetAlways == Spec => []Budget
<1>1. Init => Budget
  BY ConstantsOK DEF Init, Budget, BudgetSpent, AttemptBudget, ConstantsOK
<1>2. /\ TypeOK /\ Claims /\ FreshCalls /\ BatchInHand /\ Budget /\ [Next]_vars
      => Budget'
  <2>1. CASE UNCHANGED vars
    BY <2>1, BudgetStill DEF vars, rowVars, tickVars, callVars
  <2>. QED
    BY <2>1, BudgetTick, BudgetHandler, BudgetLine, BudgetRest DEF Next
<1>. QED
  BY <1>1, <1>2, TypeCorrect, ClaimsAlways, FreshAlways, BatchAlways, PTL DEF Spec

\* Retries never take a row past max_attempts, in any interleaving of the tick,
\* late handlers, pauses, cancels and the sweep; each lost message or crash lets
\* recoverStaleDialing give a row one attempt more, and no other step does.
THEOREM BudgetHolds == Spec => []AttemptBudget
<1>1. Budget => AttemptBudget
  BY DEF Budget
<1>. QED  BY <1>1, BudgetAlways, PTL

----------------------------------------------------------------------------
(* 'completed' goes back to a call that talked.                             *)

Traced == AnswerTraced /\ CompletedWasAnswered

tracedVars == <<status, answeredAt, call, ans, hup>>

LEMMA TracedFrame ==
  ASSUME Traced, UNCHANGED tracedVars
  PROVE  Traced'
BY DEF Traced, AnswerTraced, CompletedWasAnswered, Talked, tracedVars

\* A step that lets no call fall back, and whose new 'answered', 'completed'
\* and 'complete' rows have answered_at.
LEMMA TracedRows ==
  ASSUME Traced,
         answeredAt \subseteq answeredAt',
         \A d \in answeredAt' : Talked(d),
         \A d \in Dest : status'[d] = "answered"
                           => status[d] = "answered" \/ d \in answeredAt',
         \A d \in Dest : status'[d] = "completed"
                           => status[d] \in {"answered", "completed"} \/ Talked(d),
         \A d \in Dest, k \in 1..ClaimBound :
           /\ ans'[<<d, k>>] = "sent" => ans[<<d, k>>] = "sent"
           /\ hup'[<<d, k>>] = "complete"
                => hup[<<d, k>>] = "complete" \/ d \in answeredAt',
         UNCHANGED call
  PROVE  Traced'
BY DEF Traced, AnswerTraced, CompletedWasAnswered, Talked

LEMMA TracedHandler ==
  ASSUME TypeOK, Traced, NEW c \in Call, Handler(c)
  PROVE  Traced'
<1>. USE DEF campVars, rowVars, tickVars, callVars, Set, EngineUnchanged
<1>0. /\ c[1] \in Dest /\ c[2] \in 1..ClaimBound /\ c = <<c[1], c[2]>>
      /\ status \in [Dest -> DestStatus] /\ answeredAt \subseteq Dest
      /\ ans \in [Call -> {"none", "sent", "count", "done"}]
      /\ hup \in [Call -> {"none", "sent", "complete", "retry", "fail",
                           "countCompleted", "countRetry", "countFailed", "done"}]
      /\ \A d \in Dest, k \in 1..ClaimBound : <<d, k>> \in Call
  BY DEF Call, TypeOK
<1>1. \A d \in answeredAt : Talked(d)
  BY DEF Traced, AnswerTraced
<1>2. CASE AnswerRow(c)
  <2>1. Talked(c[1])
    BY <1>0, <1>2 DEF AnswerRow, Traced, AnswerTraced, Talked
  <2>. QED  BY <1>0, <1>1, <1>2, <2>1, TracedRows DEF AnswerRow
<1>3. CASE AnswerCount(c)
  BY <1>0, <1>1, <1>3, TracedRows DEF AnswerCount
<1>4. CASE HangupRead(c)
  <2>1. c[1] \in answeredAt \/ status[c[1]] = "answered" => c[1] \in answeredAt
    BY <1>0 DEF Traced, AnswerTraced
  <2>2. /\ hup'[c] = "complete" => c[1] \in answeredAt
        /\ \A e \in Call : e # c => hup'[e] = hup[e]
        /\ UNCHANGED <<status, answeredAt, ans, call>>
    BY <1>0, <1>4, <2>1 DEF HangupRead, WasAnswered
  <2>. QED  BY <1>0, <1>1, <2>2, TracedRows
<1>5. CASE HangupComplete(c)
  <2>1. Talked(c[1])
    BY <1>0, <1>5 DEF HangupComplete, Traced, AnswerTraced
  <2>. QED  BY <1>0, <1>1, <1>5, <2>1, TracedRows DEF HangupComplete
<1>6. CASE HangupRetry(c)
  BY <1>0, <1>1, <1>6, TracedRows DEF HangupRetry
<1>7. CASE HangupFail(c)
  BY <1>0, <1>1, <1>7, TracedRows DEF HangupFail, FailRow
<1>8. CASE HangupCount(c)
  BY <1>0, <1>1, <1>8, TracedRows DEF HangupCount, Counted
<1>9. CASE JobFail(c)
  BY <1>0, <1>1, <1>9, TracedRows DEF JobFail, FailRow
<1>10. CASE JobCount(c)
  BY <1>0, <1>1, <1>10, TracedRows DEF JobCount, Counted
<1>. QED
  BY <1>2, <1>3, <1>4, <1>5, <1>6, <1>7, <1>8, <1>9, <1>10 DEF Handler

LEMMA TracedStep == TypeOK /\ FreshCalls /\ Traced /\ [Next]_vars => Traced'
<1>. SUFFICES ASSUME TypeOK, FreshCalls, Traced, [Next]_vars PROVE Traced'
  OBVIOUS
<1>. USE DEF campVars, rowVars, tickVars, callVars, EngineUnchanged
<1>0. /\ \A d \in Dest, k \in 1..ClaimBound : <<d, k>> \in Call
      /\ \A d \in answeredAt : Talked(d)
      /\ call \in [Call -> {"none", "ringing", "live", "missed", "ended"}]
      /\ answeredAt \subseteq Dest
  BY DEF Call, TypeOK, Traced, AnswerTraced
<1>1. CASE UNCHANGED vars
  BY <1>1, TracedFrame DEF vars, tracedVars
<1>2. CASE Tick
  <2>1. CASE \/ SelectCampaign \/ StartCampaign \/ ExpireCampaign \/ CountRows
             \/ PlanFinish \/ PlanWait \/ (\E n \in 1..BatchSize : PlanFill(n))
             \/ CompleteCampaign \/ SynthesizeMedia \/ SynthesisFails
             \/ BookClaim \/ (\E d \in Dest : Originate(d))
    BY <2>1, TracedFrame
       DEF SelectCampaign, StartCampaign, ExpireCampaign, CountRows, PlanFinish,
           PlanWait, PlanFill, CompleteCampaign, SynthesizeMedia,
           SynthesisFails, BookClaim, Originate, tracedVars
  <2>2. CASE ExpireRows
    BY <1>0, <2>2, TracedRows DEF ExpireRows
  <2>3. ASSUME NEW S \in SUBSET Dest, ClaimRows(S) PROVE Traced'
    BY <1>0, <2>3, TracedRows DEF ClaimRows
  <2>. QED  BY <1>2, <2>1, <2>2, <2>3 DEF Tick
<1>3. ASSUME NEW c \in Call, Handler(c) PROVE Traced'
  BY <1>3, TracedHandler
<1>4. ASSUME NEW c \in Call, FsRing(c) PROVE Traced'
  <2>1. /\ \A e \in Call :
             call[e] \in {"live", "ended"} => call'[e] = call[e]
        /\ UNCHANGED <<status, answeredAt, ans, hup>>
    BY <1>0, <1>4 DEF FsRing, FreshCalls, Set
  <2>. QED
    BY <1>0, <2>1 DEF Traced, AnswerTraced, CompletedWasAnswered, Talked
<1>5. CASE \/ \E c \in Call : DispatchRejected(c) \/ ReplyTimeout(c)
           \/ \E d \in Dest : RetryDue(d)
           \/ TimeoutElapses \/ SyncCounters
           \/ PauseCampaign \/ ResumeCampaign \/ CancelCampaign
           \/ DispatchThrows \/ Restart
  BY <1>5, TracedFrame
     DEF DispatchRejected, ReplyTimeout, RetryDue, TimeoutElapses, SyncCounters,
         PauseCampaign, ResumeCampaign, CancelCampaign, DispatchThrows, Restart,
         tracedVars
<1>6. ASSUME NEW c \in Call, FsAnswer(c) \/ FsHangup(c) PROVE Traced'
  <2>1. /\ \A e \in Call :
             /\ call[e] \in {"live", "ended"} => call'[e] \in {"live", "ended"}
             /\ ans'[e] = "sent" => ans[e] = "sent" \/ call'[e] = "live"
             /\ hup'[e] = "complete" => hup[e] = "complete"
        /\ UNCHANGED <<status, answeredAt>>
    BY <1>6, <1>0 DEF FsAnswer, FsHangup, Set, TypeOK
  <2>. QED
    BY <1>0, <2>1 DEF Traced, AnswerTraced, CompletedWasAnswered, Talked
<1>7. ASSUME NEW S \in SUBSET Dest, RecoverDialing(S) PROVE Traced'
  BY <1>0, <1>7, TracedRows DEF RecoverDialing
<1>8. ASSUME NEW T \in SUBSET Dest, RecoverAnswered(T) PROVE Traced'
  <2>1. \A d \in T : status[d] = "answered"
    BY <1>8 DEF RecoverAnswered, StaleAnswered, InStatus
  <2>. QED  BY <1>0, <1>8, <2>1, TracedRows DEF RecoverAnswered
<1>9. CASE CancelRows
  BY <1>0, <1>9, TracedRows DEF CancelRows
<1>10. CASE Crash
  BY <1>0, <1>10, TracedRows DEF Crash, Forget
<1>. QED
  BY <1>1, <1>2, <1>3, <1>4, <1>5, <1>6, <1>7, <1>8, <1>9, <1>10
     DEF Next, Originating, Telephone, Recovery, Operator

LEMMA TracedAlways == Spec => []Traced
<1>1. Init => Traced
  BY DEF Init, Traced, AnswerTraced, CompletedWasAnswered, Call
<1>. QED  BY <1>1, TracedStep, TypeCorrect, FreshAlways, PTL DEF Spec

\* 'completed' is only ever written for a destination that had a call answered,
\* by whichever of onCallHangup and the recovery writes it.
THEOREM CompletedMeansAnswered == Spec => []CompletedWasAnswered
<1>1. Traced => CompletedWasAnswered
  BY DEF Traced
<1>. QED  BY <1>1, TracedAlways, PTL

----------------------------------------------------------------------------
(* No call without media.                                                   *)

Media == MediaFirst /\ NoCallWithoutMedia

LEMMA MediaStep == TypeOK /\ Media /\ [Next]_vars => Media'
<1>. SUFFICES ASSUME TypeOK, Media, [Next]_vars PROVE Media'
  OBVIOUS
<1>. USE DEF Media, MediaFirst, NoCallWithoutMedia
<1>. USE DEF campVars, rowVars, tickVars, callVars, EngineUnchanged
<1>1. CASE media
  <2>1. media'
    BY <1>1
       DEF Next, vars, Tick, SelectCampaign, StartCampaign, ExpireRows,
           ExpireCampaign, CountRows, PlanFinish, PlanWait, PlanFill,
           CompleteCampaign, SynthesizeMedia, SynthesisFails, ClaimRows,
           BookClaim, Originate, Handler, AnswerRow, AnswerCount, HangupRead,
           HangupComplete, HangupRetry, HangupFail, HangupCount, JobFail,
           JobCount, FailRow, Counted, Originating, Telephone, FsRing,
           DispatchRejected, ReplyTimeout, FsAnswer, FsHangup, RetryDue,
           TimeoutElapses, Recovery, RecoverDialing, RecoverAnswered,
           SyncCounters, Operator, PauseCampaign, ResumeCampaign, CancelRows,
           CancelCampaign, DispatchThrows, Crash, Restart
  <2>. QED  BY <2>1
<1>2. CASE ~media
  <2>1. /\ pc \notin {"claim", "book", "originate"} /\ batch = {}
        /\ InFlight = {}
        /\ \A c \in Call : job[c] = "none" /\ call[c] = "none"
    BY <1>2
  <2>2. ASSUME InFlight' \subseteq InFlight, UNCHANGED <<call, job, batch>>,
               pc' \notin {"claim", "book", "originate"} \/ media'
        PROVE  Media'
    BY <2>1, <2>2
  <2>3. CASE UNCHANGED vars
    BY <2>1, <2>2, <2>3 DEF vars, InFlight, InStatus
  <2>4. CASE Tick
    BY <1>2, <2>1, <2>2, <2>4
       DEF Tick, SelectCampaign, StartCampaign, ExpireRows, ExpireCampaign,
           CountRows, PlanFinish, PlanWait, PlanFill, CompleteCampaign,
           SynthesizeMedia, SynthesisFails, ClaimRows, BookClaim, Originate,
           InFlight, InStatus
  <2>5. ASSUME NEW c \in Call, Handler(c) PROVE Media'
    <3>1. InFlight' \subseteq InFlight /\ pc' = pc
      BY <2>5, HandlersRelease
    <3>2. UNCHANGED <<call, job, batch>>
      BY <2>1, <2>5
         DEF Handler, AnswerRow, AnswerCount, HangupRead, HangupComplete,
             HangupRetry, HangupFail, HangupCount, JobFail, JobCount, FailRow,
             Counted
    <3>. QED  BY <2>1, <2>2, <3>1, <3>2
  <2>6. ASSUME NEW c \in Call PROVE ~Originating(c) /\ ~Telephone(c)
    BY <2>1, <2>6
       DEF Originating, Telephone, FsRing, DispatchRejected, ReplyTimeout,
           FsAnswer, FsHangup
  <2>7. CASE \/ \E d \in Dest : RetryDue(d)
             \/ TimeoutElapses \/ Recovery \/ Operator
    <3>1. InFlight' \subseteq InFlight /\ pc' = pc
      BY <2>7, HandlersRelease
    <3>2. UNCHANGED <<call, job, batch>>
      BY <2>7
         DEF RetryDue, TimeoutElapses, Recovery, RecoverDialing,
             RecoverAnswered, SyncCounters, Operator, PauseCampaign,
             ResumeCampaign, CancelRows, CancelCampaign
    <3>. QED  BY <2>1, <2>2, <3>1, <3>2
  <2>8. CASE DispatchThrows \/ Crash \/ Restart
    BY <2>1, <2>8
       DEF DispatchThrows, Crash, Restart, Forget, InFlight, InStatus
  <2>. QED  BY <2>3, <2>4, <2>5, <2>6, <2>7, <2>8 DEF Next
<1>. QED  BY <1>1, <1>2

LEMMA MediaAlways == Spec => []Media
<1>1. Init => Media
  BY DEF Init, Media, MediaFirst, NoCallWithoutMedia, InFlight, InStatus
<1>. QED  BY <1>1, MediaStep, TypeCorrect, PTL DEF Spec

\* No row is claimed and no call placed before the campaign has something to
\* play, however often speech synthesis fails in between.
THEOREM MediaHolds == Spec => []NoCallWithoutMedia
<1>1. Media => NoCallWithoutMedia
  BY DEF Media
<1>. QED  BY <1>1, MediaAlways, PTL

\* The conjunction that the runs EnsRounds and EnsEnds check: the tick's plan
\* reserves its slots, a row is in one pair of hands and is not claimed past its
\* budget, whatever an answer leads to goes back to a call that talked, the media
\* come first and every call is fresh.
THEOREM EngineHolds == Spec => []EngineInv
<1>1. Limit /\ Claims /\ Budget /\ Traced /\ Media /\ FreshCalls => EngineInv
  BY DEF Limit, Claims, Budget, Traced, Media, EngineInv
<1>. QED
  BY <1>1, LimitAlways, ClaimsAlways, BudgetAlways, TracedAlways, MediaAlways,
     FreshAlways, PTL

----------------------------------------------------------------------------
(* The promise of BlastOutcome.                                             *)

\* Nothing of destination d changes in a step, but for a due time that moves on.
Same(d) ==
  /\ status'[d] = status[d] /\ attempts'[d] = attempts[d]
  /\ uuid'[d] = uuid[d]
  /\ d \in batch' <=> d \in batch
  /\ d \in answeredAt' <=> d \in answeredAt
  /\ d \in due' => d \in due
  /\ \A k \in 1..ClaimBound :
       /\ call'[<<d, k>>] = call[<<d, k>>] /\ ans'[<<d, k>>] = ans[<<d, k>>]
       /\ hup'[<<d, k>>] = hup[<<d, k>>] /\ job'[<<d, k>>] = job[<<d, k>>]

\* The steps that are about destination d.
Concerns(d) ==
  \/ ExpireRows \/ CancelRows
  \/ \E S \in SUBSET Dest : d \in S /\ ClaimRows(S)
  \/ \E S \in SUBSET Dest : RecoverDialing(S) \/ RecoverAnswered(S)
  \/ Originate(d) \/ RetryDue(d)
  \/ \E k \in 1..ClaimBound :
       \/ Handler(<<d, k>>) \/ Originating(<<d, k>>) \/ Telephone(<<d, k>>)

\* A step on one call leaves the other destinations alone.
LEMMA SameElsewhere ==
  ASSUME TypeOK, NEW d \in Dest, NEW c \in Call, c[1] # d,
         Handler(c) \/ Originating(c) \/ Telephone(c)
  PROVE  Same(d)
<1>. USE DEF campVars, rowVars, tickVars, callVars, EngineUnchanged, Set, Same
<1>1. /\ \A k \in 1..ClaimBound : <<d, k>> # c /\ <<d, k>> \in Call
      /\ call \in [Call -> {"none", "ringing", "live", "missed", "ended"}]
      /\ ans \in [Call -> {"none", "sent", "count", "done"}]
      /\ hup \in [Call -> {"none", "sent", "complete", "retry", "fail",
                           "countCompleted", "countRetry", "countFailed", "done"}]
      /\ job \in [Call -> {"none", "resolving", "sent", "rejected",
                           "countFailed", "done"}]
      /\ status \in [Dest -> DestStatus] /\ uuid \in [Dest -> 0..ClaimBound]
  BY DEF Call, TypeOK
<1>2. CASE AnswerRow(c)
  BY <1>1, <1>2 DEF AnswerRow
<1>3. CASE AnswerCount(c)
  BY <1>1, <1>3 DEF AnswerCount
<1>4. CASE HangupRead(c)
  BY <1>1, <1>4 DEF HangupRead
<1>5. CASE HangupComplete(c)
  BY <1>1, <1>5 DEF HangupComplete
<1>6. CASE HangupRetry(c)
  BY <1>1, <1>6 DEF HangupRetry
<1>7. CASE HangupFail(c)
  BY <1>1, <1>7 DEF HangupFail, FailRow
<1>8. CASE HangupCount(c)
  BY <1>1, <1>8 DEF HangupCount, Counted
<1>9. CASE JobFail(c)
  BY <1>1, <1>9 DEF JobFail, FailRow
<1>10. CASE JobCount(c)
  BY <1>1, <1>10 DEF JobCount, Counted
<1>11. CASE FsRing(c)
  BY <1>1, <1>11 DEF FsRing
<1>12. CASE DispatchRejected(c) \/ ReplyTimeout(c)
  BY <1>1, <1>12 DEF DispatchRejected, ReplyTimeout
<1>13. CASE FsAnswer(c)
  BY <1>1, <1>13 DEF FsAnswer
<1>14. CASE FsHangup(c)
  BY <1>1, <1>14 DEF FsHangup
<1>. QED
  BY <1>2, <1>3, <1>4, <1>5, <1>6, <1>7, <1>8, <1>9, <1>10, <1>11, <1>12, <1>13,
     <1>14 DEF Handler, Originating, Telephone

\* So every step leaves d as it is, is about d, or is a fault of the engine.
LEMMA SameOrAbout ==
  ASSUME TypeOK, BatchInHand, [Next]_vars, NEW d \in Dest
  PROVE  Same(d) \/ Concerns(d) \/ DispatchThrows \/ Crash
<1>. USE DEF campVars, rowVars, tickVars, callVars
<1>1. CASE UNCHANGED vars
  BY <1>1 DEF vars, Same
<1>2. CASE Tick
  <2>1. CASE \/ SelectCampaign \/ StartCampaign \/ ExpireCampaign \/ CountRows
             \/ PlanFinish \/ PlanWait \/ (\E n \in 1..BatchSize : PlanFill(n))
             \/ CompleteCampaign \/ SynthesizeMedia \/ SynthesisFails
             \/ BookClaim
    BY <2>1
       DEF SelectCampaign, StartCampaign, ExpireCampaign, CountRows, PlanFinish,
           PlanWait, PlanFill, CompleteCampaign, SynthesizeMedia,
           SynthesisFails, BookClaim, Same
  <2>2. CASE ExpireRows
    BY <2>2 DEF Concerns
  <2>3. ASSUME NEW S \in SUBSET Dest, ClaimRows(S), d \notin S PROVE Same(d)
    <3>1. d \notin batch
      BY <2>3 DEF ClaimRows, BatchInHand
    <3>. QED  BY <2>3, <3>1 DEF ClaimRows, Same
  <2>4. ASSUME NEW e \in Dest, Originate(e), e # d PROVE Same(d)
    <3>1. \A k \in 1..ClaimBound : <<d, k>> \in Call /\ <<d, k>> # Current(e)
      BY <2>4 DEF Call, Current
    <3>. QED  BY <2>4, <3>1 DEF Originate, TypeOK, Same
  <2>. QED  BY <1>2, <2>1, <2>2, <2>3, <2>4 DEF Tick, Concerns
<1>3. ASSUME NEW c \in Call, Handler(c) \/ Originating(c) \/ Telephone(c)
      PROVE  Same(d) \/ Concerns(d)
  <2>1. c = <<c[1], c[2]>> /\ c[2] \in 1..ClaimBound
    BY DEF Call
  <2>2. CASE c[1] = d
    BY <1>3, <2>1, <2>2 DEF Concerns
  <2>. QED  BY <1>3, <2>2, SameElsewhere
<1>4. ASSUME NEW e \in Dest, RetryDue(e), e # d PROVE Same(d)
  BY <1>4 DEF RetryDue, Same
<1>5. CASE TimeoutElapses \/ SyncCounters \/ PauseCampaign \/ ResumeCampaign
           \/ CancelCampaign \/ Restart
  BY <1>5 DEF TimeoutElapses, SyncCounters, PauseCampaign, ResumeCampaign,
              CancelCampaign, Restart, Same
<1>. QED
  BY <1>1, <1>2, <1>3, <1>4, <1>5 DEF Next, Recovery, Operator, Concerns

\* Where a verdict on the row of d can come from, faults or not: a handler that
\* is going to write one has the latest call, which has ended, and nothing else
\* has decided the row meanwhile but a failure.
Verdicts(d) ==
  /\ d \in batch => status[d] \in {"dialing", "failed"}
  /\ \A k \in 1..ClaimBound :
       /\ hup[<<d, k>>] # "none" => call[<<d, k>>] \in {"missed", "ended"}
       /\ job[<<d, k>>] = "resolving" \/ call[<<d, k>>] = "ringing"
            => k = attempts[d] /\ d \notin batch /\ status[d] \in {"dialing", "failed"}
       /\ hup[<<d, k>>] \in {"complete", "retry", "fail"}
            => /\ k = attempts[d] /\ d \notin batch
               /\ status[d] \in {"dialing", "answered", "failed"}
       /\ uuid[d] = k
            => \/ status[d] \in {"dialing", "answered", "failed"}
               \/ status[d] = "completed" /\ hup[<<d, k>>] \notin {"none", "sent"}

LEMMA VerdictsHandler ==
  ASSUME TypeOK, Claims, FreshCalls, AnswerTraced, NEW d \in Dest, Verdicts(d),
         NEW k \in 1..ClaimBound, Handler(<<d, k>>)
  PROVE  Verdicts(d)'
<1>. DEFINE c == <<d, k>>
<1>0. /\ c \in Call /\ c[1] = d /\ c[2] = k
      /\ \A j \in 1..ClaimBound : <<d, j>> \in Call
      /\ \A j \in 1..ClaimBound : <<d, j>> = c <=> j = k
      /\ ans \in [Call -> {"none", "sent", "count", "done"}]
      /\ hup \in [Call -> {"none", "sent", "complete", "retry", "fail",
                           "countCompleted", "countRetry", "countFailed", "done"}]
      /\ job \in [Call -> {"none", "resolving", "sent", "rejected",
                           "countFailed", "done"}]
      /\ status \in [Dest -> DestStatus] /\ uuid \in [Dest -> 0..ClaimBound]
  BY DEF Call, TypeOK
<1>1. /\ UNCHANGED <<attempts, batch, call>>
      /\ Handler(c)
  BY DEF Handler, AnswerRow, AnswerCount, HangupRead, HangupComplete,
         HangupRetry, HangupFail, HangupCount, JobFail, JobCount, FailRow,
         Counted, EngineUnchanged, rowVars, tickVars
\* A call that has ended is neither being dialled nor ringing.
<1>2. ASSUME call[c] \in {"live", "missed", "ended"}, k = attempts[d]
      PROVE  \A j \in 1..ClaimBound : /\ job[<<d, j>>] # "resolving"
                                      /\ call[<<d, j>>] # "ringing"
  BY <1>0, <1>2 DEF Verdicts, FreshCalls
<1>. HIDE DEF c
<1>. USE DEF Set, Verdicts
<1>3. CASE AnswerRow(c)
  <2>1. ans[c] = "sent" /\ UNCHANGED <<uuid, hup, job>>
    BY <1>3 DEF AnswerRow, rowVars
  <2>2. CASE Names(c) /\ status[d] = "dialing"
    <3>1. status' = [status EXCEPT ![d] = "answered"]
      BY <1>0, <1>3, <2>2 DEF AnswerRow
    <3>2. k = uuid[d] /\ k = attempts[d] /\ d \notin batch
      BY <1>0, <2>2 DEF Names, Claims, UuidNamesCurrentAttempt, ClaimedOnce
    <3>3. call[c] \in {"live", "ended"}
      BY <2>1 DEF AnswerTraced, c
    <3>4. \A j \in 1..ClaimBound : /\ job[<<d, j>>] # "resolving"
                                   /\ call[<<d, j>>] # "ringing"
      BY <1>2, <3>2, <3>3
    <3>5. status'[d] = "answered"
      BY <1>0, <3>1
    <3>. QED  BY <1>0, <1>1, <2>1, <3>2, <3>4, <3>5
  <2>3. CASE ~(Names(c) /\ status[d] = "dialing")
    <3>1. status' = status
      BY <1>0, <1>3, <2>3 DEF AnswerRow
    <3>. QED  BY <1>1, <2>1, <3>1
  <2>. QED  BY <2>2, <2>3
<1>4. CASE AnswerCount(c)
  <2>1. UNCHANGED <<status, uuid, hup, job>>
    BY <1>4 DEF AnswerCount, rowVars
  <2>. QED  BY <1>1, <2>1
<1>5. CASE HangupRead(c)
  <2>1. /\ hup[c] = "sent" /\ UNCHANGED <<status, uuid, job>>
        /\ \A j \in 1..ClaimBound : j # k => hup'[<<d, j>>] = hup[<<d, j>>]
        /\ hup'[c] \in {"complete", "retry", "fail", "done"}
        /\ ~Names(c) => hup'[c] = "done"
    BY <1>0, <1>5 DEF HangupRead, EngineUnchanged, rowVars
  <2>2. ASSUME Names(c)
        PROVE  /\ k = attempts[d] /\ d \notin batch
               /\ status[d] \in {"dialing", "answered", "failed"}
    BY <1>0, <2>1, <2>2 DEF Names, Claims, UuidNamesCurrentAttempt, ClaimedOnce, c
  <2>. QED  BY <1>0, <1>1, <2>1, <2>2
<1>6. CASE HangupComplete(c)
  <2>1. /\ hup[c] = "complete" /\ status'[d] = "completed"
        /\ \A j \in 1..ClaimBound : j # k => hup'[<<d, j>>] = hup[<<d, j>>]
        /\ hup'[c] = "countCompleted" /\ UNCHANGED <<uuid, job>>
    BY <1>0, <1>6 DEF HangupComplete
  <2>2. k = attempts[d] /\ d \notin batch /\ call[c] \in {"missed", "ended"}
    BY <1>0, <2>1 DEF c
  <2>3. uuid[d] # 0 => uuid[d] = k
    BY <2>2 DEF Claims, UuidNamesCurrentAttempt
  <2>. QED  BY <1>0, <1>1, <1>2, <2>1, <2>2, <2>3
<1>7. CASE HangupRetry(c)
  <2>1. /\ hup[c] = "retry" /\ status'[d] = "queued" /\ uuid'[d] = 0
        /\ \A j \in 1..ClaimBound : j # k => hup'[<<d, j>>] = hup[<<d, j>>]
        /\ hup'[c] = "countRetry" /\ UNCHANGED job
    BY <1>0, <1>7 DEF HangupRetry
  <2>2. k = attempts[d] /\ d \notin batch /\ call[c] \in {"missed", "ended"}
    BY <1>0, <2>1 DEF c
  <2>. QED  BY <1>0, <1>1, <1>2, <2>1, <2>2
<1>8. CASE HangupFail(c) \/ HangupCount(c) \/ JobFail(c) \/ JobCount(c)
  <2>1. /\ \/ status'[d] = "failed" /\ uuid'[d] = 0
           \/ UNCHANGED <<status, uuid>>
        /\ \A j \in 1..ClaimBound :
             /\ j # k => hup'[<<d, j>>] = hup[<<d, j>>] /\ job'[<<d, j>>] = job[<<d, j>>]
        /\ \/ hup'[c] = hup[c]
           \/ hup[c] \notin {"none", "sent"} /\ hup'[c] \in {"countFailed", "done"}
        /\ job'[c] = job[c] \/ job'[c] # "resolving"
    BY <1>0, <1>8
       DEF HangupFail, HangupCount, JobFail, JobCount, FailRow, Counted, rowVars
  <2>. QED  BY <1>0, <1>1, <2>1
<1>. QED
  BY <1>1, <1>3, <1>4, <1>5, <1>6, <1>7, <1>8 DEF Handler

LEMMA VerdictsLine ==
  ASSUME TypeOK, FreshCalls, NEW d \in Dest, Verdicts(d),
         NEW k \in 1..ClaimBound, Originating(<<d, k>>) \/ Telephone(<<d, k>>)
  PROVE  Verdicts(d)'
<1>. DEFINE c == <<d, k>>
<1>0. /\ c \in Call
      /\ \A j \in 1..ClaimBound : <<d, j>> \in Call
      /\ \A j \in 1..ClaimBound : <<d, j>> = c <=> j = k
      /\ call \in [Call -> {"none", "ringing", "live", "missed", "ended"}]
      /\ hup \in [Call -> {"none", "sent", "complete", "retry", "fail",
                           "countCompleted", "countRetry", "countFailed", "done"}]
      /\ job \in [Call -> {"none", "resolving", "sent", "rejected",
                           "countFailed", "done"}]
  BY DEF Call, TypeOK
<1>1. Originating(c) \/ Telephone(c)
  OBVIOUS
<1>2. job[c] = "resolving" => call[c] = "none"
  BY <1>0 DEF FreshCalls
<1>. HIDE DEF c
<1>. USE DEF Set, EngineUnchanged, rowVars, tickVars
<1>3. UNCHANGED <<status, uuid, attempts, batch>>
  BY <1>1 DEF Originating, Telephone, FsRing, DispatchRejected, ReplyTimeout,
              FsAnswer, FsHangup
<1>4. \A j \in 1..ClaimBound :
        j # k => /\ call'[<<d, j>>] = call[<<d, j>>]
                 /\ hup'[<<d, j>>] = hup[<<d, j>>] /\ job'[<<d, j>>] = job[<<d, j>>]
  BY <1>0, <1>1 DEF Originating, Telephone, FsRing, DispatchRejected,
                    ReplyTimeout, FsAnswer, FsHangup
<1>5. /\ job'[c] = "resolving" => job[c] = "resolving"
      /\ call'[c] = "ringing" => call[c] = "ringing" \/ job[c] = "resolving"
      /\ \/ hup'[c] = hup[c] /\ (hup[c] # "none" => call'[c] = call[c])
         \/ hup'[c] \in {"sent", "done"} /\ hup[c] = "none"
              /\ call'[c] \in {"missed", "ended"}
  <2>1. call[c] \in {"none", "ringing", "live"} => hup[c] = "none"
    BY <1>0 DEF Verdicts, c
  <2>2. CASE Originating(c)
    BY <1>0, <1>2, <2>1, <2>2 DEF Originating, FsRing, DispatchRejected, ReplyTimeout
  <2>3. CASE FsAnswer(c)
    <3>1. job[c] # "resolving" /\ hup[c] = "none"
      BY <1>2, <2>1, <2>3 DEF FsAnswer
    <3>. QED  BY <1>0, <2>3, <3>1 DEF FsAnswer
  <2>4. CASE FsHangup(c)
    <3>1. job[c] # "resolving" /\ hup[c] = "none"
      BY <1>2, <2>1, <2>4 DEF FsHangup
    <3>. QED  BY <1>0, <2>4, <3>1 DEF FsHangup
  <2>. QED  BY <1>1, <2>2, <2>3, <2>4 DEF Telephone
<1>. QED  BY <1>0, <1>3, <1>4, <1>5 DEF Verdicts

LEMMA VerdictsStep ==
  ASSUME TypeOK, Claims, Numbered, FreshCalls, AnswerTraced, BatchInHand,
         [Next]_vars, NEW d \in Dest, Verdicts(d)
  PROVE  Verdicts(d)'
<1>. USE DEF campVars, rowVars, tickVars, callVars
<1>0. /\ \A k \in 1..ClaimBound : <<d, k>> \in Call
      /\ status \in [Dest -> DestStatus] /\ uuid \in [Dest -> 0..ClaimBound]
      /\ attempts \in [Dest -> 0..ClaimBound] /\ batch \subseteq Dest
      /\ job \in [Call -> {"none", "resolving", "sent", "rejected",
                           "countFailed", "done"}]
  BY DEF Call, TypeOK
<1>1. CASE Same(d)
  BY <1>1 DEF Verdicts, Same
<1>2. CASE ExpireRows \/ CancelRows
  <2>1. /\ \/ status'[d] = status[d]
           \/ status[d] = "queued" /\ status'[d] \in {"expired", "skipped"}
        /\ UNCHANGED <<uuid, attempts, batch, call, hup, job>>
    BY <1>0, <1>2 DEF ExpireRows, CancelRows
  <2>2. status[d] = "queued" => uuid[d] = 0
    BY DEF Claims, ClaimedOnce
  <2>. QED  BY <2>1, <2>2 DEF Verdicts
<1>3. ASSUME NEW S \in SUBSET Dest, d \in S, ClaimRows(S) PROVE Verdicts(d)'
  <2>1. /\ status[d] = "queued" /\ status'[d] = "dialing" /\ uuid'[d] = 0
        /\ UNCHANGED <<call, hup, job>>
    BY <1>3 DEF ClaimRows, Ready, InStatus
  <2>. QED  BY <2>1 DEF Verdicts
<1>4. ASSUME NEW S \in SUBSET Dest, RecoverDialing(S) PROVE Verdicts(d)'
  <2>1. /\ d \in S => /\ status[d] = "dialing" /\ d \notin batch /\ Quiet(d)
                      /\ call[Current(d)] # "ringing"
        /\ status'[d] = IF d \in S THEN "queued" ELSE status[d]
        /\ uuid'[d] = IF d \in S THEN 0 ELSE uuid[d]
        /\ UNCHANGED <<attempts, batch, call, hup, job>>
    BY <1>4 DEF RecoverDialing, StaleDialing, InStatus
  <2>2. ASSUME d \in S, NEW k \in 1..ClaimBound
        PROVE  /\ job[<<d, k>>] # "resolving" /\ call[<<d, k>>] # "ringing"
               /\ hup[<<d, k>>] \in {"none", "done"}
    BY <2>1, <2>2 DEF Verdicts, Quiet, Current
  <2>. QED  BY <2>1, <2>2 DEF Verdicts
<1>5. ASSUME NEW S \in SUBSET Dest, RecoverAnswered(S) PROVE Verdicts(d)'
  <2>1. /\ d \in S => status[d] = "answered" /\ Quiet(d)
        /\ status'[d] = IF d \in S THEN "completed" ELSE status[d]
        /\ uuid'[d] = IF d \in S THEN 0 ELSE uuid[d]
        /\ UNCHANGED <<attempts, batch, call, hup, job>>
    BY <1>5 DEF RecoverAnswered, StaleAnswered, InStatus
  <2>2. ASSUME d \in S, NEW k \in 1..ClaimBound
        PROVE  hup[<<d, k>>] \in {"none", "done"}
    BY <2>1, <2>2 DEF Quiet
  <2>. QED  BY <2>1, <2>2 DEF Verdicts
<1>6. CASE Originate(d)
  <2>1. /\ d \in batch /\ d \notin batch' /\ uuid'[d] = attempts[d]
        /\ job' = [job EXCEPT ![Current(d)] = "resolving"]
        /\ UNCHANGED <<status, attempts, call, hup>>
    BY <1>0, <1>6 DEF Originate
  <2>2. \A k \in 1..ClaimBound :
          job'[<<d, k>>] = "resolving" => k = attempts[d] \/ job[<<d, k>>] = "resolving"
    BY <1>0, <2>1 DEF Current
  <2>. QED  BY <2>1, <2>2 DEF Verdicts
<1>7. CASE RetryDue(d)
  BY <1>7 DEF RetryDue, Verdicts
<1>8. CASE DispatchThrows
  BY <1>8 DEF DispatchThrows, Verdicts
<1>9. CASE Crash
  <2>1. /\ batch' = {} /\ UNCHANGED <<status, attempts, uuid, call>>
        /\ \A k \in 1..ClaimBound :
             /\ hup'[<<d, k>>] = IF hup[<<d, k>>] = "none" THEN "none" ELSE "done"
             /\ job'[<<d, k>>] = IF job[<<d, k>>] = "none" THEN "none" ELSE "done"
    BY <1>0, <1>9 DEF Crash, Forget
  <2>2. ASSUME NEW k \in 1..ClaimBound
        PROVE  /\ hup'[<<d, k>>] \in {"none", "done"}
               /\ hup'[<<d, k>>] = "none" => hup[<<d, k>>] = "none"
               /\ hup[<<d, k>>] = "none" => hup'[<<d, k>>] = "none"
               /\ job'[<<d, k>>] # "resolving"
    BY <2>1
  <2>. QED  BY <2>1, <2>2 DEF Verdicts
<1>. QED
  BY <1>0, <1>1, <1>2, <1>3, <1>4, <1>5, <1>6, <1>7, <1>8, <1>9, SameOrAbout,
     VerdictsHandler, VerdictsLine
     DEF Concerns

AllVerdicts == \A d \in Dest : Verdicts(d)

LEMMA VerdictsAlways == Spec => []AllVerdicts
<1>1. Init => AllVerdicts
  BY DEF Init, AllVerdicts, Verdicts, Call
<1>2. /\ TypeOK /\ Claims /\ Numbered /\ FreshCalls /\ Traced /\ BatchInHand
      /\ AllVerdicts /\ [Next]_vars
      => AllVerdicts'
  BY VerdictsStep DEF AllVerdicts, Traced
<1>. QED
  BY <1>1, <1>2, TypeCorrect, ClaimsAlways, FreshAlways, TracedAlways,
     BatchAlways, PTL
     DEF Spec

\* A verdict on d is due from its k-th call.
DueFrom(d, k) ==
  \/ hup[<<d, k>>] = "sent" /\ uuid[d] = k
  \/ hup[<<d, k>>] \in {"complete", "retry", "fail"}
  \/ /\ job[<<d, k>>] = "rejected" \/ (job[<<d, k>>] = "sent" /\ call[<<d, k>>] # "ringing")
     /\ status[d] # "failed"
  \/ /\ status[d] = "failed"
     /\ \/ d \in batch
        \/ /\ uuid[d] = k
           /\ job[<<d, k>>] = "resolving" \/ call[<<d, k>>] \in {"ringing", "live"}

LEMMA DueIs ==
  ASSUME NEW d \in Dest
  PROVE  /\ d \in VerdictDue <=> \E k \in 1..ClaimBound : DueFrom(d, k)
         /\ d \in VerdictDue' <=> \E k \in 1..ClaimBound : DueFrom(d, k)'
BY DEF VerdictDue, DueFrom, UnderWay, Names

\* The outcome of a row, one status at a time.
LEMMA OutcomeOf ==
  ASSUME NEW d \in Dest
  PROVE  /\ status[d] = "queued" => RowOutcome[d] = "waiting"
         /\ status[d] \in {"dialing", "answered"} => RowOutcome[d] = "active"
         /\ status[d] = "completed" => RowOutcome[d] = "delivered"
         /\ status[d] = "failed" => RowOutcome[d] = "failed"
         /\ status[d] \in {"expired", "skipped"} => RowOutcome[d] = "dropped"
<1>1. RowOutcome[d] = CASE status[d] = "queued"                  -> "waiting"
                        [] status[d] \in {"dialing", "answered"} -> "active"
                        [] status[d] = "completed"               -> "delivered"
                        [] status[d] = "failed"                  -> "failed"
                        [] OTHER                                 -> "dropped"
  BY DEF RowOutcome
<1>. QED  BY <1>1

LEMMA OutcomeThen ==
  ASSUME NEW d \in Dest
  PROVE  /\ status'[d] = "queued" => RowOutcome'[d] = "waiting"
         /\ status'[d] \in {"dialing", "answered"} => RowOutcome'[d] = "active"
         /\ status'[d] = "completed" => RowOutcome'[d] = "delivered"
         /\ status'[d] = "failed" => RowOutcome'[d] = "failed"
         /\ status'[d] \in {"expired", "skipped"} => RowOutcome'[d] = "dropped"
         /\ status'[d] = status[d] => RowOutcome'[d] = RowOutcome[d]
<1>1. RowOutcome'[d] = CASE status'[d] = "queued"                  -> "waiting"
                         [] status'[d] \in {"dialing", "answered"} -> "active"
                         [] status'[d] = "completed"               -> "delivered"
                         [] status'[d] = "failed"                  -> "failed"
                         [] OTHER                                  -> "dropped"
  BY DEF RowOutcome
<1>2. status'[d] = status[d] => RowOutcome'[d] = RowOutcome[d]
  BY DEF RowOutcome
<1>. QED  BY <1>1, <1>2

LEMMA ActiveInFlight ==
  ASSUME TypeOK
  PROVE  Promise!Active = InFlight
<1>1. \A d \in Dest : status[d] \in DestStatus
  BY DEF TypeOK
<1>2. \A d \in Dest : RowOutcome[d] = "active" <=> status[d] \in {"dialing", "answered"}
  BY <1>1, OutcomeOf DEF DestStatus
<1>. QED  BY <1>2 DEF Promise!Active, InFlight, InStatus

\* What a step may do to one row, in terms of BlastOutcome.
Keeps(d) == /\ RowOutcome'[d] = RowOutcome[d]
            /\ d \in VerdictDue' => d \in VerdictDue
Ends(d) == /\ RowOutcome'[d] = "active" /\ RowOutcome[d] = "active"
           /\ d \in VerdictDue'
Decides(d) == /\ d \in VerdictDue
              /\ RowOutcome'[d] \in {"waiting", "delivered", "failed"}
              /\ RowOutcome'[d] # "failed" => RowOutcome[d] \in {"active", "failed"}

LEMMA SameKeeps ==
  ASSUME NEW d \in Dest, Same(d)
  PROVE  /\ RowOutcome'[d] = RowOutcome[d]
         /\ d \in VerdictDue' <=> d \in VerdictDue
<1>1. RowOutcome'[d] = RowOutcome[d]
  BY OutcomeThen DEF Same
<1>2. \A k \in 1..ClaimBound : DueFrom(d, k)' <=> DueFrom(d, k)
  BY DEF Same, DueFrom
<1>. QED  BY <1>1, <1>2, DueIs

\* A step about one row is a step of BlastOutcome, or stutters.
LEMMA OneRow ==
  ASSUME NEW d \in Dest, \A e \in Dest : e # d => Same(e),
         Keeps(d) \/ Ends(d) \/ Decides(d)
  PROVE  Promise!Next
<1>1. /\ RowOutcome = [e \in Dest |-> RowOutcome[e]]
      /\ RowOutcome' = [e \in Dest |-> RowOutcome'[e]]
      /\ VerdictDue \subseteq Dest /\ VerdictDue' \subseteq Dest
  BY DEF RowOutcome, VerdictDue
<1>2. \A e \in Dest : e # d => /\ RowOutcome'[e] = RowOutcome[e]
                               /\ e \in VerdictDue' <=> e \in VerdictDue
  BY SameKeeps
<1>3. CASE Keeps(d)
  <2>1. RowOutcome' = RowOutcome /\ VerdictDue' \subseteq VerdictDue
    BY <1>1, <1>2, <1>3 DEF Keeps
  <2>. QED  BY <2>1 DEF Promise!Forget, Promise!Next
<1>4. CASE Ends(d)
  <2>1. RowOutcome' = RowOutcome
    BY <1>1, <1>2, <1>4 DEF Ends
  <2>2. VerdictDue' = VerdictDue \cup {d}
    BY <1>1, <1>2, <1>4 DEF Ends
  <2>3. d \in Promise!Active
    BY <1>4 DEF Ends, Promise!Active
  <2>. QED  BY <2>1, <2>2, <2>3 DEF Promise!End, Promise!Next
<1>5. CASE Decides(d)
  <2>1. RowOutcome' = [RowOutcome EXCEPT ![d] = RowOutcome'[d]]
    BY <1>1, <1>2
  <2>2. VerdictDue' = VerdictDue \/ VerdictDue' = VerdictDue \ {d}
    <3>1. CASE d \in VerdictDue'
      <4>1. VerdictDue' = VerdictDue
        BY <1>1, <1>2, <1>5, <3>1 DEF Decides
      <4>. QED  BY <4>1
    <3>2. CASE d \notin VerdictDue'
      <4>1. VerdictDue' = VerdictDue \ {d}
        BY <1>1, <1>2, <3>2
      <4>. QED  BY <4>1
    <3>. QED  BY <3>1, <3>2
  <2>3. Promise!Verdict(d)
    BY <1>5, <2>1, <2>2 DEF Decides, Promise!Verdict
  <2>. QED  BY <2>3 DEF Promise!Next
<1>. QED  BY <1>3, <1>4, <1>5

LEMMA PromiseHandler ==
  ASSUME TypeOK, NEW d \in Dest, Verdicts(d),
         NEW k \in 1..ClaimBound, Handler(<<d, k>>)
  PROVE  Keeps(d) \/ Decides(d)
<1>. DEFINE c == <<d, k>>
<1>0. /\ c \in Call /\ c[1] = d /\ c[2] = k
      /\ \A j \in 1..ClaimBound : <<d, j>> \in Call
      /\ \A j \in 1..ClaimBound : <<d, j>> = c <=> j = k
      /\ hup \in [Call -> {"none", "sent", "complete", "retry", "fail",
                           "countCompleted", "countRetry", "countFailed", "done"}]
      /\ job \in [Call -> {"none", "resolving", "sent", "rejected",
                           "countFailed", "done"}]
      /\ status \in [Dest -> DestStatus] /\ uuid \in [Dest -> 0..ClaimBound]
  BY DEF Call, TypeOK
<1>1. Handler(c) /\ UNCHANGED <<batch, call>>
  BY DEF Handler, AnswerRow, AnswerCount, HangupRead, HangupComplete,
         HangupRetry, HangupFail, HangupCount, JobFail, JobCount, FailRow,
         Counted, EngineUnchanged, tickVars
<1>2. DueFrom(d, k) => d \in VerdictDue
  BY DueIs
<1>3. ASSUME RowOutcome'[d] = RowOutcome[d],
             \A j \in 1..ClaimBound : DueFrom(d, j)' => DueFrom(d, j)
      PROVE  Keeps(d)
  BY <1>3, DueIs DEF Keeps
<1>. HIDE DEF c
<1>. USE DEF Set
<1>4. CASE AnswerRow(c)
  <2>1. /\ UNCHANGED <<uuid, hup, job>>
        /\ \/ status'[d] = status[d]
           \/ status[d] = "dialing" /\ status'[d] = "answered"
    BY <1>0, <1>4 DEF AnswerRow, rowVars
  <2>2. RowOutcome'[d] = RowOutcome[d]
    BY <2>1, OutcomeOf, OutcomeThen
  <2>3. \A j \in 1..ClaimBound : DueFrom(d, j)' => DueFrom(d, j)
    BY <1>1, <2>1 DEF DueFrom
  <2>. QED  BY <1>3, <2>2, <2>3
<1>5. CASE AnswerCount(c) \/ HangupCount(c) \/ JobCount(c)
  <2>1. /\ UNCHANGED <<uuid, status>>
        /\ \A j \in 1..ClaimBound :
             /\ \/ hup'[<<d, j>>] = hup[<<d, j>>]
                \/ hup'[<<d, j>>] = "done"
             /\ \/ job'[<<d, j>>] = job[<<d, j>>]
                \/ job'[<<d, j>>] = "done"
    BY <1>0, <1>5 DEF AnswerCount, HangupCount, JobCount, Counted, rowVars
  <2>2. RowOutcome'[d] = RowOutcome[d]
    BY <2>1, OutcomeThen
  <2>3. \A j \in 1..ClaimBound : DueFrom(d, j)' => DueFrom(d, j)
    BY <1>1, <2>1 DEF DueFrom
  <2>. QED  BY <1>3, <2>2, <2>3
<1>6. CASE HangupRead(c)
  <2>1. /\ hup[c] = "sent" /\ UNCHANGED <<uuid, status, job>>
        /\ \A j \in 1..ClaimBound : j # k => hup'[<<d, j>>] = hup[<<d, j>>]
        /\ hup'[c] # "sent"
        /\ hup'[c] \in {"complete", "retry", "fail"} => uuid[d] = k
    BY <1>0, <1>6 DEF HangupRead, EngineUnchanged, rowVars, Names
  <2>2. RowOutcome'[d] = RowOutcome[d]
    BY <2>1, OutcomeThen
  <2>3. \A j \in 1..ClaimBound : DueFrom(d, j)' => DueFrom(d, j)
    BY <1>1, <2>1 DEF DueFrom, c
  <2>. QED  BY <1>3, <2>2, <2>3
<1>7. CASE HangupComplete(c) \/ HangupRetry(c) \/ HangupFail(c)
  <2>1. /\ hup[c] \in {"complete", "retry", "fail"}
        /\ status'[d] \in {"completed", "queued", "failed"}
    BY <1>0, <1>7 DEF HangupComplete, HangupRetry, HangupFail, FailRow
  <2>2. status[d] \in {"dialing", "answered", "failed"} /\ d \in VerdictDue
    BY <1>2, <2>1 DEF Verdicts, DueFrom, c
  <2>3. RowOutcome[d] \in {"active", "failed"}
    BY <2>2, OutcomeOf
  <2>4. RowOutcome'[d] \in {"waiting", "delivered", "failed"}
    BY <2>1, OutcomeThen
  <2>. QED  BY <2>2, <2>3, <2>4 DEF Decides
<1>8. CASE JobFail(c)
  <2>1. /\ job[c] = "rejected" /\ status'[d] = "failed" /\ uuid'[d] = 0
        /\ hup' = hup
    BY <1>0, <1>8 DEF JobFail, FailRow
  <2>2. CASE status[d] = "failed"
    <3>1. RowOutcome'[d] = RowOutcome[d]
      BY <2>1, <2>2, OutcomeThen
    <3>2. \A j \in 1..ClaimBound : DueFrom(d, j)' => DueFrom(d, j)
      BY <1>1, <2>1, <2>2 DEF DueFrom
    <3>. QED  BY <1>3, <3>1, <3>2
  <2>3. CASE status[d] # "failed"
    <3>1. d \in VerdictDue
      BY <1>2, <2>1, <2>3 DEF DueFrom, c
    <3>. QED  BY <2>1, <3>1, OutcomeThen DEF Decides
  <2>. QED  BY <2>2, <2>3
<1>. QED
  BY <1>1, <1>4, <1>5, <1>6, <1>7, <1>8 DEF Handler

\* FreeSWITCH decides nothing: it makes verdicts due, of rows in flight only.
LEMMA PromiseLine ==
  ASSUME TypeOK, FreshCalls, NEW d \in Dest, Verdicts(d),
         NEW k \in 1..ClaimBound, Originating(<<d, k>>) \/ Telephone(<<d, k>>)
  PROVE  Keeps(d) \/ Ends(d)
<1>. DEFINE c == <<d, k>>
<1>0. /\ c \in Call
      /\ \A j \in 1..ClaimBound : <<d, j>> \in Call
      /\ \A j \in 1..ClaimBound : <<d, j>> = c <=> j = k
      /\ call \in [Call -> {"none", "ringing", "live", "missed", "ended"}]
      /\ hup \in [Call -> {"none", "sent", "complete", "retry", "fail",
                           "countCompleted", "countRetry", "countFailed", "done"}]
      /\ job \in [Call -> {"none", "resolving", "sent", "rejected",
                           "countFailed", "done"}]
      /\ status[d] \in DestStatus
  BY DEF Call, TypeOK
<1>1. Originating(c) \/ Telephone(c)
  OBVIOUS
<1>2. /\ job[c] = "resolving" => call[c] = "none"
      /\ job[c] = "none" => call[c] = "none"
  BY <1>0 DEF FreshCalls
<1>. HIDE DEF c
<1>. USE DEF Set, EngineUnchanged, rowVars, tickVars
<1>3. /\ UNCHANGED <<status, uuid, batch>>
      /\ \A j \in 1..ClaimBound :
           j # k => /\ call'[<<d, j>>] = call[<<d, j>>]
                    /\ hup'[<<d, j>>] = hup[<<d, j>>] /\ job'[<<d, j>>] = job[<<d, j>>]
  BY <1>0, <1>1 DEF Originating, Telephone, FsRing, DispatchRejected,
                    ReplyTimeout, FsAnswer, FsHangup
<1>4. RowOutcome'[d] = RowOutcome[d]
  BY <1>3, OutcomeThen
<1>5. \A j \in 1..ClaimBound : j # k => (DueFrom(d, j)' <=> DueFrom(d, j))
  BY <1>3 DEF DueFrom
<1>6. CASE DueFrom(d, k)' => DueFrom(d, k)
  BY <1>4, <1>5, <1>6, DueIs DEF Keeps
<1>7. ASSUME DueFrom(d, k)', ~DueFrom(d, k)
      PROVE  status[d] \in {"dialing", "answered"}
  <2>. USE DEF Verdicts, DueFrom, c
  <2>1. CASE Originating(c)
    <3>1. /\ UNCHANGED hup
          /\ \/ /\ job[c] = "resolving" /\ job'[c] = "sent" /\ call'[c] = "ringing"
             \/ /\ job[c] = "resolving" /\ job'[c] = "rejected" /\ call' = call
             \/ /\ job[c] = "sent" /\ call[c] # "ringing" /\ job'[c] = "rejected"
                /\ call' = call
      BY <1>0, <2>1 DEF Originating, FsRing, DispatchRejected, ReplyTimeout
    <3>. QED  BY <1>3, <1>7, <3>1
  <2>2. CASE FsAnswer(c)
    <3>1. /\ UNCHANGED hup /\ call[c] = "ringing" /\ call'[c] = "live"
          /\ job'[c] \in {"done", job[c]}
      BY <1>0, <2>2 DEF FsAnswer
    <3>. QED  BY <1>3, <1>7, <3>1
  <2>3. CASE FsHangup(c)
    <3>1. /\ call[c] \in {"ringing", "live"} /\ call'[c] \in {"missed", "ended"}
          /\ hup'[c] \in {"sent", "done"}
          /\ \/ job'[c] = job[c]
             \/ call[c] = "ringing" /\ job'[c] \in {"rejected", "sent"}
      BY <1>0, <2>3 DEF FsHangup
    <3>. QED  BY <1>3, <1>7, <3>1
  <2>. QED  BY <1>1, <2>1, <2>2, <2>3 DEF Telephone
<1>8. CASE DueFrom(d, k)' /\ ~DueFrom(d, k)
  <2>1. d \in VerdictDue'
    BY <1>8, DueIs
  <2>2. status[d] \in {"dialing", "answered"}
    BY <1>7, <1>8
  <2>. QED  BY <1>4, <2>1, <2>2, OutcomeOf DEF Ends
<1>. QED  BY <1>6, <1>8

\* The engine's own steps write no verdict, and make none due: a claim starts its
\* rows, within the limit that holds after it.
LEMMA PromiseClaim ==
  ASSUME TypeOK, ClaimedOnce, BatchInHand, ConcurrencyLimit',
         NEW S \in SUBSET Dest, ClaimRows(S)
  PROVE  Promise!Next \/ UNCHANGED <<RowOutcome, VerdictDue>>
<1>1. /\ S \subseteq InStatus("queued") /\ batch = {} /\ batch' = S
      /\ \A d \in Dest : status'[d] = IF d \in S THEN "dialing" ELSE status[d]
      /\ \A d \in Dest : uuid'[d] = IF d \in S THEN 0 ELSE uuid[d]
      /\ UNCHANGED <<call, hup, job>>
  BY DEF ClaimRows, Ready, BatchInHand, callVars
<1>2. \A d \in S : status[d] = "queued" /\ uuid[d] = 0
  BY <1>1 DEF InStatus, ClaimedOnce
<1>3. ASSUME NEW d \in Dest, NEW k \in 1..ClaimBound
      PROVE  DueFrom(d, k)' <=> DueFrom(d, k)
  <2>1. CASE d \in S
    BY <1>1, <1>2, <2>1 DEF DueFrom
  <2>2. CASE d \notin S
    BY <1>1, <2>2 DEF DueFrom
  <2>. QED  BY <2>1, <2>2
<1>4. \A d \in Dest : d \in VerdictDue' <=> d \in VerdictDue
  BY <1>3, DueIs
<1>5. VerdictDue' = VerdictDue
  BY <1>4 DEF VerdictDue
<1>6. CASE S = {}
  <2>1. RowOutcome' = RowOutcome
    BY <1>1, <1>6 DEF RowOutcome
  <2>. QED  BY <1>5, <2>1
<1>7. CASE S # {}
  <2>1. \A d \in S : RowOutcome[d] = "waiting"
    BY <1>2, OutcomeOf
  <2>2. Promise!Active \cup S = InFlight'
    BY <1>1, ActiveInFlight DEF InFlight, InStatus
  <2>3. Cardinality(Promise!Active \cup S) <= MaxConcurrent
    BY <2>2 DEF ConcurrencyLimit
  <2>4. \A d \in Dest :
          RowOutcome'[d] = IF d \in S THEN "active" ELSE RowOutcome[d]
    BY <1>1, OutcomeThen
  <2>5. RowOutcome' = [d \in Dest |-> IF d \in S THEN "active" ELSE RowOutcome[d]]
    BY <2>4 DEF RowOutcome
  <2>6. Promise!Cardinality(Promise!Active \cup S) = Cardinality(Promise!Active \cup S)
    BY DEF Promise!Cardinality, Cardinality
  <2>7. Promise!Start(S)
    BY <1>5, <1>7, <2>1, <2>3, <2>5, <2>6 DEF Promise!Start
  <2>. QED  BY <2>7 DEF Promise!Next
<1>. QED  BY <1>6, <1>7

\* An originate hands a claimed row over to its call.
LEMMA PromiseOriginate ==
  ASSUME TypeOK, FreshCalls, Numbered, NEW d \in Dest, Verdicts(d), Originate(d)
  PROVE  Keeps(d)
<1>1. /\ d \in batch /\ attempts[d] \in 1..ClaimBound
      /\ job[<<d, attempts[d]>>] = "none" /\ <<d, attempts[d]>> \in Call
  BY DEF Originate, Numbered, FreshCalls, Current, Call, TypeOK
<1>2. call[<<d, attempts[d]>>] = "none" /\ hup[<<d, attempts[d]>>] = "none"
  BY <1>1 DEF FreshCalls, Verdicts
<1>3. /\ UNCHANGED <<status, call, hup>>
      /\ uuid'[d] = attempts[d] /\ job'[<<d, attempts[d]>>] = "resolving"
      /\ \A k \in 1..ClaimBound :
           k # attempts[d] => job'[<<d, k>>] = job[<<d, k>>]
      /\ d \notin batch'
  BY <1>1 DEF Originate, Current, Call, TypeOK
<1>4. ASSUME NEW k \in 1..ClaimBound, DueFrom(d, k)' PROVE DueFrom(d, k)
  <2>1. CASE k = attempts[d]
    BY <1>1, <1>2, <1>3, <1>4, <2>1 DEF DueFrom
  <2>2. CASE k # attempts[d]
    BY <1>1, <1>3, <1>4, <2>2 DEF DueFrom
  <2>. QED  BY <2>1, <2>2
<1>5. d \in VerdictDue' => d \in VerdictDue
  BY <1>4, DueIs
<1>6. RowOutcome'[d] = RowOutcome[d]
  BY <1>3, OutcomeThen
<1>. QED  BY <1>5, <1>6 DEF Keeps

\* The sweep decides rows in flight of whose calls nothing more will be heard.
LEMMA PromiseRecover ==
  ASSUME TypeOK, NEW S \in SUBSET Dest, RecoverDialing(S) \/ RecoverAnswered(S)
  PROVE  Promise!Next \/ UNCHANGED <<RowOutcome, VerdictDue>>
<1>1. /\ UNCHANGED <<batch, call, hup, job>>
      /\ \A d \in Dest \ S : status'[d] = status[d] /\ uuid'[d] = uuid[d]
      /\ \A d \in S : /\ status[d] \in {"dialing", "answered"} /\ Quiet(d)
                      /\ uuid'[d] = 0
      /\ \E s \in {"queued", "completed"} : \A d \in S : status'[d] = s
  BY DEF RecoverDialing, RecoverAnswered, StaleDialing, StaleAnswered, InStatus,
         callVars, tickVars
<1>2. ASSUME NEW d \in S, NEW k \in 1..ClaimBound
      PROVE  ~DueFrom(d, k) /\ ~DueFrom(d, k)'
  BY <1>1 DEF Quiet, DueFrom
<1>3. ASSUME NEW d \in Dest \ S, NEW k \in 1..ClaimBound
      PROVE  DueFrom(d, k)' <=> DueFrom(d, k)
  BY <1>1 DEF DueFrom
<1>4. /\ \A d \in Dest : d \in VerdictDue' <=> d \in VerdictDue
      /\ \A d \in S : d \notin VerdictDue
  BY <1>2, <1>3, DueIs
<1>5. VerdictDue' = VerdictDue
  BY <1>4 DEF VerdictDue
<1>6. PICK o \in {"waiting", "delivered"} :
        \A d \in Dest : RowOutcome'[d] = IF d \in S THEN o ELSE RowOutcome[d]
  BY <1>1, OutcomeThen
<1>7. RowOutcome' = [d \in Dest |-> IF d \in S THEN o ELSE RowOutcome[d]]
  BY <1>6 DEF RowOutcome
<1>8. \A d \in S : d \in Promise!Active
  BY <1>1, OutcomeOf DEF Promise!Active
<1>9. CASE S = {}
  <2>1. RowOutcome' = RowOutcome
    BY <1>6, <1>9 DEF RowOutcome
  <2>. QED  BY <1>5, <2>1
<1>10. CASE S # {}
  <2>1. S \subseteq Promise!Active \ VerdictDue
    BY <1>4, <1>8
  <2>2. Promise!Recover(S)
    BY <1>5, <1>7, <1>10, <2>1 DEF Promise!Recover
  <2>. QED  BY <2>2 DEF Promise!Next
<1>. QED  BY <1>9, <1>10

\* Expiry and cancellation drop the queued rows.
LEMMA PromiseDrop ==
  ASSUME TypeOK, ExpireRows \/ CancelRows
  PROVE  Promise!Next
<1>1. /\ UNCHANGED <<uuid, batch, call, hup, job>>
      /\ \E s \in {"expired", "skipped"} : \A d \in Dest :
           status'[d] = IF status[d] = "queued" THEN s ELSE status[d]
  BY DEF ExpireRows, CancelRows, callVars, tickVars
<1>2. \A d \in Dest : RowOutcome'[d] = IF RowOutcome[d] = "waiting" THEN "dropped"
                                                                    ELSE RowOutcome[d]
  <2>. SUFFICES ASSUME NEW d \in Dest
                PROVE  RowOutcome'[d] = IF RowOutcome[d] = "waiting" THEN "dropped"
                                                                     ELSE RowOutcome[d]
    OBVIOUS
  <2>1. status[d] \in DestStatus
    BY DEF TypeOK
  <2>. QED  BY <1>1, <2>1, OutcomeOf, OutcomeThen DEF DestStatus
<1>3. ASSUME NEW d \in Dest, NEW k \in 1..ClaimBound
      PROVE  DueFrom(d, k)' <=> DueFrom(d, k)
  BY <1>1 DEF DueFrom
<1>4. VerdictDue' = VerdictDue
  BY <1>3, DueIs DEF VerdictDue
<1>5. RowOutcome' = [d \in Dest |-> IF RowOutcome[d] = "waiting" THEN "dropped"
                                                                ELSE RowOutcome[d]]
  BY <1>2 DEF RowOutcome
<1>. QED  BY <1>4, <1>5 DEF Promise!Drop, Promise!Next

\* A fault of the engine only loses verdicts.
LEMMA PromiseFault ==
  ASSUME TypeOK, DispatchThrows \/ Crash
  PROVE  Promise!Next
<1>1. /\ UNCHANGED <<status, uuid, call>> /\ batch' = {}
      /\ \A c \in Call : /\ hup'[c] \in {hup[c], "none", "done"}
                         /\ job'[c] \in {job[c], "none", "done"}
  BY DEF DispatchThrows, Crash, Forget, rowVars, callVars
<1>2. ASSUME NEW d \in Dest, NEW k \in 1..ClaimBound, DueFrom(d, k)'
      PROVE  DueFrom(d, k)
  <2>1. <<d, k>> \in Call
    BY DEF Call
  <2>. QED  BY <1>1, <1>2, <2>1 DEF DueFrom
<1>3. \A d \in Dest : d \in VerdictDue' => d \in VerdictDue
  BY <1>2, DueIs
<1>4. VerdictDue' \subseteq VerdictDue
  BY <1>3 DEF VerdictDue
<1>5. RowOutcome' = RowOutcome
  BY <1>1 DEF RowOutcome
<1>. QED  BY <1>4, <1>5 DEF Promise!Forget, Promise!Next

LEMMA PromiseStep ==
  ASSUME TypeOK, Claims, Numbered, FreshCalls, BatchInHand, AllVerdicts,
         ConcurrencyLimit', [Next]_vars
  PROVE  [Promise!Next]_<<RowOutcome, VerdictDue>>
<1>. USE DEF campVars, rowVars, tickVars, callVars
<1>1. ASSUME \A d \in Dest : Same(d)
      PROVE  UNCHANGED <<RowOutcome, VerdictDue>>
  <2>1. RowOutcome' = RowOutcome
    BY <1>1, SameKeeps DEF RowOutcome
  <2>2. \A d \in Dest : d \in VerdictDue' <=> d \in VerdictDue
    BY <1>1, SameKeeps
  <2>3. VerdictDue' = VerdictDue
    BY <2>2 DEF VerdictDue
  <2>. QED  BY <2>1, <2>3
<1>2. CASE UNCHANGED vars
  BY <1>1, <1>2 DEF vars, Same
<1>3. ASSUME NEW d \in Dest, Originate(d) PROVE Promise!Next
  <2>1. ASSUME NEW e \in Dest, e # d PROVE Same(e)
    <3>1. \A k \in 1..ClaimBound : <<e, k>> \in Call /\ <<e, k>> # Current(d)
      BY <2>1 DEF Call, Current
    <3>. QED  BY <1>3, <2>1, <3>1 DEF Originate, TypeOK, Same
  <2>2. Keeps(d)
    BY <1>3, PromiseOriginate DEF AllVerdicts
  <2>. QED  BY <2>1, <2>2, OneRow
<1>4. CASE Tick
  <2>1. CASE \/ SelectCampaign \/ StartCampaign \/ ExpireCampaign \/ CountRows
             \/ PlanFinish \/ PlanWait \/ (\E n \in 1..BatchSize : PlanFill(n))
             \/ CompleteCampaign \/ SynthesizeMedia \/ SynthesisFails
             \/ BookClaim
    <3>1. \A d \in Dest : Same(d)
      BY <2>1
         DEF SelectCampaign, StartCampaign, ExpireCampaign, CountRows, PlanFinish,
             PlanWait, PlanFill, CompleteCampaign, SynthesizeMedia,
             SynthesisFails, BookClaim, Same
    <3>. QED  BY <1>1, <3>1
  <2>. QED  BY <1>3, <1>4, <2>1, PromiseDrop, PromiseClaim DEF Tick, Claims
<1>5. ASSUME NEW c \in Call, Handler(c) \/ Originating(c) \/ Telephone(c)
      PROVE  Promise!Next
  <2>1. PICK d \in Dest, k \in 1..ClaimBound : c = <<d, k>>
    BY DEF Call
  <2>2. \A e \in Dest : e # d => Same(e)
    BY <1>5, <2>1, SameElsewhere
  <2>3. Keeps(d) \/ Ends(d) \/ Decides(d)
    BY <1>5, <2>1, PromiseHandler, PromiseLine DEF AllVerdicts
  <2>. QED  BY <2>2, <2>3, OneRow
<1>6. ASSUME NEW e \in Dest, RetryDue(e) PROVE UNCHANGED <<RowOutcome, VerdictDue>>
  BY <1>6 DEF RetryDue, RowOutcome, VerdictDue, UnderWay, Names
<1>7. CASE TimeoutElapses \/ SyncCounters \/ PauseCampaign \/ ResumeCampaign
           \/ CancelCampaign \/ Restart
  BY <1>1, <1>7 DEF TimeoutElapses, SyncCounters, PauseCampaign, ResumeCampaign,
                    CancelCampaign, Restart, Same
<1>8. CASE Recovery \/ Operator
  BY <1>7, <1>8, PromiseRecover, PromiseDrop DEF Recovery, Operator
<1>. QED
  BY <1>2, <1>4, <1>5, <1>6, <1>7, <1>8, PromiseFault DEF Next

\* The engine, its tables and the telephone network together do what BlastOutcome
\* promises, whatever is lost and whenever the process dies: a destination takes
\* one of max_concurrent slots (claimBatch), the sweep decides only rows about
\* whose calls nothing more will be heard (recoverStaleDialing), and the outcome
\* of a row changes only while a verdict on it is due (onCallHangup and the catch
\* of originateDestination).
THEOREM PromiseKept == Spec => KeepsPromise
<1>1. ASSUME Init PROVE Promise!Init
  <2>1. /\ \A d \in Dest : status[d] = "queued"
        /\ \A c \in Call : hup[c] = "none" /\ job[c] = "none"
    BY <1>1 DEF Init
  <2>2. RowOutcome = [d \in Dest |-> "waiting"]
    BY <2>1 DEF RowOutcome
  <2>3. ASSUME NEW d \in Dest PROVE d \notin VerdictDue
    <3>1. \A k \in 1..ClaimBound : hup[<<d, k>>] = "none" /\ job[<<d, k>>] = "none"
      BY <2>1 DEF Call
    <3>2. status[d] # "failed"
      BY <2>1
    <3>. QED  BY <3>1, <3>2 DEF VerdictDue
  <2>4. VerdictDue = {}
    BY <2>3 DEF VerdictDue
  <2>. QED  BY <2>2, <2>4 DEF Promise!Init
<1>2. /\ TypeOK /\ Claims /\ Numbered /\ FreshCalls /\ BatchInHand /\ AllVerdicts
      /\ ConcurrencyLimit' /\ [Next]_vars
      => [Promise!Next]_<<RowOutcome, VerdictDue>>
  BY PromiseStep
<1>. QED
  BY <1>1, <1>2, TypeCorrect, ClaimsAlways, FreshAlways, BatchAlways,
     VerdictsAlways, LimitHolds, PTL
     DEF Spec, KeepsPromise, Promise!Spec
=============================================================================
