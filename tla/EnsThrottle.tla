---------------------------- MODULE EnsThrottle ----------------------------
(***************************************************************************)
(* How many destinations one tick of the ENS engine may dispatch: the free *)
(* slots, the one-second CPS window, and the adaptive throttling that      *)
(* follows the share of busy calls.  EnsCampaign leaves this number open;  *)
(* here it is computed, and rows are only counted.                         *)
(***************************************************************************)
EXTENDS Integers

CONSTANTS
  Rows,           \* destinations of the campaign
  MaxConcurrent,  \* max_concurrent
  BatchSize,      \* batch_size
  Cps,            \* calls_per_second, NUMERIC(5,2), in hundredths
  Adaptive,       \* adaptive_throttling
  RetryBound      \* bound: retries over the whole campaign

ASSUME ThrottleConstantsOK ==
  /\ Rows \in Nat /\ MaxConcurrent \in Nat \ {0} /\ BatchSize \in Nat \ {0}
  /\ Cps \in Nat \ {0} /\ Adaptive \in BOOLEAN /\ RetryBound \in Nat

VARIABLES
  waiting,    \* queued rows that are due
  inFlight,   \* dialing and answered rows
  retries,    \* retries granted so far
  recent,     \* state.cpsHistory: originates of the last second
  callTotal,  \* state.callTotal: calls counted by onCallHangup
  busyTotal   \* state.busyTotal: those that found the line busy

vars == <<waiting, inFlight, retries, recent, callTotal, busyTotal>>

TypeOK ==
  /\ waiting \in 0..Rows /\ inFlight \in 0..Rows
  /\ retries \in 0..RetryBound
  /\ recent \in Nat
  /\ callTotal \in 0..(Rows + RetryBound) /\ busyTotal \in 0..callTotal

----------------------------------------------------------------------------
Least(a, b) == IF a < b THEN a ELSE b
NotNegative(a) == IF a < 0 THEN 0 ELSE a

\* The share of busy calls is over p percent.
BusyOver(p) == 100 * busyTotal > p * callTotal

\* getEffectiveCps, in hundredths of hundredths.
EffectiveCps ==
  IF ~Adaptive \/ callTotal < 10 THEN 100 * Cps
  ELSE IF BusyOver(30) THEN IF 75 * Cps < 5000 THEN 5000 ELSE 75 * Cps
  ELSE IF BusyOver(15) THEN 90 * Cps
  ELSE 100 * Cps

\* Bugs that the project's mutants bring in carry a prefix Bug.

\* Math.floor(getEffectiveCps(...)) - cpsHistory.length, not below 0.
BugCpsCapacity == EffectiveCps \div 10000
CpsCapacity == NotNegative((EffectiveCps \div 10000) - recent)

\* The slots that this tick fills.
BugSlots ==
  Least(Least(NotNegative(MaxConcurrent - inFlight), CpsCapacity), BatchSize)

Slots ==
  Least(Least(NotNegative(MaxConcurrent - inFlight), CpsCapacity),
        Least(BatchSize, waiting))

----------------------------------------------------------------------------
Init ==
  /\ waiting = Rows /\ inFlight = 0 /\ retries = 0
  /\ recent = 0 /\ callTotal = 0 /\ busyTotal = 0

\* A tick claims and originates Slots rows.
Dispatch ==
  /\ Slots > 0
  /\ waiting' = waiting - Slots
  /\ inFlight' = inFlight + Slots
  /\ recent' = recent + Slots
  /\ UNCHANGED <<retries, callTotal, busyTotal>>

\* Some originates become a second old, and the filter drops them.
BugWindowSlides == recent > 0 /\ UNCHANGED vars

WindowSlides ==
  /\ recent > 0
  /\ \E k \in 0..(recent - 1) : recent' = k
  /\ UNCHANGED <<waiting, inFlight, retries, callTotal, busyTotal>>

\* onCallHangup after an answer.
Delivered ==
  /\ inFlight > 0
  /\ inFlight' = inFlight - 1
  /\ callTotal' = callTotal + 1
  /\ UNCHANGED <<waiting, retries, recent, busyTotal>>

\* onCallHangup with a retryable cause, and the retry coming due.
Retried(busy) ==
  /\ inFlight > 0 /\ retries < RetryBound
  /\ inFlight' = inFlight - 1
  /\ waiting' = waiting + 1
  /\ retries' = retries + 1
  /\ callTotal' = callTotal + 1
  /\ busyTotal' = IF busy THEN busyTotal + 1 ELSE busyTotal
  /\ UNCHANGED recent

\* handleDestFailed: a call that no total counts.
Failed ==
  /\ inFlight > 0
  /\ inFlight' = inFlight - 1
  /\ UNCHANGED <<waiting, retries, recent, callTotal, busyTotal>>

CallEnds == Delivered \/ (\E busy \in BOOLEAN : Retried(busy)) \/ Failed

Next == Dispatch \/ WindowSlides \/ CallEnds

Spec == Init /\ [][Next]_vars

\* The tick comes every second, a second passes, every call ends.
FairSpec == Spec /\ WF_vars(Dispatch) /\ WF_vars(WindowSlides) /\ WF_vars(CallEnds)

----------------------------------------------------------------------------
\* No second sees more originates than calls_per_second, even when throttling
\* lowers the rate under the number already made in this second.
RateKept == 100 * recent <= Cps

\* The throttle only slows a campaign down: every row is dialled in the end.
EveryRowDialled == <>[](waiting = 0 /\ inFlight = 0)
=============================================================================
