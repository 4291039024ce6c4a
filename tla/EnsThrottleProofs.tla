------------------------- MODULE EnsThrottleProofs -------------------------
(***************************************************************************)
(* Theorems about EnsThrottle: the counts stay in their ranges, and no     *)
(* second sees more originates than the campaign's calls_per_second.       *)
(***************************************************************************)
EXTENDS EnsThrottle, TLAPS

\* Rows are waiting, in flight, or gone; a call that a total counts has ended,
\* and only a retry gives its row another one.
Rationed ==
  /\ waiting + inFlight <= Rows
  /\ waiting + inFlight + callTotal <= Rows + retries

\* The same ranges without the bounds that follow from Rationed.
Ranges ==
  /\ waiting \in Nat /\ inFlight \in Nat /\ retries \in 0..RetryBound
  /\ recent \in Nat /\ callTotal \in Nat /\ busyTotal \in 0..callTotal

Ration == Ranges /\ Rationed

\* A tick takes no more rows than wait, and no more than the window has room for.
LEMMA SlotsInRange ==
  ASSUME Ranges
  PROVE  /\ Slots \in Int /\ Slots <= waiting
         /\ CpsCapacity \in Nat /\ Slots <= CpsCapacity
<1>1. EffectiveCps \in Int
  BY ThrottleConstantsOK DEF ThrottleConstantsOK, EffectiveCps
<1>2. CpsCapacity \in Nat
  BY <1>1 DEF CpsCapacity, NotNegative, Ranges
<1>. HIDE DEF CpsCapacity
<1>. QED
  BY <1>2, ThrottleConstantsOK
     DEF ThrottleConstantsOK, Ranges, Slots, Least, NotNegative

LEMMA RationStep == Ration /\ [Next]_vars => Ration'
<1>. SUFFICES ASSUME Ration, [Next]_vars PROVE Ration'
  OBVIOUS
<1>. USE ThrottleConstantsOK
     DEF ThrottleConstantsOK, Ration, Ranges, Rationed
<1>1. CASE UNCHANGED vars
  BY <1>1 DEF vars
<1>2. CASE Dispatch
  <2>1. /\ Slots \in Int /\ Slots <= waiting /\ Slots > 0
        /\ waiting' = waiting - Slots /\ inFlight' = inFlight + Slots
        /\ recent' = recent + Slots /\ UNCHANGED <<retries, callTotal, busyTotal>>
    BY <1>2, SlotsInRange DEF Dispatch
  <2>. QED  BY <2>1
<1>3. CASE WindowSlides
  BY <1>3 DEF WindowSlides
<1>4. CASE Delivered
  BY <1>4 DEF Delivered
<1>5. ASSUME NEW busy \in BOOLEAN, Retried(busy) PROVE Ration'
  BY <1>5 DEF Retried
<1>6. CASE Failed
  BY <1>6 DEF Failed
<1>. QED  BY <1>1, <1>2, <1>3, <1>4, <1>5, <1>6 DEF Next, CallEnds

LEMMA RationAlways == Spec => []Ration
<1>1. Init => Ration
  BY ThrottleConstantsOK
     DEF ThrottleConstantsOK, Init, Ration, Ranges, Rationed
<1>. QED  BY <1>1, RationStep, PTL DEF Spec

\* No row is lost or doubled by the tick's arithmetic, and no call is counted
\* twice: the totals are at most the rows and the retries granted to them.
THEOREM ThrottleTypeCorrect == Spec => []TypeOK
<1>1. Ration => TypeOK
  BY ThrottleConstantsOK
     DEF ThrottleConstantsOK, Ration, Ranges, Rationed, TypeOK
<1>. QED  BY <1>1, RationAlways, PTL

\* The effective rate is the configured one or less, but for the floor of half
\* a call per second, which admits no call.
LEMMA CapacityWithinCps ==
  ASSUME Ranges
  PROVE  CpsCapacity = 0 \/ 100 * (recent + CpsCapacity) <= Cps
<1>1. EffectiveCps \in Nat /\ (EffectiveCps <= 100 * Cps \/ EffectiveCps = 5000)
  BY ThrottleConstantsOK DEF ThrottleConstantsOK, EffectiveCps
<1>. HIDE DEF EffectiveCps
<1>. DEFINE e == EffectiveCps \div 10000
<1>2. e \in Nat /\ 10000 * e <= EffectiveCps
  BY <1>1
<1>3. 100 * e <= Cps
  BY <1>1, <1>2, ThrottleConstantsOK DEF ThrottleConstantsOK
<1>4. CpsCapacity = IF e - recent < 0 THEN 0 ELSE e - recent
  BY DEF CpsCapacity, NotNegative
<1>. HIDE DEF e
<1>. QED  BY <1>2, <1>3, <1>4, ThrottleConstantsOK DEF Ranges, ThrottleConstantsOK

\* No second sees more originates than calls_per_second, for any mix of busy
\* and delivered calls and any change of the throttled rate within the second.
THEOREM RateHolds == Spec => []RateKept
<1>1. Init => RateKept
  BY ThrottleConstantsOK DEF ThrottleConstantsOK, Init, RateKept
<1>2. Ration /\ RateKept /\ [Next]_vars => RateKept'
  <2>. SUFFICES ASSUME Ranges, RateKept, [Next]_vars PROVE RateKept'
    BY DEF Ration
  <2>1. CASE Dispatch
    <3>1. /\ Slots \in Int /\ CpsCapacity \in Nat /\ Slots <= CpsCapacity
          /\ Slots > 0 /\ recent' = recent + Slots
      BY <2>1, SlotsInRange DEF Dispatch
    <3>. QED
      BY <3>1, CapacityWithinCps, ThrottleConstantsOK
         DEF ThrottleConstantsOK, Ranges, RateKept
  <2>2. CASE WindowSlides
    BY <2>2, ThrottleConstantsOK
       DEF ThrottleConstantsOK, WindowSlides, Ranges, RateKept
  <2>3. CASE CallEnds \/ UNCHANGED vars
    BY <2>3 DEF CallEnds, Delivered, Retried, Failed, vars, RateKept
  <2>. QED  BY <2>1, <2>2, <2>3 DEF Next
<1>. QED  BY <1>1, <1>2, RationAlways, PTL DEF Spec
=============================================================================
