---------------------------- MODULE BlastOutcome ----------------------------
(***************************************************************************)
(* What an ENS campaign promises for each of its destinations, without the *)
(* engine, the telephone network or the counters.  A destination waits and *)
(* is called while one of Limit slots is free.  When its call has ended,   *)
(* verdicts on it are late: each delivers the message, fails the row or    *)
(* sends it back to wait.  FreeSWITCH reports one end twice, so a second   *)
(* verdict may overturn the first.  Without one, no outcome ever changes.  *)
(***************************************************************************)
EXTENDS Naturals, FiniteSets

CONSTANTS Dest, Limit

VARIABLES
  row,   \* what has become of each destination
  late   \* destinations with a verdict still to be written

Outcome == {"waiting", "active", "delivered", "failed", "dropped"}

Active == {d \in Dest : row[d] = "active"}

Init == row = [d \in Dest |-> "waiting"] /\ late = {}

\* A batch of waiting destinations takes free slots.
Start(S) ==
  /\ S # {}
  /\ \A d \in S : row[d] = "waiting"
  /\ Cardinality(Active \cup S) <= Limit
  /\ row' = [d \in Dest |-> IF d \in S THEN "active" ELSE row[d]]
  /\ UNCHANGED late

\* The call of an active destination ends: verdicts will follow.
End(d) ==
  /\ d \in Active
  /\ late' = late \cup {d}
  /\ UNCHANGED row

\* A verdict is written.  Failure is written whatever the row says; the others
\* only decide a call that nothing but a failure has decided.
Verdict(d) ==
  /\ d \in late
  /\ \E o \in {"waiting", "delivered", "failed"} :
       /\ o # "failed" => row[d] \in {"active", "failed"}
       /\ row' = [row EXCEPT ![d] = o]
  /\ late' \in {late, late \ {d}}

\* The sweep decides active destinations of which nothing more will be heard.
Recover(S) ==
  /\ S # {} /\ S \subseteq Active \ late
  /\ \E o \in {"waiting", "delivered"} :
       row' = [d \in Dest |-> IF d \in S THEN o ELSE row[d]]
  /\ UNCHANGED late

\* Expiry and cancellation drop all that wait.
Drop ==
  /\ row' = [d \in Dest |-> IF row[d] = "waiting" THEN "dropped" ELSE row[d]]
  /\ UNCHANGED late

\* Verdicts are lost with the process, or turn out to be about no call.
Forget ==
  /\ UNCHANGED row
  /\ late' \subseteq late

Next ==
  \/ Forget
  \/ \E d \in Dest : End(d) \/ Verdict(d)
  \/ Drop
  \/ \E S \in SUBSET Dest : Start(S) \/ Recover(S)

Spec == Init /\ [][Next]_<<row, late>>
=============================================================================
