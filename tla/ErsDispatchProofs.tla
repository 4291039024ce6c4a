--------------------------- MODULE ErsDispatchProofs ---------------------------
(***************************************************************************)
(* Theorems about ErsDispatch, for any number of calls, any scripts and any *)
(* number of failures and interventions.                                    *)
(***************************************************************************)
EXTENDS ErsDispatch, FiniteSetTheorems, SequenceTheorems, TLAPS

----------------------------------------------------------------------------
(* Types.                                                                  *)

Place  == {"idle", "ringAll", "insert", "enqueue", "queueInsert", "wait", "promote",
           "create", "createQueued", "held", "joining", "in", "post", "done"}
Status == {"none", "QUEUED", "ACTIVE", "COMPLETED", "CANCELLED"}

\* A new incident, and the steps of a script.
LEMMA NewType == \A s \in Status, t, r \in Tier : New(s, t, r) \in Incident
BY DEF New, Incident, Status

LEMMA FieldTypes ==
  ASSUME TypeOK, NEW c \in Caller
  PROVE  /\ want[c] \in Tier /\ inc[c].room \in Tier /\ inc[c].tier \in Tier
         /\ at[c].room \in Tier /\ at[c].uuid \in Caller \cup {None}
<1>1. inc[c] \in Incident /\ at[c] \in Ticket /\ want[c] \in Tier
  BY DEF TypeOK
<1>. QED  BY <1>1 DEF Incident, Ticket

LEMMA GotoType ==
  ASSUME TypeOK, NEW c \in Caller, NEW w \in Place, Goto(c, w)
  PROVE  pc' \in [Caller -> Place]
BY DEF TypeOK, Goto, Place

LEMMA TellType ==
  ASSUME TypeOK, NEW c \in Caller, NEW r \in Tier, NEW i \in Caller \cup {None}, Tell(c, r, i)
  PROVE  at' \in [Caller -> Ticket]
<1>1. [room |-> r, uuid |-> i] \in Ticket
  BY DEF Ticket
<1>. QED  BY <1>1 DEF TypeOK, Tell

LEMMA EndType ==
  ASSUME TypeOK, NEW c \in Caller, End(c)
  PROVE  /\ pc' \in [Caller -> Place]
         /\ want' \in [Caller -> Tier]
         /\ at' \in [Caller -> Ticket]
<1>1. NoTicket \in Ticket /\ "primary" \in Tier /\ "done" \in Place
  BY DEF NoTicket, Ticket, Tier, Place
<1>2. pc' \in [Caller -> Place]
  BY <1>1, GotoType DEF End
<1>3. want' \in [Caller -> Tier]
  BY <1>1 DEF End, TypeOK
<1>4. at' \in [Caller -> Ticket]
  BY <1>1 DEF End, TypeOK
<1>. QED  BY <1>2, <1>3, <1>4

LEMMA RingType ==
  ASSUME TypeOK, NEW r \in Tier, NEW c \in Caller, StartRing(r, c)
  PROVE  /\ ring' \in [Tier -> [st: {"off", "first", "again"}, owner: Caller \cup {None}]]
         /\ owed' \in SUBSET Caller
<1>1. [st |-> "first", owner |-> c] \in [st: {"off", "first", "again"}, owner: Caller \cup {None}]
  OBVIOUS
<1>. QED  BY <1>1 DEF StartRing, TypeOK

LEMMA DisturbType ==
  ASSUME TypeOK
  PROVE  /\ Disturb => disturbed' \in 0..DisturbBound
         /\ \A r, n : Count(r, n) => disturbed' \in 0..DisturbBound
         /\ \A t : FreeTier(t) => disturbed' \in 0..DisturbBound
<1>1. disturbed \in 0..DisturbBound /\ DisturbBound \in Nat
  BY ErsConstantsOK DEF TypeOK, ErsConstantsOK
<1>2. Disturb => disturbed' \in 0..DisturbBound
  BY <1>1 DEF Disturb
<1>3. \A r, n : Count(r, n) => disturbed' \in 0..DisturbBound
  BY <1>1, <1>2 DEF Count
<1>. QED  BY <1>2, <1>3 DEF FreeTier

\* The newest incident of a tier, if there is one.
LEMMA NewestType == ASSUME TypeOK, NEW t PROVE Newest(t) \subseteq Caller \cup {None}
<1>1. \A k \in DOMAIN started : started[k] \in Caller
  BY DEF TypeOK
<1>. QED  BY <1>1 DEF Newest

\* What a completion does to the tables.
LEMMA CompleteCases ==
  ASSUME NEW i, CompleteIncident(i)
  PROVE  \/ UNCHANGED <<inc, row>>
         \/ /\ inc' = [inc EXCEPT ![i].status = "COMPLETED"]
            /\ UNCHANGED row
         \/ \E h \in Heads :
              /\ row' = [row EXCEPT ![h] = "DEQUEUED"]
              /\ inc' = [inc EXCEPT ![i].status = "COMPLETED",
                                    ![h] = New("ACTIVE", inc[i].tier, inc[i].tier)]
              /\ ~Locked
BY DEF CompleteIncident, Dequeue

LEMMA CompleteType ==
  ASSUME TypeOK, NEW i \in Caller \cup {None}, CompleteIncident(i)
  PROVE  /\ inc' \in [Caller -> Incident]
         /\ row' \in [Caller -> {"none", "QUEUED", "DEQUEUED", "CANCELLED", "EXPIRED"}]
<1>1. CASE UNCHANGED <<inc, row>>
  BY <1>1 DEF TypeOK
<1>2. CASE Open(i)
  <2>1. i \in Caller /\ inc[i] \in Incident
    BY <1>2 DEF Open, TypeOK
  <2>2. /\ [inc[i] EXCEPT !.status = "COMPLETED"] \in Incident
        /\ New("ACTIVE", inc[i].tier, inc[i].tier) \in Incident
    BY <2>1, NewType DEF Incident, Status
  <2>3. Heads \subseteq Caller
    BY DEF Heads, Queued
  <2>4. CASE /\ inc' = [inc EXCEPT ![i].status = "COMPLETED"]
             /\ UNCHANGED row
    BY <2>1, <2>2, <2>4 DEF TypeOK
  <2>5. ASSUME NEW h \in Heads,
               row' = [row EXCEPT ![h] = "DEQUEUED"],
               inc' = [inc EXCEPT ![i].status = "COMPLETED",
                                  ![h] = New("ACTIVE", inc[i].tier, inc[i].tier)]
        PROVE  /\ inc' \in [Caller -> Incident]
               /\ row' \in [Caller -> {"none", "QUEUED", "DEQUEUED", "CANCELLED", "EXPIRED"}]
    <3>1. inc' \in [Caller -> Incident]
      BY <2>1, <2>2, <2>3, <2>5 DEF TypeOK
    <3>2. row' \in [Caller -> {"none", "QUEUED", "DEQUEUED", "CANCELLED", "EXPIRED"}]
      BY <2>5 DEF TypeOK
    <3>. QED  BY <3>1, <3>2
  <2>. QED  BY <1>1, <2>4, <2>5, CompleteCases
<1>. QED  BY <1>1, <1>2 DEF CompleteIncident

----------------------------------------------------------------------------
(* The steps, grouped.                                                     *)

Waiting(c) == \/ CheckTiers(c) \/ DialRingAll(c) \/ RingAllRead(c) \/ EnqueueRead(c)
              \/ PollReady(c) \/ PollRead(c) \/ StopWaiting(c)
Entering(c) == RingAllInsert(c) \/ EnqueueInsert(c) \/ PollPromote(c)
Talking(c) == Join(c) \/ MissRoom(c) \/ Leave(c) \/ PostComplete(c) \/ PostLost(c)
Bridging(c) == \/ BridgeLookup(c) \/ BridgeCreate(c) \/ BridgeQueue(c)
               \/ BridgePoll(c) \/ BridgeHangUp(c)
Sweep(c) == ReconcileStep(c) \/ TwoHours(c) \/ SupervisorCompletes(c) \/ SupervisorCancels(c)

LEMMA NextCases ==
  Next <=> \/ \E c \in Caller : Waiting(c) \/ Entering(c) \/ Talking(c) \/ Bridging(c) \/ Sweep(c)
           \/ \E r \in Tier : RoomStep(r) \/ ReadOrphans(r) \/ DestroyLost(r)
           \/ ExpireRows
BY DEF Next, CallStep, Waiting, Entering, Talking, Bridging, Sweep

LEMMA TypeInit == Init => TypeOK
<1>. SUFFICES ASSUME Init PROVE TypeOK
  OBVIOUS
<1>1. "primary" \in Tier /\ New("none", "primary", "primary") \in Incident /\ NoTicket \in Ticket
  BY NewType DEF Tier, Status, NoTicket, Ticket
<1>2. <<>> \in Seq(Caller) /\ 0 \in 0..DisturbBound /\ 0 \in Nat
  BY ErsConstantsOK DEF ErsConstantsOK
<1>3. answered \in SUBSET Tier
  BY ErsConstantsOK DEF Init, ErsConstantsOK
<1>4. /\ inc \in [Caller -> Incident] /\ want \in [Caller -> Tier] /\ at \in [Caller -> Ticket]
      /\ started \in Seq(Caller) /\ disturbed \in 0..DisturbBound
  BY <1>1, <1>2 DEF Init
<1>. QED  BY <1>2, <1>3, <1>4 DEF Init, TypeOK

LEMMA TypeWaiting == ASSUME TypeOK, NEW c \in Caller, Waiting(c) PROVE TypeOK'
<1>1. CASE CheckTiers(c)
  <2>1. pc' \in [Caller -> Place]
    BY <1>1, GotoType DEF CheckTiers, Place
  <2>2. want' \in [Caller -> Tier] /\ disturbed' \in 0..DisturbBound
    BY <1>1, DisturbType DEF CheckTiers, TypeOK
  <2>. QED  BY <1>1, <2>1, <2>2 DEF CheckTiers, TypeOK, Place, tables, rooms
<1>2. CASE DialRingAll(c)
  <2>1. pc' \in [Caller -> Place]
    BY <1>2, GotoType DEF DialRingAll, Place
  <2>. QED  BY <1>2, <2>1 DEF DialRingAll, TypeOK, Place, tables, rooms
<1>3. CASE RingAllRead(c)
  <2>1. pc' \in [Caller -> Place]
    BY <1>3, GotoType DEF RingAllRead, Place
  <2>2. at' \in [Caller -> Ticket]
    BY <1>3, FieldTypes, TellType, NewestType DEF RingAllRead, TypeOK
  <2>3. disturbed' \in 0..DisturbBound
    BY <1>3, DisturbType DEF RingAllRead, TypeOK
  <2>. QED  BY <1>3, <2>1, <2>2, <2>3 DEF RingAllRead, TypeOK, Place, tables, rooms
<1>4. CASE EnqueueRead(c)
  <2>1. pc' \in [Caller -> Place]
    BY <1>4, GotoType DEF EnqueueRead, Place
  <2>2. pos' \in [Caller -> Nat]
    <3>1. NextPosition \subseteq Nat
      BY DEF NextPosition
    <3>. QED  BY <1>4, <3>1 DEF EnqueueRead, TypeOK
  <2>. QED  BY <1>4, <2>1, <2>2 DEF EnqueueRead, TypeOK, Place, rooms
<1>5. CASE PollReady(c)
  <2>1. pc' \in [Caller -> Place]
    BY <1>5, GotoType DEF PollReady, Place
  <2>2. at' \in [Caller -> Ticket]
    BY <1>5, FieldTypes, TellType DEF PollReady
  <2>. QED  BY <1>5, <2>1, <2>2 DEF PollReady, TypeOK, Place, tables, rooms
<1>6. CASE PollRead(c)
  <2>1. pc' \in [Caller -> Place]
    BY <1>6, GotoType DEF PollRead, Place
  <2>2. want' \in [Caller -> Tier] /\ disturbed' \in 0..DisturbBound
    BY <1>6, DisturbType DEF PollRead, TypeOK
  <2>. QED  BY <1>6, <2>1, <2>2 DEF PollRead, TypeOK, Place, tables, rooms
<1>7. CASE StopWaiting(c)
  BY <1>7, EndType DEF StopWaiting, TypeOK, Place, tables, rooms
<1>. QED  BY <1>1, <1>2, <1>3, <1>4, <1>5, <1>6, <1>7 DEF Waiting

LEMMA TypeEntering == ASSUME TypeOK, NEW c \in Caller, Entering(c) PROVE TypeOK'
<1>1. \A t \in Tier : New("ACTIVE", t, t) \in Incident
  BY NewType DEF Status
<1>2. CASE RingAllInsert(c)
  <2>1. pc' \in [Caller -> Place]
    BY <1>2, GotoType DEF RingAllInsert, Place
  <2>2. at' \in [Caller -> Ticket]
    BY <1>2, FieldTypes, TellType DEF RingAllInsert
  <2>3. inc' \in [Caller -> Incident]
    BY <1>1, <1>2, FieldTypes DEF RingAllInsert, TypeOK
  <2>4. started' \in Seq(Caller)
    BY <1>2 DEF RingAllInsert, TypeOK
  <2>5. /\ ring' \in [Tier -> [st: {"off", "first", "again"}, owner: Caller \cup {None}]]
        /\ owed' \in SUBSET Caller
    BY <1>2, FieldTypes, RingType DEF RingAllInsert
  <2>. QED  BY <1>2, <2>1, <2>2, <2>3, <2>4, <2>5 DEF RingAllInsert, TypeOK, Place
<1>3. CASE EnqueueInsert(c)
  <2>1. pc' \in [Caller -> Place]
    BY <1>3, GotoType DEF EnqueueInsert, Place
  <2>2. inc' \in [Caller -> Incident]
    BY <1>3, NewType DEF EnqueueInsert, TypeOK, Status, Tier
  <2>3. started' \in Seq(Caller)
    BY <1>3 DEF EnqueueInsert, TypeOK
  <2>. QED  BY <1>3, <2>1, <2>2, <2>3 DEF EnqueueInsert, TypeOK, Place, rooms
<1>4. CASE PollPromote(c)
  <2>1. pc' \in [Caller -> Place]
    BY <1>4, GotoType DEF PollPromote, Place
  <2>2. at' \in [Caller -> Ticket]
    BY <1>4, FieldTypes, TellType DEF PollPromote, TypeOK
  <2>3. inc' \in [Caller -> Incident]
    <3>1. inc' = inc \/ inc' = [inc EXCEPT ![c] = New("ACTIVE", want[c], want[c])]
      BY <1>4 DEF PollPromote
    <3>2. New("ACTIVE", want[c], want[c]) \in Incident
      BY <1>1, FieldTypes
    <3>3. inc \in [Caller -> Incident]
      BY DEF TypeOK
    <3>. QED  BY <3>1, <3>2, <3>3
  <2>4. row' \in [Caller -> {"none", "QUEUED", "DEQUEUED", "CANCELLED", "EXPIRED"}]
    BY <1>4 DEF PollPromote, Dequeue, TypeOK
  <2>5. /\ ring' \in [Tier -> [st: {"off", "first", "again"}, owner: Caller \cup {None}]]
        /\ owed' \in SUBSET Caller
    BY <1>4, FieldTypes, RingType DEF PollPromote, TypeOK
  <2>. QED  BY <1>4, <2>1, <2>2, <2>3, <2>4, <2>5 DEF PollPromote, TypeOK, Place
<1>. QED  BY <1>2, <1>3, <1>4 DEF Entering

LEMMA TypeTalking == ASSUME TypeOK, NEW c \in Caller, Talking(c) PROVE TypeOK'
<1>1. at[c].room \in Tier /\ at[c].uuid \in Caller \cup {None}
  BY FieldTypes
<1>2. CASE Join(c)
  <2>1. pc' \in [Caller -> Place]
    BY <1>2, GotoType DEF Join, Place
  <2>2. owed' \in SUBSET Caller
    BY <1>2 DEF Join, TypeOK
  <2>. QED  BY <1>2, <2>1, <2>2 DEF Join, TypeOK, Place, tables, rooms
<1>3. CASE MissRoom(c)
  <2>1. pc' \in [Caller -> Place]
    BY <1>3, GotoType DEF MissRoom, Place
  <2>. QED  BY <1>3, <2>1 DEF MissRoom, TypeOK, Place, tables, rooms
<1>4. CASE Leave(c)
  <2>1. pc' \in [Caller -> Place]
    BY <1>4, GotoType DEF Leave, Place
  <2>2. destroyed' \in SUBSET Tier
    BY <1>1, <1>4 DEF Leave, Emptied, TypeOK
  <2>. QED  BY <1>4, <2>1, <2>2 DEF Leave, TypeOK, Place, tables, rooms
<1>5. CASE PostComplete(c)
  <2>1. /\ inc' \in [Caller -> Incident]
        /\ row' \in [Caller -> {"none", "QUEUED", "DEQUEUED", "CANCELLED", "EXPIRED"}]
    BY <1>1, <1>5, CompleteType DEF PostComplete
  <2>. QED  BY <1>5, <2>1, EndType DEF PostComplete, TypeOK, Place, rooms
<1>6. CASE PostLost(c)
  BY <1>6, EndType, DisturbType DEF PostLost, TypeOK, Place, tables, rooms
<1>. QED  BY <1>2, <1>3, <1>4, <1>5, <1>6 DEF Talking

LEMMA TypeBridging == ASSUME TypeOK, NEW c \in Caller, Bridging(c) PROVE TypeOK'
<1>1. CASE BridgeLookup(c)
  <2>1. pc' \in [Caller -> Place]
    BY <1>1, GotoType DEF BridgeLookup, Place
  <2>2. want' \in [Caller -> Tier]
    BY <1>1 DEF BridgeLookup, TypeOK, Tier
  <2>3. at' \in [Caller -> Ticket]
    BY <1>1, TellType DEF BridgeLookup, Tier
  <2>. QED  BY <1>1, <2>1, <2>2, <2>3 DEF BridgeLookup, TypeOK, Place, tables, rooms
<1>2. CASE BridgeCreate(c) \/ BridgeQueue(c)
  <2>1. pc' \in [Caller -> Place]
    BY <1>2, GotoType DEF BridgeCreate, BridgeQueue, Place
  <2>2. inc' \in [Caller -> Incident]
    <3>1. \E s \in {"ACTIVE", "QUEUED"} : inc' = [inc EXCEPT ![c] = New(s, want[c], at[c].room)]
      BY <1>2 DEF BridgeCreate, BridgeQueue
    <3>2. \A s \in {"ACTIVE", "QUEUED"} : New(s, want[c], at[c].room) \in Incident
      BY FieldTypes, NewType DEF Status
    <3>. QED  BY <3>1, <3>2 DEF TypeOK
  <2>3. started' \in Seq(Caller)
    <3>1. started' = Append(started, c)
      BY <1>2 DEF BridgeCreate, BridgeQueue
    <3>. QED  BY <3>1 DEF TypeOK
  <2>4. legs' \in SUBSET Tier
    BY <1>2, FieldTypes DEF BridgeCreate, BridgeQueue, TypeOK, rooms
  <2>. QED  BY <1>2, <2>1, <2>2, <2>3, <2>4 DEF BridgeCreate, BridgeQueue, TypeOK, Place, rooms
<1>3. CASE BridgePoll(c)
  <2>1. pc' \in [Caller -> Place] /\ want' \in [Caller -> Tier] /\ at' \in [Caller -> Ticket]
    BY <1>3, EndType, GotoType, TellType, FieldTypes DEF BridgePoll, Place, TypeOK
  <2>2. legs' \in SUBSET Tier
    BY <1>3, FieldTypes DEF BridgePoll, TypeOK
  <2>. QED  BY <1>3, <2>1, <2>2 DEF BridgePoll, TypeOK, Place, tables
<1>4. CASE BridgeHangUp(c)
  BY <1>4, EndType DEF BridgeHangUp, TypeOK, Place, tables, rooms
<1>. QED  BY <1>1, <1>2, <1>3, <1>4 DEF Bridging

LEMMA TypeSweep == ASSUME TypeOK, NEW i \in Caller, Sweep(i) PROVE TypeOK'
<1>1. CASE ReadEmpty(i) \/ ReadUnqueued(i)
  <2>1. disturbed' \in 0..DisturbBound
    BY <1>1, DisturbType DEF ReadEmpty, ReadUnqueued, TypeOK
  <2>. QED  BY <1>1, <2>1 DEF ReadEmpty, ReadUnqueued, TypeOK, tables, scripts, rooms
<1>2. CASE Reconcile(i)
  BY <1>2, CompleteType DEF Reconcile, TypeOK, scripts, rooms
<1>3. CASE TwoHours(i)
  BY <1>3 DEF TwoHours, TypeOK, scripts, rooms
<1>4. CASE SupervisorCompletes(i)
  BY <1>4, CompleteType, DisturbType DEF SupervisorCompletes, TypeOK, scripts, rooms
<1>5. CASE SupervisorCancels(i)
  <2>1. inc' \in [Caller -> Incident]
    <3>1. inc' = [inc EXCEPT ![i] = [inc[i] EXCEPT !.status = "CANCELLED"]]
      <4>1. inc' = [inc EXCEPT ![i].status = "CANCELLED"]
        BY <1>5 DEF SupervisorCancels
      <4>. QED  BY <4>1 DEF TypeOK
    <3>2. [inc[i] EXCEPT !.status = "CANCELLED"] \in Incident
      <4>1. inc[i] \in Incident
        BY DEF TypeOK
      <4>. QED  BY <4>1 DEF Incident
    <3>. QED  BY <3>1, <3>2 DEF TypeOK
  <2>2. row' \in [Caller -> {"none", "QUEUED", "DEQUEUED", "CANCELLED", "EXPIRED"}]
    BY <1>5 DEF SupervisorCancels, TypeOK
  <2>. QED  BY <1>5, <2>1, <2>2, DisturbType DEF SupervisorCancels, TypeOK, scripts, rooms
<1>. QED  BY <1>1, <1>2, <1>3, <1>4, <1>5 DEF Sweep, ReconcileStep

LEMMA TypeRooms ==
  ASSUME TypeOK, NEW r \in Tier, RoomStep(r) \/ ReadOrphans(r) \/ DestroyLost(r)
  PROVE  TypeOK'
<1>1. CASE RingCheck(r)
  <2>1. disturbed' \in 0..DisturbBound
    BY <1>1, DisturbType DEF RingCheck
  <2>2. /\ ring' \in [Tier -> [st: {"off", "first", "again"}, owner: Caller \cup {None}]]
        /\ owed' \in SUBSET Caller /\ legs' \in SUBSET Tier
    <3>1. \/ /\ ring' = [ring EXCEPT ![r] = [st |-> "off", owner |-> None]]
             /\ owed' = owed \/ owed' = {c \in owed : at[c].room # r}
             /\ UNCHANGED legs
          \/ /\ ring' = [ring EXCEPT ![r] = [ring[r] EXCEPT !.st = "again"]]
             /\ legs' = legs \cup {r} /\ UNCHANGED owed
      BY <1>1 DEF RingCheck
    <3>2. [ring[r] EXCEPT !.st = "again"]
            \in [st: {"off", "first", "again"}, owner: Caller \cup {None}]
      <4>1. ring[r] \in [st: {"off", "first", "again"}, owner: Caller \cup {None}]
        BY DEF TypeOK
      <4>. QED  BY <4>1
    <3>3. owed' \in SUBSET Caller /\ legs' \in SUBSET Tier
      <4>1. owed \in SUBSET Caller /\ legs \in SUBSET Tier
        BY DEF TypeOK
      <4>2. owed' \subseteq owed /\ legs' \subseteq legs \cup {r}
        BY <3>1
      <4>. QED  BY <4>1, <4>2
    <3>4. ring' \in [Tier -> [st: {"off", "first", "again"}, owner: Caller \cup {None}]]
      <4>. DEFINE Loop == [st: {"off", "first", "again"}, owner: Caller \cup {None}]
      <4>1. ring \in [Tier -> Loop]
        BY DEF TypeOK
      <4>2. [st |-> "off", owner |-> None] \in Loop
        OBVIOUS
      <4>3. [ring[r] EXCEPT !.st = "again"] \in Loop
        BY <3>2
      <4>. HIDE DEF Loop
      <4>4. ring' \in [Tier -> Loop]
        BY <3>1, <4>1, <4>2, <4>3
      <4>. QED  BY <4>4 DEF Loop
    <3>. QED  BY <3>3, <3>4
  <2>. QED  BY <1>1, <2>1, <2>2 DEF RingCheck, TypeOK, tables, scripts
<1>2. CASE RingDeadline(r) \/ RingGivesUp(r)
  BY <1>2 DEF RingDeadline, RingGivesUp, TypeOK, tables, scripts
<1>3. CASE LegAnswers(r) \/ LegsTimeOut(r)
  BY <1>3 DEF LegAnswers, LegsTimeOut, TypeOK, tables, scripts
<1>4. CASE ResponderLeaves(r)
  <2>1. destroyed' \in SUBSET Tier
    BY <1>4 DEF ResponderLeaves, Emptied, TypeOK
  <2>. QED  BY <1>4, <2>1 DEF ResponderLeaves, TypeOK, tables, scripts
<1>5. CASE ReadOrphans(r)
  <2>1. disturbed' \in 0..DisturbBound
    BY <1>5, DisturbType DEF ReadOrphans, TypeOK
  <2>. QED  BY <1>5, <2>1 DEF ReadOrphans, Active, TypeOK, tables, scripts, rooms
<1>6. CASE DestroyLost(r)
  BY <1>6, DisturbType DEF DestroyLost, TypeOK, tables, scripts, rooms
<1>. QED  BY <1>1, <1>2, <1>3, <1>4, <1>5, <1>6 DEF RoomStep

LEMMA TypeNext == TypeOK /\ [Next]_vars => TypeOK'
<1>1. TypeOK /\ ExpireRows => TypeOK'
  BY DEF ExpireRows, TypeOK, scripts, rooms
<1>2. TypeOK /\ UNCHANGED vars => TypeOK'
  BY DEF TypeOK, vars, tables, scripts, rooms
<1>. QED  BY <1>1, <1>2, NextCases, TypeWaiting, TypeEntering, TypeTalking, TypeBridging,
             TypeSweep, TypeRooms

\* Every variable has its type, in every state of the system.
THEOREM TypeCorrect == Spec => []TypeOK
BY TypeInit, TypeNext, PTL DEF Spec

----------------------------------------------------------------------------
(* The queue and the incidents.                                            *)

\* Before a call is in the queue it has no row.
Starting     == {"idle", "ringAll", "insert", "enqueue", "queueInsert", "create", "createQueued"}
NotYetQueued == \A c \in Caller : pc[c] \in Starting => row[c] = "none"

\* The lookup gives a slot within the limit the room of its tier.
SlotIsTier == \A c \in Caller : pc[c] = "create" => want[c] = at[c].room

TablesInv == NotYetQueued /\ SlotIsTier /\ QueueAgrees

\* Steps that leave the tables alone.
LEMMA TablesFrame ==
  ASSUME TablesInv, UNCHANGED <<inc, row>>,
         \A d \in Caller : pc'[d] \in Starting => pc[d] \in Starting,
         \A d \in Caller : pc'[d] = "create" => want'[d] = at'[d].room
  PROVE  TablesInv'
BY DEF TablesInv, NotYetQueued, SlotIsTier, QueueAgrees

\* A completion makes the queue's head, and only it, an active incident.
LEMMA TablesComplete ==
  ASSUME TypeOK, TablesInv, NEW i \in Caller \cup {None}, CompleteIncident(i),
         \A d \in Caller : pc'[d] \in Starting => pc[d] \in Starting,
         \A d \in Caller : pc'[d] = "create" => want'[d] = at'[d].room
  PROVE  TablesInv'
<1>1. CASE UNCHANGED <<inc, row>>
  BY <1>1, TablesFrame
<1>2. CASE inc' = [inc EXCEPT ![i].status = "COMPLETED"] /\ UNCHANGED row
  <2>1. \A c \in Caller : /\ inc'[c].status = inc[c].status \/ inc'[c].status = "COMPLETED"
                          /\ inc'[c].room = inc[c].room /\ inc'[c].tier = inc[c].tier
    BY <1>2 DEF TypeOK, Incident
  <2>. QED  BY <1>2, <2>1 DEF TablesInv, NotYetQueued, SlotIsTier, QueueAgrees
<1>3. ASSUME NEW h \in Heads,
             row' = [row EXCEPT ![h] = "DEQUEUED"],
             inc' = [inc EXCEPT ![i].status = "COMPLETED",
                                ![h] = New("ACTIVE", inc[i].tier, inc[i].tier)]
      PROVE  TablesInv'
  <2>1. h \in Caller /\ row[h] = "QUEUED"
    BY DEF Heads, Queued
  <2>2. row'[h] = "DEQUEUED" /\ \A c \in Caller \ {h} : row'[c] = row[c]
    BY <1>3, <2>1 DEF TypeOK
  <2>3. inc'[h] = New("ACTIVE", inc[i].tier, inc[i].tier)
    BY <1>3, <2>1 DEF TypeOK
  <2>4. \A c \in Caller \ {h} :
          /\ inc'[c].status = inc[c].status \/ inc'[c].status = "COMPLETED"
          /\ inc'[c].room = inc[c].room /\ inc'[c].tier = inc[c].tier
    <3>. SUFFICES ASSUME NEW c \in Caller \ {h}
                  PROVE  /\ inc'[c].status = inc[c].status \/ inc'[c].status = "COMPLETED"
                         /\ inc'[c].room = inc[c].room /\ inc'[c].tier = inc[c].tier
      OBVIOUS
    <3>1. inc \in [Caller -> Incident] /\ inc[c] \in Incident
      BY DEF TypeOK
    <3>2. CASE c # i
      <4>1. inc'[c] = inc[c]
        BY <1>3, <2>1, <3>1, <3>2
      <4>. QED  BY <4>1
    <3>3. CASE c = i
      <4>1. inc'[c] = [inc[c] EXCEPT !.status = "COMPLETED"]
        BY <1>3, <2>1, <3>1, <3>3
      <4>. QED  BY <4>1, <3>1 DEF Incident
    <3>. QED  BY <3>2, <3>3
  <2>5. pc[h] \notin Starting
    BY <2>1 DEF TablesInv, NotYetQueued
  <2>. QED  BY <2>1, <2>2, <2>3, <2>4, <2>5
            DEF TablesInv, NotYetQueued, SlotIsTier, QueueAgrees, New
<1>. QED  BY <1>1, <1>2, <1>3, CompleteCases

LEMMA TablesInit == Init => TablesInv
BY DEF Init, TablesInv, NotYetQueued, SlotIsTier, QueueAgrees, New

\* Where a script's step takes its call.
LEMMA MovesOn ==
  ASSUME TypeOK, TablesInv, NEW c \in Caller
  PROVE  /\ \A w : Goto(c, w) /\ (w \in Starting => pc[c] \in Starting) =>
                     \A d \in Caller : pc'[d] \in Starting => pc[d] \in Starting
         /\ \A w : /\ Goto(c, w) /\ w # "create"
                   /\ UNCHANGED want \/ \E t : want' = [want EXCEPT ![c] = t]
                   /\ UNCHANGED at \/ \E r, i : Tell(c, r, i)
                   => \A d \in Caller : pc'[d] = "create" => want'[d] = at'[d].room
         /\ End(c) => /\ \A d \in Caller : pc'[d] \in Starting => pc[d] \in Starting
                      /\ \A d \in Caller : pc'[d] = "create" => want'[d] = at'[d].room
BY DEF TypeOK, TablesInv, SlotIsTier, Goto, Tell, End, Starting

LEMMA TablesWaiting == ASSUME TypeOK, TablesInv, NEW c \in Caller, Waiting(c) PROVE TablesInv'
<1>1. UNCHANGED <<inc, row>>
  BY DEF Waiting, CheckTiers, DialRingAll, RingAllRead, EnqueueRead, PollReady, PollRead,
         StopWaiting, tables
<1>2. CASE StopWaiting(c)
  BY <1>1, <1>2, MovesOn, TablesFrame DEF StopWaiting
<1>3. CASE ~StopWaiting(c)
  <2>1. PICK w : /\ Goto(c, w) /\ w # "create"
                 /\ w \in Starting => pc[c] \in Starting
    BY <1>3 DEF Waiting, CheckTiers, DialRingAll, RingAllRead, EnqueueRead, PollReady, PollRead,
                Starting
  <2>2. /\ UNCHANGED want \/ \E t : want' = [want EXCEPT ![c] = t]
        /\ UNCHANGED at \/ \E r, i : Tell(c, r, i)
    BY <1>3 DEF Waiting, CheckTiers, DialRingAll, RingAllRead, EnqueueRead, PollReady, PollRead
  <2>. QED  BY <1>1, <2>1, <2>2, MovesOn, TablesFrame
<1>. QED  BY <1>2, <1>3

LEMMA TablesEntering == ASSUME TypeOK, TablesInv, NEW c \in Caller, Entering(c) PROVE TablesInv'
<1>1. \A d \in Caller : d # c => pc'[d] = pc[d] /\ want'[d] = want[d] /\ at'[d] = at[d]
  BY DEF Entering, RingAllInsert, EnqueueInsert, PollPromote, Goto, Tell, TypeOK
<1>2. pc'[c] \in {"joining", "wait"}
  BY DEF Entering, RingAllInsert, EnqueueInsert, PollPromote, Goto, TypeOK
<1>3. \A d \in Caller : d # c => inc'[d] = inc[d] /\ row'[d] = row[d]
  BY DEF Entering, RingAllInsert, EnqueueInsert, PollPromote, Dequeue, TypeOK
<1>4. \/ /\ inc'[c] = New("ACTIVE", want[c], want[c])
         /\ row'[c] \in {"none", "DEQUEUED"}
      \/ inc'[c] = New("QUEUED", "primary", "primary") /\ row'[c] = "QUEUED"
      \/ inc'[c] = inc[c] /\ row'[c] = row[c]
  BY DEF Entering, RingAllInsert, EnqueueInsert, PollPromote, Dequeue, TypeOK, Starting,
         TablesInv, NotYetQueued
<1>. QED  BY <1>1, <1>2, <1>3, <1>4
          DEF TablesInv, NotYetQueued, SlotIsTier, QueueAgrees, Starting, New

LEMMA TablesTalking == ASSUME TypeOK, TablesInv, NEW c \in Caller, Talking(c) PROVE TablesInv'
<1>1. CASE Join(c) \/ MissRoom(c) \/ Leave(c)
  <2>1. UNCHANGED <<inc, row>>
    BY <1>1 DEF Join, MissRoom, Leave, tables
  <2>2. \A d \in Caller : pc'[d] = pc[d] \/ pc'[d] \in {"in", "post"}
    BY <1>1 DEF Join, MissRoom, Leave, Goto, TypeOK
  <2>3. UNCHANGED <<want, at>>
    BY <1>1 DEF Join, MissRoom, Leave
  <2>. QED  BY <2>1, <2>2, <2>3, TablesFrame DEF Starting, TablesInv, SlotIsTier
<1>2. CASE PostComplete(c)
  BY <1>2, FieldTypes, MovesOn, TablesComplete DEF PostComplete
<1>3. CASE PostLost(c)
  BY <1>3, MovesOn, TablesFrame DEF PostLost, tables
<1>. QED  BY <1>1, <1>2, <1>3 DEF Talking

LEMMA TablesBridging == ASSUME TypeOK, TablesInv, NEW c \in Caller, Bridging(c) PROVE TablesInv'
<1>1. CASE BridgeLookup(c)
  <2>1. UNCHANGED <<inc, row>> /\ pc[c] = "idle" /\ pc'[c] \in {"create", "createQueued"}
    BY <1>1 DEF BridgeLookup, Goto, TypeOK, tables
  <2>2. \A d \in Caller : d # c => pc'[d] = pc[d] /\ want'[d] = want[d] /\ at'[d] = at[d]
    BY <1>1 DEF BridgeLookup, Goto, Tell, TypeOK
  <2>3. pc'[c] = "create" => want'[c] = at'[c].room
    <3>1. Slot \in Nat /\ Slot > 0
      <4>. DEFINE S == {i \in Caller : inc[i].status = "ACTIVE"}
      <4>1. IsFiniteSet(S)
        BY ErsConstantsOK, FS_Subset DEF ErsConstantsOK
      <4>2. Cardinality(S) \in Nat
        BY <4>1, FS_CardinalityType
      <4>. QED  BY <4>2 DEF Slot
    <3>2. pc'[c] = "create" => Slot <= MaxConcurrent
      BY <1>1 DEF BridgeLookup, Goto, TypeOK
    <3>3. pc'[c] = "create" => Slot = 1 \/ Slot = 2
      BY <3>1, <3>2, ErsConstantsOK DEF ErsConstantsOK
    <3>4. /\ want'[c] = IF Slot = 1 THEN "primary" ELSE "secondary"
          /\ at'[c].room = IF Slot = 2 THEN "secondary" ELSE "primary"
      BY <1>1 DEF BridgeLookup, Tell, TypeOK
    <3>. QED  BY <3>3, <3>4
  <2>. QED  BY <2>1, <2>2, <2>3, TablesFrame DEF Starting, TablesInv, SlotIsTier
<1>2. CASE BridgeCreate(c) \/ BridgeQueue(c)
  <2>1. /\ pc[c] \in {"create", "createQueued"} /\ pc'[c] \in {"joining", "held"}
        /\ UNCHANGED <<row, want, at>>
    BY <1>2 DEF BridgeCreate, BridgeQueue, Goto, TypeOK
  <2>2. \A d \in Caller : d # c => pc'[d] = pc[d] /\ inc'[d] = inc[d]
    BY <1>2 DEF BridgeCreate, BridgeQueue, Goto, TypeOK
  <2>3. \/ inc'[c] = New("QUEUED", want[c], at[c].room)
        \/ inc'[c] = New("ACTIVE", want[c], at[c].room) /\ want[c] = at[c].room
    BY <1>2 DEF BridgeCreate, BridgeQueue, TypeOK, TablesInv, SlotIsTier
  <2>4. row[c] = "none"
    BY <2>1 DEF TablesInv, NotYetQueued, Starting
  <2>. QED  BY <2>1, <2>2, <2>3, <2>4
            DEF TablesInv, NotYetQueued, SlotIsTier, QueueAgrees, Starting, New
<1>3. CASE BridgePoll(c)
  <2>1. UNCHANGED <<inc, row>>
    BY <1>3 DEF BridgePoll, tables
  <2>2. \/ End(c)
        \/ Goto(c, "joining") /\ Tell(c, inc[c].room, c) /\ UNCHANGED want
    BY <1>3 DEF BridgePoll
  <2>3. "joining" \notin Starting
    BY DEF Starting
  <2>. QED  BY <2>1, <2>2, <2>3, MovesOn, TablesFrame
<1>4. CASE BridgeHangUp(c)
  BY <1>4, MovesOn, TablesFrame DEF BridgeHangUp, tables
<1>. QED  BY <1>1, <1>2, <1>3, <1>4 DEF Bridging

LEMMA TablesSweep == ASSUME TypeOK, TablesInv, NEW i \in Caller, Sweep(i) PROVE TablesInv'
<1>1. UNCHANGED <<pc, want, at>>
  BY DEF Sweep, ReconcileStep, ReadEmpty, ReadUnqueued, Reconcile, TwoHours,
         SupervisorCompletes, SupervisorCancels, scripts
<1>2. \A d \in Caller : pc'[d] = "create" => want'[d] = at'[d].room
  BY <1>1 DEF TablesInv, SlotIsTier
<1>3. CASE ReadEmpty(i) \/ ReadUnqueued(i) \/ TwoHours(i)
  BY <1>1, <1>2, <1>3, TablesFrame DEF ReadEmpty, ReadUnqueued, TwoHours, tables
<1>4. CASE Reconcile(i) \/ SupervisorCompletes(i)
  BY <1>1, <1>2, <1>4, TablesComplete DEF Reconcile, SupervisorCompletes
<1>5. CASE SupervisorCancels(i)
  <2>1. inc[i].status = "QUEUED" /\ inc'[i].status = "CANCELLED"
    BY <1>5 DEF SupervisorCancels, TypeOK, Incident
  <2>2. row'[i] = IF row[i] = "QUEUED" THEN "CANCELLED" ELSE row[i]
    BY <1>5 DEF SupervisorCancels, TypeOK
  <2>3. \A d \in Caller : d # i => inc'[d] = inc[d] /\ row'[d] = row[d]
    BY <1>5 DEF SupervisorCancels, TypeOK
  <2>. QED  BY <1>1, <2>1, <2>2, <2>3 DEF TablesInv, NotYetQueued, SlotIsTier, QueueAgrees
<1>. QED  BY <1>3, <1>4, <1>5 DEF Sweep, ReconcileStep

LEMMA TablesNext == TypeOK /\ TablesInv /\ [Next]_vars => TablesInv'
<1>. SUFFICES ASSUME TypeOK, TablesInv, [Next]_vars PROVE TablesInv'
  OBVIOUS
<1>1. ASSUME NEW r \in Tier, RoomStep(r) \/ ReadOrphans(r) \/ DestroyLost(r) PROVE TablesInv'
  <2>1. UNCHANGED <<inc, row, pc, want, at>>
    BY <1>1 DEF RoomStep, RingCheck, RingDeadline, RingGivesUp, LegAnswers, LegsTimeOut, ResponderLeaves,
                ReadOrphans, DestroyLost, tables, scripts
  <2>. QED  BY <2>1 DEF TablesInv, NotYetQueued, SlotIsTier, QueueAgrees
<1>2. CASE ExpireRows
  <2>1. UNCHANGED <<inc, pc, want, at>>
    BY <1>2 DEF ExpireRows, scripts
  <2>2. \A c \in Caller : row'[c] = IF c \in Expiring THEN "EXPIRED" ELSE row[c]
    BY <1>2 DEF ExpireRows
  <2>3. \A c \in Expiring : row[c] = "QUEUED"
    BY DEF Expiring, Queued
  <2>. QED  BY <2>1, <2>2, <2>3 DEF TablesInv, NotYetQueued, SlotIsTier, QueueAgrees
<1>3. CASE UNCHANGED vars
  BY <1>3 DEF vars, tables, scripts, TablesInv, NotYetQueued, SlotIsTier, QueueAgrees
<1>. QED  BY <1>1, <1>2, <1>3, NextCases, TablesWaiting, TablesEntering, TablesTalking,
             TablesBridging, TablesSweep

\* The queue and the incidents tell the same story (ersInternalController.js:425-449,
\* 1110-1290; eslService.js:1146-1190), for any number of calls and interventions.
THEOREM TablesAgree == Spec => []QueueAgrees
<1>1. TablesInv => QueueAgrees
  BY DEF TablesInv
<1>. QED  BY <1>1, TypeInit, TypeNext, TablesInit, TablesNext, PTL DEF Spec

----------------------------------------------------------------------------
(* The order of the queue.                                                 *)

\* Who may change a row: an insert, a promotion by the row's own poll, a
\* completion, and the cancellations, which only shorten the queue.
LEMMA RowCases ==
  ASSUME TypeOK, TablesInv, [Next]_vars
  PROVE  \/ UNCHANGED row
         \/ \E c \in Caller : /\ EnqueueInsert(c) /\ row[c] = "none"
                              /\ row' = [row EXCEPT ![c] = "QUEUED"]
         \/ \E c \in Caller : /\ pc[c] = "promote" /\ row[c] = "QUEUED"
                              /\ row' = [row EXCEPT ![c] = "DEQUEUED"]
         \/ \E h \in Heads : row' = [row EXCEPT ![h] = "DEQUEUED"]
         \/ \A c \in Caller : \/ row'[c] = row[c]
                              \/ row[c] = "QUEUED" /\ row'[c] \in {"CANCELLED", "EXPIRED"}
<1>1. ASSUME NEW c \in Caller, Waiting(c) \/ Bridging(c) PROVE UNCHANGED row
  BY <1>1 DEF Waiting, CheckTiers, DialRingAll, RingAllRead, EnqueueRead, PollReady, PollRead,
              StopWaiting, Bridging, BridgeLookup, BridgeCreate, BridgeQueue, BridgePoll,
              BridgeHangUp, tables
<1>2. ASSUME NEW c \in Caller, Entering(c)
      PROVE  \/ UNCHANGED row
             \/ /\ EnqueueInsert(c) /\ row[c] = "none"
                /\ row' = [row EXCEPT ![c] = "QUEUED"]
             \/ /\ pc[c] = "promote" /\ row[c] = "QUEUED"
                /\ row' = [row EXCEPT ![c] = "DEQUEUED"]
  BY <1>2 DEF Entering, RingAllInsert, EnqueueInsert, PollPromote, StillQueued, Dequeue,
              TablesInv, NotYetQueued, Starting
<1>3. ASSUME NEW c \in Caller, Talking(c)
      PROVE  UNCHANGED row \/ \E h \in Heads : row' = [row EXCEPT ![h] = "DEQUEUED"]
  BY <1>3, CompleteCases DEF Talking, Join, MissRoom, Leave, PostComplete, PostLost, tables
<1>4. ASSUME NEW i \in Caller, Sweep(i)
      PROVE  \/ UNCHANGED row
             \/ \E h \in Heads : row' = [row EXCEPT ![h] = "DEQUEUED"]
             \/ \A c \in Caller : \/ row'[c] = row[c]
                                  \/ row[c] = "QUEUED" /\ row'[c] \in {"CANCELLED", "EXPIRED"}
  <2>1. CASE SupervisorCancels(i)
    BY <2>1 DEF SupervisorCancels, TypeOK
  <2>2. CASE Reconcile(i) \/ SupervisorCompletes(i)
    BY <2>2, CompleteCases DEF Reconcile, SupervisorCompletes
  <2>3. CASE ReadEmpty(i) \/ ReadUnqueued(i) \/ TwoHours(i)
    BY <2>3 DEF ReadEmpty, ReadUnqueued, TwoHours, tables
  <2>. QED  BY <1>4, <2>1, <2>2, <2>3 DEF Sweep, ReconcileStep
<1>5. ASSUME NEW r \in Tier, RoomStep(r) \/ ReadOrphans(r) \/ DestroyLost(r) PROVE UNCHANGED row
  BY <1>5 DEF RoomStep, RingCheck, RingDeadline, RingGivesUp, LegAnswers, LegsTimeOut, ResponderLeaves,
              ReadOrphans, DestroyLost, tables
<1>6. CASE ExpireRows
  BY <1>6 DEF ExpireRows, Expiring, Queued
<1>7. CASE UNCHANGED vars
  BY <1>7 DEF vars, tables
<1>. QED  BY <1>1, <1>2, <1>3, <1>4, <1>5, <1>6, <1>7, NextCases

\* A row that has left the queue stays as it is, whoever reads it as queued
\* before it leaves (ersInternalController.js:1180-1290; eslService.js:1146-1190).
THEOREM RowsLeaveOnce == Spec => RowLeavesOnce
<1>1. TypeOK /\ TablesInv /\ [Next]_vars =>
        [\A c \in Caller : row[c] \notin {"none", "QUEUED"} => row'[c] = row[c]]_vars
  <2>. SUFFICES ASSUME TypeOK, TablesInv, [Next]_vars,
                       NEW c \in Caller, row[c] \notin {"none", "QUEUED"}
                PROVE  row'[c] = row[c]
    OBVIOUS
  <2>1. \A h \in Heads : h \in Caller /\ row[h] = "QUEUED"
    BY DEF Heads, Queued
  <2>. QED  BY <2>1, RowCases DEF TypeOK
<1>. QED  BY <1>1, TypeInit, TypeNext, TablesInit, TablesNext, PTL DEF Spec, RowLeavesOnce

\* Positions count from one.  While an enqueue that found rows is between its
\* two statements it is the only one, and its position is past every row.
AtLeastOne == \A c \in Caller : pc[c] = "queueInsert" => pos[c] > 0
OneReader  == \A c, d \in Caller :
                /\ pc[c] = "queueInsert" /\ pos[c] > 1
                /\ pc[d] = "queueInsert" /\ pos[d] > 1
                => c = d
ReadLast   == \A c \in Caller : pc[c] = "queueInsert" /\ pos[c] > 1 =>
                \A d \in Queued : pos[d] < pos[c]
\* The head that a poll has found is the head until its row leaves the queue.
HeadStays  == \A c \in Caller : pc[c] = "promote" /\ row[c] = "QUEUED" =>
                /\ c \in Heads
                /\ \A d \in Caller : pc[d] = "queueInsert" => pos[c] <= pos[d]
OrderInv   == AtLeastOne /\ OneReader /\ ReadLast /\ HeadStays

LEMMA OrderInit == Init => OrderInv
BY DEF Init, OrderInv, AtLeastOne, OneReader, ReadLast, HeadStays

\* A step that reads no position, looks for no head and adds no row.
LEMMA OrderFrame ==
  ASSUME OrderInv, UNCHANGED pos, Queued' \subseteq Queued,
         \A c \in Caller : pc'[c] \in {"queueInsert", "promote"} => pc'[c] = pc[c]
  PROVE  OrderInv'
BY DEF OrderInv, AtLeastOne, OneReader, ReadLast, HeadStays, Heads, Queued

LEMMA OrderEnqueueRead ==
  ASSUME TypeOK, TablesInv, OrderInv, NEW c \in Caller, EnqueueRead(c)
  PROVE  OrderInv'
<1>1. PICK p \in 1..(Cardinality(Caller) + 1) : /\ \A d \in Queued : pos[d] < p
                                                /\ pos' = [pos EXCEPT ![c] = p]
  BY DEF EnqueueRead, NextPosition, AfterAll
<1>2. p \in Nat /\ p > 0
  BY <1>1, FS_CardinalityType, ErsConstantsOK DEF ErsConstantsOK
<1>3. /\ pos'[c] = p
      /\ \A d \in Caller : d # c => pos'[d] = pos[d]
      /\ \A d \in Caller : pos[d] \in Nat
  BY <1>1, <1>2 DEF TypeOK
<1>4. /\ pc'[c] = "queueInsert"
      /\ \A d \in Caller : d # c => pc'[d] = pc[d]
      /\ UNCHANGED row
  BY DEF EnqueueRead, Goto, TypeOK
<1>5. c \notin Queued
  BY DEF EnqueueRead, TablesInv, NotYetQueued, Starting, Queued
<1>6. \A d \in Caller : d # c /\ pc[d] = "queueInsert" => ~(pos[d] > 1)
  BY DEF EnqueueRead, Locked
<1>7. Queued' = Queued
  BY <1>4 DEF Queued
<1>8. AtLeastOne'
  BY <1>2, <1>3, <1>4 DEF OrderInv, AtLeastOne
<1>9. OneReader'
  BY <1>3, <1>4, <1>6 DEF OneReader
<1>10. ReadLast'
  BY <1>1, <1>3, <1>4, <1>5, <1>6, <1>7 DEF ReadLast, Queued
<1>11. HeadStays'
  <2>. SUFFICES ASSUME NEW e \in Caller, pc'[e] = "promote", row'[e] = "QUEUED"
                PROVE  /\ e \in Heads'
                       /\ \A d \in Caller : pc'[d] = "queueInsert" => pos'[e] <= pos'[d]
    BY DEF HeadStays
  <2>1. e # c /\ e \in Queued
    BY <1>4 DEF Queued
  <2>2. /\ e \in Heads
        /\ \A d \in Caller : pc[d] = "queueInsert" => pos[e] <= pos[d]
    BY <1>4, <2>1 DEF OrderInv, HeadStays
  <2>3. e \in Heads'
    BY <1>3, <1>5, <1>7, <2>1, <2>2 DEF Heads, Queued
  <2>4. pos[e] < p
    BY <1>1, <2>1
  <2>5. \A d \in Caller : pc'[d] = "queueInsert" => pos'[e] <= pos'[d]
    BY <1>2, <1>3, <1>4, <2>1, <2>2, <2>4
  <2>. QED  BY <2>3, <2>5
<1>. QED  BY <1>8, <1>9, <1>10, <1>11 DEF OrderInv

LEMMA OrderEnqueueInsert ==
  ASSUME TypeOK, TablesInv, OrderInv, NEW c \in Caller, EnqueueInsert(c)
  PROVE  OrderInv'
<1>1. /\ pc[c] = "queueInsert" /\ pc'[c] = "wait"
      /\ \A d \in Caller : d # c => pc'[d] = pc[d]
      /\ UNCHANGED pos
  BY DEF EnqueueInsert, Goto, TypeOK
<1>2. Queued' = Queued \cup {c}
  BY DEF EnqueueInsert, TypeOK, Queued
<1>3. \A d \in Caller : pos[d] \in Nat
  BY DEF TypeOK
<1>4. AtLeastOne' /\ OneReader'
  BY <1>1 DEF OrderInv, AtLeastOne, OneReader
<1>5. ReadLast'
  <2>. SUFFICES ASSUME NEW d \in Caller, pc'[d] = "queueInsert", pos[d] > 1
                PROVE  \A e \in Queued' : pos[e] < pos[d]
    BY <1>1 DEF ReadLast
  <2>1. d # c /\ pc[d] = "queueInsert"
    BY <1>1
  <2>2. pos[c] > 0 /\ ~(pos[c] > 1)
    BY <1>1, <2>1 DEF OrderInv, AtLeastOne, OneReader
  <2>3. pos[c] < pos[d]
    BY <1>3, <2>2
  <2>4. \A e \in Queued : pos[e] < pos[d]
    BY <2>1 DEF OrderInv, ReadLast
  <2>. QED  BY <1>2, <2>3, <2>4
<1>6. HeadStays'
  <2>. SUFFICES ASSUME NEW e \in Caller, pc'[e] = "promote", row'[e] = "QUEUED"
                PROVE  /\ e \in Heads'
                       /\ \A d \in Caller : pc'[d] = "queueInsert" => pos'[e] <= pos'[d]
    BY DEF HeadStays
  <2>1. e # c /\ pc[e] = "promote" /\ e \in Queued
    <3>1. e # c /\ e \in Queued'
      BY <1>1 DEF Queued
    <3>. QED  BY <1>1, <1>2, <3>1
  <2>2. /\ e \in Heads
        /\ \A d \in Caller : pc[d] = "queueInsert" => pos[e] <= pos[d]
    BY <2>1 DEF OrderInv, HeadStays, Queued
  <2>3. \A d \in Queued' : pos[e] <= pos[d]
    BY <1>1, <1>2, <2>2 DEF Heads
  <2>4. e \in Heads'
    BY <1>1, <1>2, <2>1, <2>3 DEF Heads
  <2>5. \A d \in Caller : pc'[d] = "queueInsert" => pos'[e] <= pos'[d]
    BY <1>1, <2>2
  <2>. QED  BY <2>4, <2>5
<1>. QED  BY <1>4, <1>5, <1>6 DEF OrderInv

LEMMA OrderPollRead ==
  ASSUME TypeOK, OrderInv, NEW c \in Caller, PollRead(c)
  PROVE  OrderInv'
<1>1. /\ pc'[c] = "promote" /\ c \in Heads /\ Inserting = {}
      /\ \A d \in Caller : d # c => pc'[d] = pc[d]
      /\ UNCHANGED <<pos, row>>
  BY DEF PollRead, Goto, TypeOK, tables
<1>2. Queued' = Queued /\ Heads' = Heads
  BY <1>1 DEF Queued, Heads
<1>3. AtLeastOne' /\ OneReader' /\ ReadLast'
  BY <1>1, <1>2 DEF OrderInv, AtLeastOne, OneReader, ReadLast
<1>4. c \in Queued
  BY <1>1 DEF Heads
<1>5. \A d \in Caller : pc[d] = "queueInsert" => pos[c] <= pos[d]
  <2>. SUFFICES ASSUME NEW d \in Caller, pc[d] = "queueInsert" PROVE pos[c] <= pos[d]
    OBVIOUS
  <2>1. pos[d] \in Nat /\ pos[c] \in Nat
    BY DEF TypeOK
  <2>2. pos[d] > 0 /\ pos[d] # 1
    BY <1>1 DEF OrderInv, AtLeastOne, Inserting
  <2>3. pos[d] > 1
    BY <2>1, <2>2
  <2>4. pos[c] < pos[d]
    BY <1>4, <2>3 DEF OrderInv, ReadLast
  <2>. QED  BY <2>1, <2>4
<1>6. HeadStays'
  BY <1>1, <1>2, <1>5 DEF OrderInv, HeadStays
<1>. QED  BY <1>3, <1>6 DEF OrderInv

LEMMA OrderNext == TypeOK /\ TablesInv /\ OrderInv /\ [Next]_vars => OrderInv'
<1>. SUFFICES ASSUME TypeOK, TablesInv, OrderInv, [Next]_vars PROVE OrderInv'
  OBVIOUS
<1>1. CASE \E c \in Caller : EnqueueRead(c) \/ EnqueueInsert(c) \/ PollRead(c)
  BY <1>1, OrderEnqueueRead, OrderEnqueueInsert, OrderPollRead
<1>2. CASE ~\E c \in Caller : EnqueueRead(c) \/ EnqueueInsert(c) \/ PollRead(c)
  <2>1. Queued' \subseteq Queued
    <3>1. Heads \subseteq Caller
      BY DEF Heads, Queued
    <3>. QED  BY <1>2, <3>1, RowCases DEF Queued, TypeOK
  <2>2. /\ UNCHANGED pos
        /\ \A d \in Caller : pc'[d] \in {"queueInsert", "promote"} => pc'[d] = pc[d]
    <3>1. ASSUME NEW c \in Caller, Waiting(c) PROVE <2>2
      <4>1. \/ CheckTiers(c) \/ DialRingAll(c) \/ RingAllRead(c) \/ PollReady(c) \/ StopWaiting(c)
        BY <1>2, <3>1 DEF Waiting
      <4>. QED  BY <4>1 DEF CheckTiers, DialRingAll, RingAllRead, PollReady, StopWaiting,
                            Goto, End, TypeOK, tables
    <3>2. ASSUME NEW c \in Caller, Entering(c) PROVE <2>2
      BY <3>2 DEF Entering, RingAllInsert, EnqueueInsert, PollPromote, Goto, TypeOK
    <3>3. ASSUME NEW c \in Caller, Talking(c) PROVE <2>2
      BY <3>3 DEF Talking, Join, MissRoom, Leave, PostComplete, PostLost, Goto, End, TypeOK, tables
    <3>4. ASSUME NEW c \in Caller, Bridging(c) PROVE <2>2
      BY <3>4 DEF Bridging, BridgeLookup, BridgeCreate, BridgeQueue, BridgePoll, BridgeHangUp,
                  Goto, End, TypeOK, tables
    <3>5. ASSUME NEW i \in Caller, Sweep(i) PROVE <2>2
      BY <3>5 DEF Sweep, ReconcileStep, ReadEmpty, ReadUnqueued, Reconcile, TwoHours,
                  SupervisorCompletes, SupervisorCancels, tables, scripts
    <3>6. ASSUME NEW r \in Tier, RoomStep(r) \/ ReadOrphans(r) \/ DestroyLost(r) PROVE <2>2
      BY <3>6 DEF RoomStep, RingCheck, RingDeadline, RingGivesUp, LegAnswers, LegsTimeOut, ResponderLeaves,
                  ReadOrphans, DestroyLost, tables, scripts
    <3>7. CASE ExpireRows \/ UNCHANGED vars
      BY <3>7 DEF ExpireRows, vars, tables, scripts
    <3>. QED  BY <3>1, <3>2, <3>3, <3>4, <3>5, <3>6, <3>7, NextCases
  <2>. QED  BY <2>1, <2>2, OrderFrame
<1>. QED  BY <1>1, <1>2

\* Nobody overtakes: the row that a poll or a completion promotes has the
\* smallest position of the queue at that moment, although the poll looked for
\* it several awaits earlier (ersInternalController.js:1180-1290).
THEOREM QueueInOrder == Spec => InOrder
<1>1. TypeOK /\ TablesInv /\ OrderInv /\ [Next]_vars =>
        [\A c \in Caller : row[c] = "QUEUED" /\ row'[c] = "DEQUEUED" =>
           \A d \in Queued : pos[c] <= pos[d]]_vars
  <2>. SUFFICES ASSUME TypeOK, TablesInv, OrderInv, [Next]_vars,
                       NEW c \in Caller, row[c] = "QUEUED", row'[c] = "DEQUEUED"
                PROVE  c \in Heads
    BY DEF Heads
  <2>1. \A h \in Heads : h \in Caller
    BY DEF Heads, Queued
  <2>2. \/ pc[c] = "promote"
        \/ c \in Heads
    BY <2>1, RowCases DEF TypeOK
  <2>. QED  BY <2>2 DEF OrderInv, HeadStays
<1>. QED  BY <1>1, TypeInit, TypeNext, TablesInit, TablesNext, OrderInit, OrderNext,
             PTL DEF Spec, InOrder

----------------------------------------------------------------------------
(* The ring loops.                                                         *)

\* A caller who is owed a ring has a loop in the room, and until it has joined
\* the loop is its own, which waits for it.
OwedHere ==
  \A c \in owed : /\ pc[c] \in {"joining", "in"}
                  /\ ring[at[c].room].st # "off"
                  /\ pc[c] = "joining" => ring[at[c].room].owner = c

LEMMA OwedInit == Init => OwedHere
BY DEF Init, OwedHere

\* A step that starts no loop and ends none that is owed to a caller.
LEMMA OwedFrame ==
  ASSUME OwedHere, owed' \subseteq owed,
         \A c \in owed' : /\ pc'[c] = pc[c] \/ pc'[c] = "in"
                          /\ at'[c] = at[c]
                          /\ ring'[at[c].room].st # "off"
                          /\ pc[c] = "joining" => ring'[at[c].room].owner = ring[at[c].room].owner
  PROVE  OwedHere'
BY DEF OwedHere

LEMMA OwedWaiting == ASSUME TypeOK, OwedHere, NEW c \in Caller, Waiting(c) PROVE OwedHere'
<1>1. pc[c] \notin {"joining", "in"}
  BY DEF Waiting, CheckTiers, DialRingAll, RingAllRead, EnqueueRead, PollReady, PollRead, StopWaiting
<1>2. c \notin owed
  BY <1>1 DEF OwedHere
<1>3. UNCHANGED <<ring, owed>>
  BY DEF Waiting, CheckTiers, DialRingAll, RingAllRead, EnqueueRead, PollReady, PollRead,
         StopWaiting, rooms
<1>4. \A d \in Caller : d # c => pc'[d] = pc[d] /\ at'[d] = at[d]
  BY DEF Waiting, CheckTiers, DialRingAll, RingAllRead, EnqueueRead, PollReady, PollRead,
         StopWaiting, Goto, Tell, End, TypeOK
<1>. QED  BY <1>2, <1>3, <1>4, OwedFrame DEF OwedHere, TypeOK

\* The loop that is started is the new caller's own.
LEMMA OwedEntering == ASSUME TypeOK, OwedHere, NEW c \in Caller, Entering(c) PROVE OwedHere'
<1>1. /\ pc[c] \notin {"joining", "in"}
      /\ \A d \in Caller : d # c => pc'[d] = pc[d] /\ at'[d] = at[d]
  BY DEF Entering, RingAllInsert, EnqueueInsert, PollPromote, Goto, Tell, TypeOK
<1>2. c \notin owed
  BY <1>1 DEF OwedHere
<1>3. CASE UNCHANGED <<ring, owed>>
  BY <1>1, <1>2, <1>3, OwedFrame DEF OwedHere, TypeOK
<1>4. CASE ~UNCHANGED <<ring, owed>>
  <2>1. /\ StartRing(want[c], c)
        /\ pc' = [pc EXCEPT ![c] = "joining"]
        /\ at' = [at EXCEPT ![c] = [room |-> want[c], uuid |-> c]]
    BY <1>4 DEF Entering, RingAllInsert, EnqueueInsert, PollPromote, rooms, Goto, Tell
  <2>2. /\ ring[want[c]].st = "off"
        /\ ring' = [ring EXCEPT ![want[c]] = [st |-> "first", owner |-> c]]
        /\ owed' = owed \cup {c}
    BY <1>4, <2>1 DEF StartRing
  <2>3. want[c] \in Tier /\ \A d \in Caller : at[d].room \in Tier
    BY FieldTypes
  <2>4. pc'[c] = "joining" /\ at'[c].room = want[c]
    BY <2>1 DEF TypeOK
  <2>5. ring'[want[c]] = [st |-> "first", owner |-> c]
    BY <2>2, <2>3 DEF TypeOK
  <2>6. \A d \in owed : d # c /\ at[d].room # want[c]
    BY <1>2, <2>2 DEF OwedHere
  <2>7. \A d \in owed : ring'[at[d].room] = ring[at[d].room]
    BY <2>2, <2>3, <2>6 DEF TypeOK
  <2>8. \A d \in owed : d \in Caller /\ pc'[d] = pc[d] /\ at'[d] = at[d]
    BY <1>1, <2>6 DEF TypeOK
  <2>. QED  BY <2>2, <2>4, <2>5, <2>7, <2>8 DEF OwedHere
<1>. QED  BY <1>3, <1>4

LEMMA OwedTalking == ASSUME TypeOK, OwedHere, NEW c \in Caller, Talking(c) PROVE OwedHere'
<1>1. UNCHANGED ring
  BY DEF Talking, Join, MissRoom, Leave, PostComplete, PostLost, rooms
<1>2. CASE Join(c)
  <2>1. owed' \subseteq owed /\ UNCHANGED at
    BY <1>2 DEF Join
  <2>2. \A d \in Caller : pc'[d] = pc[d] \/ pc'[d] = "in"
    BY <1>2 DEF Join, Goto, TypeOK
  <2>. QED  BY <1>1, <2>1, <2>2, OwedFrame DEF OwedHere, TypeOK
<1>3. CASE ~Join(c)
  <2>1. owed' \subseteq owed /\ c \notin owed'
    <3>1. CASE MissRoom(c) \/ Leave(c)
      BY <3>1 DEF MissRoom, Leave
    <3>2. CASE PostComplete(c) \/ PostLost(c)
      BY <3>2 DEF PostComplete, PostLost, OwedHere
    <3>. QED  BY <1>3, <3>1, <3>2 DEF Talking
  <2>2. \A d \in Caller : d # c => pc'[d] = pc[d] /\ at'[d] = at[d]
    BY <1>3 DEF Talking, MissRoom, Leave, PostComplete, PostLost, Goto, End, TypeOK
  <2>. QED  BY <1>1, <2>1, <2>2, OwedFrame DEF OwedHere, TypeOK
<1>. QED  BY <1>2, <1>3

LEMMA OwedBridging == ASSUME TypeOK, OwedHere, NEW c \in Caller, Bridging(c) PROVE OwedHere'
<1>1. pc[c] \notin {"joining", "in"}
  BY DEF Bridging, BridgeLookup, BridgeCreate, BridgeQueue, BridgePoll, BridgeHangUp
<1>2. c \notin owed
  BY <1>1 DEF OwedHere
<1>3. UNCHANGED <<ring, owed>>
  BY DEF Bridging, BridgeLookup, BridgeCreate, BridgeQueue, BridgePoll, BridgeHangUp, rooms
<1>4. \A d \in Caller : d # c => pc'[d] = pc[d] /\ at'[d] = at[d]
  BY DEF Bridging, BridgeLookup, BridgeCreate, BridgeQueue, BridgePoll, BridgeHangUp,
         Goto, Tell, End, TypeOK
<1>. QED  BY <1>2, <1>3, <1>4, OwedFrame DEF OwedHere, TypeOK

\* A loop only ends for a room whose members are more than one or, once its
\* starter has joined or gone, none.
LEMMA OwedRing == ASSUME TypeOK, OwedHere, NEW r \in Tier, RingCheck(r) PROVE OwedHere'
<1>1. UNCHANGED <<pc, at>>
  BY DEF RingCheck, scripts
<1>2. \A c \in owed : c \in Caller /\ at[c].room \in Tier
  BY FieldTypes DEF TypeOK
<1>3. ring[r].st # "off" /\ (ring[r].st = "again" => pc[ring[r].owner] # "joining")
  BY DEF RingCheck
<1>4. PICK n \in CountRange :
        /\ Count(r, n)
        /\ \/ /\ Abandoned(r, n) \/ n > 1
              /\ ring' = [ring EXCEPT ![r] = [st |-> "off", owner |-> None]]
              /\ owed' = IF Members(r) = 0 THEN owed ELSE {c \in owed : at[c].room # r}
           \/ /\ ring' = [ring EXCEPT ![r].st = "again"]
              /\ UNCHANGED owed
  BY DEF RingCheck
<1>5. CASE /\ Abandoned(r, n) \/ n > 1
           /\ ring' = [ring EXCEPT ![r] = [st |-> "off", owner |-> None]]
           /\ owed' = IF Members(r) = 0 THEN owed ELSE {c \in owed : at[c].room # r}
  <2>1. \A c \in owed' : c \in owed /\ at[c].room # r
    <3>1. CASE Members(r) # 0
      BY <1>5, <3>1
    <3>2. CASE Members(r) = 0
      <4>1. n = 0
        BY <1>4, <3>2 DEF Count
      <4>2. Abandoned(r, n)
        BY <1>5, <4>1
      <4>3. pc[ring[r].owner] # "joining"
        BY <1>3, <4>2 DEF Abandoned
      <4>4. InRoom(r) = {}
        <5>1. IsFiniteSet(InRoom(r))
          BY ErsConstantsOK, FS_Subset DEF ErsConstantsOK, InRoom
        <5>2. Cardinality(InRoom(r)) \in Nat
          BY <5>1, FS_CardinalityType
        <5>3. Cardinality(InRoom(r)) = 0
          BY <3>2, <5>2 DEF Members
        <5>. QED  BY <5>1, <5>3, FS_EmptySet
      <4>5. \A c \in owed : at[c].room # r
        BY <1>2, <4>3, <4>4 DEF OwedHere, InRoom
      <4>. QED  BY <1>5, <3>2, <4>5
    <3>. QED  BY <3>1, <3>2
  <2>2. \A c \in owed' : ring'[at[c].room] = ring[at[c].room]
    BY <1>2, <1>5, <2>1 DEF TypeOK
  <2>. QED  BY <1>1, <2>1, <2>2, OwedFrame DEF OwedHere
<1>6. CASE ring' = [ring EXCEPT ![r].st = "again"] /\ UNCHANGED owed
  <2>1. \A t \in Tier : /\ ring'[t].st = ring[t].st \/ ring'[t].st = "again"
                        /\ ring'[t].owner = ring[t].owner
    <3>1. \A t \in Tier : t # r => ring'[t] = ring[t]
      BY <1>6 DEF TypeOK
    <3>2. ring'[r] = [ring[r] EXCEPT !.st = "again"]
      BY <1>6 DEF TypeOK
    <3>3. ring[r] \in [st: {"off", "first", "again"}, owner: Caller \cup {None}]
      BY DEF TypeOK
    <3>. QED  BY <3>1, <3>2, <3>3
  <2>. QED  BY <1>1, <1>2, <1>6, <2>1, OwedFrame DEF OwedHere
<1>. QED  BY <1>4, <1>5, <1>6

LEMMA OwedNext == TypeOK /\ OwedHere /\ [Next]_vars => OwedHere'
<1>. SUFFICES ASSUME TypeOK, OwedHere, [Next]_vars PROVE OwedHere'
  OBVIOUS
<1>1. ASSUME NEW i \in Caller, Sweep(i) PROVE OwedHere'
  <2>1. UNCHANGED <<pc, at, ring, owed>>
    BY <1>1 DEF Sweep, ReconcileStep, ReadEmpty, ReadUnqueued, Reconcile, TwoHours,
                SupervisorCompletes, SupervisorCancels, scripts, rooms
  <2>. QED  BY <2>1 DEF OwedHere
<1>2. ASSUME NEW r \in Tier, LegsTimeOut(r) \/ ResponderLeaves(r) \/ ReadOrphans(r) \/ DestroyLost(r)
      PROVE  OwedHere'
  <2>1. UNCHANGED <<pc, at, ring, owed>>
    BY <1>2 DEF LegsTimeOut, ResponderLeaves, ReadOrphans, DestroyLost, scripts, rooms
  <2>. QED  BY <2>1 DEF OwedHere
<1>3. ASSUME NEW r \in Tier, LegAnswers(r) PROVE OwedHere'
  <2>1. UNCHANGED <<pc, at, ring>> /\ owed' \subseteq owed
    BY <1>3 DEF LegAnswers, scripts
  <2>. QED  BY <2>1 DEF OwedHere
<1>4. ASSUME NEW r \in Tier, RingDeadline(r) \/ RingGivesUp(r) PROVE OwedHere'
  <2>1. /\ UNCHANGED <<pc, at>>
        /\ ring' = [ring EXCEPT ![r] = [st |-> "off", owner |-> None]]
        /\ owed' = {c \in owed : at[c].room # r}
    BY <1>4 DEF RingDeadline, RingGivesUp, scripts
  <2>2. \A c \in owed' : c \in owed /\ ring'[at[c].room] = ring[at[c].room]
    BY <2>1, FieldTypes DEF TypeOK
  <2>. QED  BY <2>1, <2>2, OwedFrame DEF OwedHere
<1>5. CASE ExpireRows \/ UNCHANGED vars
  <2>1. UNCHANGED <<pc, at, ring, owed>>
    BY <1>5 DEF ExpireRows, vars, scripts, rooms
  <2>. QED  BY <2>1 DEF OwedHere
<1>. QED  BY <1>1, <1>2, <1>3, <1>4, <1>5, NextCases, OwedWaiting, OwedEntering, OwedTalking,
             OwedBridging, OwedRing DEF RoomStep

\* A caller for whom the responders were to be rung and who has been alone
\* since is being rung for, whatever other loops, completions and sweeps run
\* beside it (ersRingService.js:177-291).
THEOREM OwedRings == Spec => []OwedIsRung
<1>1. OwedHere => OwedIsRung
  BY DEF OwedHere, OwedIsRung
<1>. QED  BY <1>1, TypeInit, TypeNext, OwedInit, OwedNext, PTL DEF Spec
=============================================================================
