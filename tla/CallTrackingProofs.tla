-------------------------- MODULE CallTrackingProofs --------------------------
(***************************************************************************)
(* Theorems about CallTracking, for any set of agents and any number of     *)
(* offers, failed commands, lost connections and crashes.                   *)
(***************************************************************************)
EXTENDS CallTracking, SequenceTheorems, TLAPS

----------------------------------------------------------------------------
(* Types.                                                                  *)

\* Events are appended as they are emitted.
LEMMA EmitTypes ==
  ASSUME TypeOK
  PROVE  /\ \A e \in Event : Emit(<<e>>) => inbox' \in Seq(Event)
         /\ \A e, f \in Event : Emit(<<e, f>>) => inbox' \in Seq(Event)
         /\ \A e, f, g \in Event : Emit(<<e, f, g>>) => inbox' \in Seq(Event)
<1>1. ASSUME NEW es \in Seq(Event), Emit(es) PROVE inbox' \in Seq(Event)
  BY <1>1 DEF Emit, TypeOK
<1>2. \A e, f, g \in Event : /\ <<e>> \in Seq(Event)
                            /\ <<e, f>> \in Seq(Event)
                            /\ <<e, f, g>> \in Seq(Event)
  OBVIOUS
<1>. QED  BY <1>1, <1>2

LEMMA EventTypes ==
  /\ \A k \in {"start", "abandoned", "end", "hangup"} : On(k) \in Event
  /\ \A k \in {"offering", "noAnswer", "bridge", "bridgeEnd"}, a \in Agent : Of(k, a) \in Event
BY DEF On, Of, Event

LEMMA NextEvent ==
  ASSUME TypeOK, NEW k, Next1(k)
  PROVE  /\ inbox' \in Seq(Event)
         /\ Who \in Agent \cup {None}
         /\ k \in {"offering", "noAnswer", "bridge", "bridgeEnd"} => Who \in Agent
<1>1. Head(inbox) \in Event /\ Tail(inbox) \in Seq(Event)
  BY DEF TypeOK, Next1
<1>2. Head(inbox).kind = k /\ inbox' = Tail(inbox)
  BY DEF Next1
<1>. QED  BY <1>1, <1>2 DEF Who, Event

LEMMA FinishType == ASSUME NEW r \in Call PROVE Finish(r) \in Call
BY DEF Finish, Call

\* What a finalizer leaves to do joins what others have left.
LEMMA RestTypes ==
  ASSUME TypeOK
  PROVE  /\ \A x \in Rest : closing \cup {x} \in SUBSET Rest
         /\ Uncounted \in Rest
         /\ \A p, q \in BOOLEAN : [count |-> TRUE, answered |-> p, abandoned |-> q] \in Rest
BY DEF TypeOK, Uncounted, Rest

\* An abandoned call, and a cycle that starts.
LEMMA AbandonType ==
  ASSUME NEW r \in Call
  PROVE  [r EXCEPT !.st = "closed", !.abandoned = TRUE, !.disposition = "abandoned"] \in Call
BY DEF Call

LEMMA StartType ==
  \A b \in BOOLEAN : [Idle EXCEPT !.pc = "members", !.old = b] \in Cycle
<1>1. Idle \in Cycle
  BY DEF Idle, Cycle
<1>2. \A c \in Cycle : \A b \in BOOLEAN : [c EXCEPT !.pc = "members", !.old = b] \in Cycle
  BY DEF Cycle
<1>. QED  BY <1>1, <1>2

\* Somebody has answered a bridged call.
SomebodyTalks == fs = "bridged" => talker \in Agent

LEMMA TypeInit == Init => TypeOK
BY CallConstantsOK DEF Init, TypeOK, Idle, Rested, Import, Call, Offer, Cycle, CallConstantsOK

LEMMA TypePhone == TypeOK /\ SomebodyTalks /\ Phone => TypeOK'
<1>. SUFFICES ASSUME TypeOK, SomebodyTalks, Phone PROVE TypeOK'
  OBVIOUS
<1>1. CASE Enter
  <2>1. fs' \in {"new", "queue", "bridged", "gone"}
    BY <1>1 DEF Enter
  <2>2. inbox' \in Seq(Event)
    BY <1>1, EventTypes, EmitTypes DEF Enter, TypeOK
  <2>3. UNCHANGED <<ringing, talker, offers, link, talks, closing,
                reaper, sync, row, hist, stats, faults>>
    BY <1>1 DEF Enter, phoneOnly, tables
  <2>. QED  BY <2>1, <2>2, <2>3 DEF TypeOK
<1>2. CASE Abandon
  <2>1. /\ fs' \in {"new", "queue", "bridged", "gone"}
       /\ ringing' \in SUBSET Agent
    BY <1>2 DEF Abandon
  <2>2. inbox' \in Seq(Event)
    BY <1>2, EventTypes, EmitTypes DEF Abandon, TypeOK
  <2>3. UNCHANGED <<talker, offers, link, talks, closing, reaper, sync,
                row, hist, stats, faults>>
    BY <1>2 DEF Abandon, phoneOnly, tables
  <2>. QED  BY <2>1, <2>2, <2>3 DEF TypeOK
<1>3. CASE TalkEnds
  <2>1. fs' \in {"new", "queue", "bridged", "gone"}
    BY <1>3 DEF TalkEnds
  <2>2. inbox' \in Seq(Event)
    BY <1>3, EventTypes, EmitTypes DEF TalkEnds, SomebodyTalks
  <2>3. UNCHANGED <<ringing, talker, offers, link, talks, closing,
                reaper, sync, row, hist, stats, faults>>
    BY <1>3 DEF TalkEnds, phoneOnly, tables
  <2>. QED  BY <2>1, <2>2, <2>3 DEF TypeOK
<1>4. ASSUME NEW a \in Agent, Ring(a) PROVE TypeOK'
  <2>1. offers' \in 0..OfferBound
    BY <1>4, CallConstantsOK DEF Ring, TypeOK, CallConstantsOK
  <2>2. ringing' \in SUBSET Agent
    BY <1>4 DEF Ring, TypeOK
  <2>3. inbox' \in Seq(Event)
    BY <1>4, EventTypes, EmitTypes DEF Ring, TypeOK
  <2>4. UNCHANGED <<fs, talker, link, talks, closing, reaper, sync, row,
                hist, stats, faults>>
    BY <1>4 DEF Ring, phoneOnly, tables
  <2>. QED  BY <2>1, <2>2, <2>3, <2>4 DEF TypeOK
<1>5. ASSUME NEW a \in Agent, RingEnds(a) PROVE TypeOK'
  <2>1. ringing' \in SUBSET Agent
    BY <1>5 DEF RingEnds, TypeOK
  <2>2. inbox' \in Seq(Event)
    BY <1>5, EventTypes, EmitTypes DEF RingEnds, TypeOK
  <2>3. UNCHANGED <<fs, talker, offers, link, talks, closing, reaper,
                sync, row, hist, stats, faults>>
    BY <1>5 DEF RingEnds, phoneOnly, tables
  <2>. QED  BY <2>1, <2>2, <2>3 DEF TypeOK
<1>6. ASSUME NEW a \in Agent, Answer(a) PROVE TypeOK'
  <2>1. /\ fs' \in {"new", "queue", "bridged", "gone"}
       /\ talker' \in Agent \cup {None}
       /\ ringing' \in SUBSET Agent
    BY <1>6 DEF Answer, TypeOK
  <2>2. inbox' \in Seq(Event)
    BY <1>6, EventTypes, EmitTypes DEF Answer, TypeOK
  <2>3. UNCHANGED <<offers, link, talks, closing, reaper, sync, row,
                hist, stats, faults>>
    BY <1>6 DEF Answer, phoneOnly, tables
  <2>. QED  BY <2>1, <2>2, <2>3 DEF TypeOK
<1>. QED  BY <1>1, <1>2, <1>3, <1>4, <1>5, <1>6 DEF Phone

LEMMA TypeHandler == TypeOK /\ Handler => TypeOK'
<1>. SUFFICES ASSUME TypeOK, Handler PROVE TypeOK'
  OBVIOUS
<1>1. CASE QueueStart
  <2>1. inbox' \in Seq(Event)
    BY <1>1, NextEvent DEF QueueStart
  <2>2. row' \in Call
    BY <1>1 DEF QueueStart, TypeOK, Call
  <2>3. UNCHANGED <<fs, ringing, talker, offers, link, talks, closing,
                reaper, sync, hist, stats, faults>>
    BY <1>1 DEF QueueStart, phone, handled
  <2>. QED  BY <2>1, <2>2, <2>3 DEF TypeOK
<1>2. CASE AgentOffering
  <2>1. inbox' \in Seq(Event)
    BY <1>2, NextEvent DEF AgentOffering
  <2>2. hist' \in [Agent -> Offer]
    BY <1>2, NextEvent DEF AgentOffering, TypeOK, Offer
  <2>3. UNCHANGED <<fs, ringing, talker, offers, link, talks, closing,
                reaper, sync, row, stats, faults>>
    BY <1>2 DEF AgentOffering, phone, handled
  <2>. QED  BY <2>1, <2>2, <2>3 DEF TypeOK
<1>3. CASE AgentNoAnswer
  <2>1. inbox' \in Seq(Event)
    BY <1>3, NextEvent DEF AgentNoAnswer
  <2>2. hist' \in [Agent -> Offer]
    BY <1>3, NextEvent DEF AgentNoAnswer, TypeOK, Offer
  <2>3. UNCHANGED <<fs, ringing, talker, offers, link, talks, closing,
                reaper, sync, row, stats, faults>>
    BY <1>3 DEF AgentNoAnswer, phone, handled
  <2>. QED  BY <2>1, <2>2, <2>3 DEF TypeOK
<1>4. CASE BridgeAgentStart
  <2>1. inbox' \in Seq(Event)
    BY <1>4, NextEvent DEF BridgeAgentStart
  <2>2. /\ row' \in Call
       /\ talks' \in SUBSET Agent
    BY <1>4, NextEvent DEF BridgeAgentStart, TypeOK, Call
  <2>3. UNCHANGED <<fs, ringing, talker, offers, link, closing, reaper,
                sync, hist, stats, faults>>
    BY <1>4 DEF BridgeAgentStart, phone, handled
  <2>. QED  BY <2>1, <2>2, <2>3 DEF TypeOK
<1>5. CASE BridgeAgentEnd
  <2>1. inbox' \in Seq(Event)
    BY <1>5, NextEvent DEF BridgeAgentEnd
  <2>2. hist' \in [Agent -> Offer]
    BY <1>5, NextEvent DEF BridgeAgentEnd, TypeOK, Offer
  <2>3. UNCHANGED <<fs, ringing, talker, offers, link, talks, closing,
                reaper, sync, row, stats, faults>>
    BY <1>5 DEF BridgeAgentEnd, phone, handled
  <2>. QED  BY <2>1, <2>2, <2>3 DEF TypeOK
<1>6. CASE MemberAbandoned
  <2>1. inbox' \in Seq(Event)
    BY <1>6, NextEvent DEF MemberAbandoned
  <2>2. row' \in Call
    BY <1>6, AbandonType DEF MemberAbandoned, TypeOK
  <2>3. closing' \in SUBSET Rest
    BY <1>6, RestTypes DEF MemberAbandoned, TypeOK
  <2>4. UNCHANGED <<fs, ringing, talker, offers, link, talks, reaper,
                sync, hist, stats, faults>>
    BY <1>6 DEF MemberAbandoned, phone, handled
  <2>. QED  BY <2>1, <2>2, <2>3, <2>4 DEF TypeOK
<1>7. CASE MemberQueueEnd
  <2>1. inbox' \in Seq(Event)
    BY <1>7, NextEvent DEF MemberQueueEnd
  <2>2. row' \in Call
    BY <1>7, FinishType DEF MemberQueueEnd, TypeOK
  <2>3. closing' \in SUBSET Rest
    BY <1>7, <2>2, RestTypes, FinishType DEF MemberQueueEnd, TypeOK, Call
  <2>4. UNCHANGED <<fs, ringing, talker, offers, link, talks, reaper,
                sync, hist, stats, faults>>
    BY <1>7 DEF MemberQueueEnd, phone, handled
  <2>. QED  BY <2>1, <2>2, <2>3, <2>4 DEF TypeOK
<1>8. CASE ChannelHangup
  <2>1. inbox' \in Seq(Event)
    BY <1>8, NextEvent DEF ChannelHangup
  <2>2. row' \in Call
    BY <1>8, FinishType DEF ChannelHangup, TypeOK
  <2>3. closing' \in SUBSET Rest
    BY <1>8, RestTypes DEF ChannelHangup, TypeOK
  <2>4. UNCHANGED <<fs, ringing, talker, offers, link, talks, reaper,
                sync, hist, stats, faults>>
    BY <1>8 DEF ChannelHangup, phone, handled
  <2>. QED  BY <2>1, <2>2, <2>3, <2>4 DEF TypeOK
<1>. QED  BY <1>1, <1>2, <1>3, <1>4, <1>5, <1>6, <1>7, <1>8 DEF Handler

LEMMA TypeLater == TypeOK /\ Later => TypeOK'
<1>. SUFFICES ASSUME TypeOK, Later PROVE TypeOK'
  OBVIOUS
<1>1. ASSUME NEW a \in Agent, StartTalk(a) PROVE TypeOK'
  <2>1. talks' \in SUBSET Agent
    BY <1>1 DEF StartTalk, TypeOK
  <2>2. hist' \in [Agent -> Offer]
    BY <1>1 DEF StartTalk, TypeOK, Offer
  <2>3. UNCHANGED <<fs, ringing, talker, offers, link, inbox, closing,
                reaper, sync, row, stats, faults>>
    BY <1>1 DEF StartTalk, phone
  <2>. QED  BY <2>1, <2>2, <2>3 DEF TypeOK
<1>2. ASSUME NEW c \in closing, CloseOffers(c) PROVE TypeOK'
  <2>1. closing' \in SUBSET Rest
    BY <1>2 DEF CloseOffers, TypeOK
  <2>2. hist' \in [Agent -> Offer]
    BY <1>2 DEF CloseOffers, Missed, TypeOK, Offer
  <2>3. stats' \in [offered: Nat, answered: Nat, abandoned: Nat]
    BY <1>2 DEF CloseOffers, TypeOK
  <2>4. UNCHANGED <<fs, ringing, talker, offers, link, inbox, talks,
                reaper, sync, row, faults>>
    BY <1>2 DEF CloseOffers, phone
  <2>. QED  BY <2>1, <2>2, <2>3, <2>4 DEF TypeOK
<1>. QED  BY <1>1, <1>2 DEF Later

\* The rest of the process: the reaper, the connection, the import, a crash.
Housekeeping == Reaper \/ OfflineSweep \/ LinkLost \/ LinkUp \/ SyncRead
                \/ SyncUpsert \/ Crash

LEMMA NextCases == Next <=> Phone \/ Handler \/ Later \/ Housekeeping
BY DEF Next, Housekeeping

\* What a look at a list does to a cycle of the reaper.
LEMMA LookStep ==
  ASSUME TypeOK, reaper.failed \in 0..1,
         NEW alive, NEW next \in {"channels", "close"}, Look(alive, next)
  PROVE  reaper' \in Cycle /\ faults' \in 0..FaultBound
<1>1. faults' \in 0..FaultBound
  BY CallConstantsOK DEF Look, Fault, TypeOK, CallConstantsOK
<1>2. reaper \in Cycle
  BY DEF TypeOK
<1>3. \A s \in BOOLEAN : [reaper EXCEPT !.pc = next, !.seen = s] \in Cycle
  BY <1>2 DEF Cycle
<1>4. [reaper EXCEPT !.pc = next, !.failed = @ + 1] \in Cycle
  <2>1. reaper.failed + 1 \in 0..2
    OBVIOUS
  <2>. QED  BY <1>2, <2>1 DEF Cycle
<1>5. (reaper.seen \/ alive) \in BOOLEAN
  OBVIOUS
<1>6. reaper' \in Cycle
  BY <1>3, <1>4, <1>5 DEF Look
<1>. QED  BY <1>1, <1>6

\* One command per list: no list has been read before the first.
FailedOnce == /\ reaper.pc \in {"idle", "members"} => reaper.failed = 0 /\ ~reaper.seen
              /\ reaper.pc = "channels" => reaper.failed \in 0..1

LEMMA TypeHousekeeping == TypeOK /\ FailedOnce /\ Housekeeping => TypeOK'
<1>. SUFFICES ASSUME TypeOK, FailedOnce, Housekeeping PROVE TypeOK'
  OBVIOUS
<1>1. CASE ReaperStart
  <2>1. reaper' \in Cycle
    BY <1>1, StartType DEF ReaperStart, StillOpen
  <2>2. UNCHANGED <<fs, ringing, talker, offers, link, inbox, talks,
                closing, sync, row, hist, stats, faults>>
    BY <1>1 DEF ReaperStart, phone, reaperOnly, tables
  <2>. QED  BY <2>1, <2>2 DEF TypeOK
<1>2. CASE ReadMembers
  <2>1. PICK l \in Listings : Look(l # "no", "channels")
    BY <1>2 DEF ReadMembers
  <2>2. /\ reaper' \in Cycle
       /\ faults' \in 0..FaultBound
    BY <1>2, <2>1, LookStep DEF ReadMembers, FailedOnce
  <2>3. UNCHANGED <<fs, ringing, talker, offers, link, inbox, talks,
                closing, sync, row, hist, stats>>
    BY <1>2 DEF ReadMembers, phone, reaperOnly, tables
  <2>. QED  BY <2>2, <2>3 DEF TypeOK
<1>3. CASE ReadChannels
  <2>1. Look(fs \in {"queue", "bridged"}, "close")
    BY <1>3 DEF ReadChannels
  <2>2. /\ reaper' \in Cycle
       /\ faults' \in 0..FaultBound
    BY <1>3, <2>1, LookStep DEF ReadChannels, FailedOnce
  <2>3. UNCHANGED <<fs, ringing, talker, offers, link, inbox, talks,
                closing, sync, row, hist, stats>>
    BY <1>3 DEF ReadChannels, phone, reaperOnly, tables
  <2>. QED  BY <2>2, <2>3 DEF TypeOK
<1>4. CASE ReaperClose
  <2>1. reaper' \in Cycle
    BY <1>4 DEF ReaperClose, Idle, Cycle
  <2>2. row' \in Call
    BY <1>4, FinishType DEF ReaperClose, TypeOK
  <2>3. closing' \in SUBSET Rest
    BY <1>4, RestTypes DEF ReaperClose, TypeOK
  <2>4. UNCHANGED <<fs, ringing, talker, offers, link, inbox, talks,
                sync, hist, stats, faults>>
    BY <1>4 DEF ReaperClose, phone, reaperOnly, tables
  <2>. QED  BY <2>1, <2>2, <2>3, <2>4 DEF TypeOK
<1>5. CASE OfflineSweep
  <2>1. row' \in Call
    BY <1>5, AbandonType DEF OfflineSweep, TypeOK
  <2>2. closing' \in SUBSET Rest
    BY <1>5, RestTypes DEF OfflineSweep, TypeOK
  <2>3. UNCHANGED <<fs, ringing, talker, offers, link, inbox, talks,
                reaper, sync, hist, stats, faults>>
    BY <1>5 DEF OfflineSweep, phone, reaperOnly, tables
  <2>. QED  BY <2>1, <2>2, <2>3 DEF TypeOK
<1>6. CASE LinkLost
  <2>1. link' \in BOOLEAN
    BY <1>6 DEF LinkLost
  <2>2. faults' \in 0..FaultBound
    BY <1>6, CallConstantsOK DEF LinkLost, Fault, TypeOK, CallConstantsOK
  <2>3. UNCHANGED <<fs, ringing, talker, offers, inbox, talks, closing,
                reaper, sync, row, hist, stats>>
    BY <1>6 DEF LinkLost, phone, reaperOnly, tables
  <2>. QED  BY <2>1, <2>2, <2>3 DEF TypeOK
<1>7. CASE LinkUp
  <2>1. /\ link' \in BOOLEAN
       /\ sync' \in Import
    BY <1>7 DEF LinkUp, Rested, Import
  <2>2. UNCHANGED <<fs, ringing, talker, offers, inbox, talks, closing,
                reaper, row, hist, stats, faults>>
    BY <1>7 DEF LinkUp, phone, reaperOnly, tables
  <2>. QED  BY <2>1, <2>2 DEF TypeOK
<1>8. CASE SyncRead
  <2>1. sync' \in Import
    <3>1. \A l \in Listings : Serving(l) \subseteq Agent \cup {None}
      BY DEF Serving, Listings, TypeOK
    <3>. QED  BY <1>8, <3>1 DEF SyncRead, Listings, Import
  <2>2. UNCHANGED <<fs, ringing, talker, offers, link, inbox, talks,
                closing, reaper, row, hist, stats, faults>>
    BY <1>8 DEF SyncRead, phone, reaperOnly, tables
  <2>. QED  BY <2>1, <2>2 DEF TypeOK
<1>9. CASE SyncUpsert
  <2>1. sync' \in Import
    BY <1>9 DEF SyncUpsert, Rested, Import
  <2>2. row' \in Call
    BY <1>9 DEF SyncUpsert, Imported, Import, Call, TypeOK
  <2>3. UNCHANGED <<fs, ringing, talker, offers, link, inbox, talks,
                closing, reaper, hist, stats, faults>>
    BY <1>9 DEF SyncUpsert, phone, reaperOnly, tables
  <2>. QED  BY <2>1, <2>2, <2>3 DEF TypeOK
<1>10. CASE Crash
  <2>1. /\ link' \in BOOLEAN
       /\ talks' \in SUBSET Agent
    BY <1>10 DEF Crash
  <2>2. inbox' \in Seq(Event)
    BY <1>10 DEF Crash
  <2>3. closing' \in SUBSET Rest
    BY <1>10 DEF Crash
  <2>4. reaper' \in Cycle
    BY <1>10 DEF Crash, Idle, Cycle
  <2>5. sync' \in Import
    BY <1>10 DEF Crash, Rested, Import
  <2>6. faults' \in 0..FaultBound
    BY <1>10, CallConstantsOK DEF Crash, Fault, TypeOK, CallConstantsOK
  <2>7. UNCHANGED <<fs, ringing, talker, offers, row, hist, stats>>
    BY <1>10 DEF Crash, phone, reaperOnly, tables
  <2>. QED  BY <2>1, <2>2, <2>3, <2>4, <2>5, <2>6, <2>7 DEF TypeOK
<1>. QED  BY <1>1, <1>2, <1>3, <1>4, <1>5, <1>6, <1>7, <1>8, <1>9, <1>10 DEF Housekeeping, Reaper

----------------------------------------------------------------------------
(* Where the call has been, and what a cycle of the reaper may have missed. *)

\* Nothing is told, listed or read of a call that has not entered the queue.
Beginnings ==
  /\ ringing # {} => fs = "queue"
  /\ fs = "new" => /\ inbox = <<>> /\ row.st = "none" /\ sync.listed = "no"
                   /\ ~reaper.old
  /\ SomebodyTalks

\* A call that was open when the cycle began, and that no list has shown, was
\* missed by every list that failed.
WhatFailed ==
  reaper.old /\ ~reaper.seen =>
    /\ reaper.pc = "channels" /\ fs = "queue" => reaper.failed = 1
    /\ reaper.pc = "close" /\ fs = "queue" => reaper.failed = 2
    /\ reaper.pc = "close" /\ fs = "bridged" => reaper.failed > 0

IInv == TypeOK /\ Beginnings /\ FailedOnce /\ WhatFailed

LEMMA IInvInit == Init => IInv
<1>. SUFFICES ASSUME Init PROVE IInv
  OBVIOUS
<1>1. TypeOK
  BY TypeInit
<1>2. Beginnings
  BY DEF Init, Beginnings, SomebodyTalks, Idle, Rested
<1>3. FailedOnce /\ WhatFailed
  BY DEF Init, FailedOnce, WhatFailed, Idle
<1>. QED  BY <1>1, <1>2, <1>3 DEF IInv

LEMMA IInvPhone == IInv /\ Phone => IInv'
<1>. SUFFICES ASSUME IInv, Phone PROVE IInv'
  OBVIOUS
<1>1. TypeOK'
  BY TypePhone DEF IInv, Beginnings
<1>2. reaper' = reaper /\ row' = row /\ sync' = sync
  BY DEF Phone, Enter, Ring, RingEnds, Answer, Abandon, TalkEnds, phoneOnly, tables
<1>3. /\ fs' # "new"
      /\ fs' = "queue" => fs \in {"new", "queue"}
      /\ fs' = "bridged" => fs = "queue" /\ talker' \in Agent
      /\ ringing' # {} => fs' = "queue"
  BY DEF IInv, Beginnings, TypeOK, Phone, Enter, Ring, RingEnds, Answer, Abandon, TalkEnds
<1>4. Beginnings'
  BY <1>1, <1>2, <1>3 DEF Beginnings, SomebodyTalks, TypeOK
<1>5. FailedOnce'
  BY <1>2 DEF IInv, FailedOnce
<1>6. WhatFailed'
  BY <1>2, <1>3 DEF IInv, Beginnings, WhatFailed
<1>. QED  BY <1>1, <1>4, <1>5, <1>6 DEF IInv

\* Handlers and what they do later leave the phones and the cycle alone.
LEMMA IInvWork == IInv /\ (Handler \/ Later) => IInv'
<1>. SUFFICES ASSUME IInv, Handler \/ Later PROVE IInv'
  OBVIOUS
<1>1. TypeOK'
  BY TypeHandler, TypeLater DEF IInv
<1>2. UNCHANGED <<fs, ringing, talker, reaper, sync>>
  <2>1. CASE Handler
    BY <2>1 DEF Handler, QueueStart, AgentOffering, AgentNoAnswer, BridgeAgentStart,
      BridgeAgentEnd, MemberAbandoned, MemberQueueEnd, ChannelHangup, handled, phone
  <2>2. CASE Later
    BY <2>2 DEF Later, StartTalk, CloseOffers, phone
  <2>. QED  BY <2>1, <2>2
<1>3. fs = "new" => inbox' = <<>> /\ row' = row
  <2>1. CASE Handler
    BY <2>1 DEF IInv, Beginnings, Next1, Handler, QueueStart, AgentOffering, AgentNoAnswer,
      BridgeAgentStart, BridgeAgentEnd, MemberAbandoned, MemberQueueEnd, ChannelHangup
  <2>2. CASE Later
    BY <2>2 DEF IInv, Beginnings, Later, StartTalk, CloseOffers
  <2>. QED  BY <2>1, <2>2
<1>4. Beginnings'
  BY <1>2, <1>3 DEF IInv, Beginnings, SomebodyTalks
<1>5. FailedOnce' /\ WhatFailed'
  BY <1>2 DEF IInv, FailedOnce, WhatFailed
<1>. QED  BY <1>1, <1>4, <1>5 DEF IInv

\* The reaper's two looks, by what the list would have shown.
LEMMA LookCases ==
  ASSUME TypeOK, NEW alive, NEW next, Look(alive, next)
  PROVE  /\ reaper'.pc = next /\ reaper'.old = reaper.old
         /\ reaper.seen => reaper'.seen
         /\ \/ (alive => reaper'.seen) /\ reaper'.failed = reaper.failed
            \/ reaper'.seen = reaper.seen /\ reaper'.failed = reaper.failed + 1
BY DEF Look, TypeOK, Cycle

LEMMA IInvHousekeeping == IInv /\ Housekeeping => IInv'
<1>. SUFFICES ASSUME IInv, Housekeeping PROVE IInv'
  OBVIOUS
<1>0. TypeOK /\ TypeOK'
  BY TypeHousekeeping DEF IInv
<1>1. UNCHANGED <<fs, ringing, talker>>
  BY DEF Housekeeping, Reaper, ReaperStart, ReadMembers, ReadChannels, ReaperClose,
    OfflineSweep, LinkLost, LinkUp, SyncRead, SyncUpsert, Crash, reaperOnly, phone
<1>2. CASE ReaperStart
  <2>1. /\ reaper'.pc = "members" /\ reaper'.failed = 0 /\ ~reaper'.seen
        /\ reaper'.old = StillOpen
    BY <1>2 DEF ReaperStart, Idle
  <2>2. UNCHANGED <<inbox, row, sync>>
    BY <1>2 DEF ReaperStart, reaperOnly
  <2>. QED  BY <1>0, <1>1, <2>1, <2>2
            DEF IInv, Beginnings, SomebodyTalks, FailedOnce, WhatFailed, StillOpen
<1>3. CASE ReadMembers
  <2>1. PICK l \in Listings : (fs = "queue" => l = "queue") /\ Look(l # "no", "channels")
    BY <1>3 DEF ReadMembers
  <2>2. UNCHANGED <<inbox, row, sync>> /\ reaper.pc = "members"
    BY <1>3 DEF ReadMembers, reaperOnly
  <2>3. FailedOnce'
    BY <1>0, <2>1, <2>2, LookCases DEF IInv, FailedOnce
  <2>4. WhatFailed'
    <3>1. /\ reaper'.pc = "channels" /\ reaper'.old = reaper.old
          /\ \/ (l # "no" => reaper'.seen)
             \/ reaper'.failed = reaper.failed + 1
      BY <1>0, <2>1, LookCases
    <3>2. reaper.failed = 0
      BY <2>2 DEF IInv, FailedOnce
    <3>. QED  BY <1>1, <2>1, <3>1, <3>2 DEF WhatFailed
  <2>5. Beginnings'
    BY <1>0, <1>1, <2>1, <2>2, LookCases DEF IInv, Beginnings, SomebodyTalks
  <2>. QED  BY <1>0, <2>3, <2>4, <2>5 DEF IInv
<1>4. CASE ReadChannels
  <2>1. Look(fs \in {"queue", "bridged"}, "close")
    BY <1>4 DEF ReadChannels
  <2>2. UNCHANGED <<inbox, row, sync>> /\ reaper.pc = "channels"
    BY <1>4 DEF ReadChannels, reaperOnly
  <2>3. FailedOnce'
    BY <1>0, <2>1, LookCases DEF FailedOnce
  <2>4. WhatFailed'
    <3>1. /\ reaper'.pc = "close" /\ reaper'.old = reaper.old
          /\ reaper.seen => reaper'.seen
          /\ \/ (fs \in {"queue", "bridged"} => reaper'.seen)
             \/ reaper'.failed = reaper.failed + 1
      BY <1>0, <2>1, LookCases
    <3>2. /\ reaper.failed \in 0..1
          /\ reaper.old /\ ~reaper.seen /\ fs = "queue" => reaper.failed = 1
      BY <2>2 DEF IInv, FailedOnce, WhatFailed
    <3>. QED  BY <1>1, <3>1, <3>2 DEF WhatFailed
  <2>5. Beginnings'
    BY <1>0, <1>1, <2>1, <2>2, LookCases DEF IInv, Beginnings, SomebodyTalks
  <2>. QED  BY <1>0, <2>3, <2>4, <2>5 DEF IInv
<1>5. CASE ReaperClose
  <2>1. reaper' = Idle /\ UNCHANGED <<inbox, sync>>
    BY <1>5 DEF ReaperClose, reaperOnly
  <2>2. fs = "new" => row' = row
    BY <1>5 DEF ReaperClose, IInv, Beginnings
  <2>. QED  BY <1>0, <1>1, <2>1, <2>2
            DEF IInv, Beginnings, SomebodyTalks, FailedOnce, WhatFailed, Idle
<1>6. CASE OfflineSweep
  <2>1. UNCHANGED <<inbox, sync, reaper>>
    BY <1>6 DEF OfflineSweep, reaperOnly
  <2>2. fs = "new" => row' = row
    BY <1>6 DEF OfflineSweep, StillOpen, IInv, Beginnings
  <2>. QED  BY <1>0, <1>1, <2>1, <2>2
            DEF IInv, Beginnings, SomebodyTalks, FailedOnce, WhatFailed
<1>7. CASE LinkLost \/ LinkUp \/ SyncRead
  <2>1. UNCHANGED <<inbox, row, reaper>>
    BY <1>7 DEF LinkLost, LinkUp, SyncRead, tables
  <2>2. fs = "new" => sync'.listed = "no"
    BY <1>7 DEF LinkLost, LinkUp, Rested, SyncRead, Listings, IInv, Beginnings
  <2>. QED  BY <1>0, <1>1, <2>1, <2>2
            DEF IInv, Beginnings, SomebodyTalks, FailedOnce, WhatFailed
<1>8. CASE SyncUpsert
  <2>1. UNCHANGED <<inbox, reaper>> /\ sync'.listed = "no"
    BY <1>8 DEF SyncUpsert, Rested
  <2>2. fs = "new" => row' = row
    BY <1>8 DEF SyncUpsert, IInv, Beginnings
  <2>. QED  BY <1>0, <1>1, <2>1, <2>2
            DEF IInv, Beginnings, SomebodyTalks, FailedOnce, WhatFailed
<1>9. CASE Crash
  <2>1. reaper' = Idle /\ sync'.listed = "no" /\ inbox' = <<>> /\ row' = row
    BY <1>9 DEF Crash, Rested, tables
  <2>. QED  BY <1>0, <1>1, <2>1
            DEF IInv, Beginnings, SomebodyTalks, FailedOnce, WhatFailed, Idle
<1>. QED  BY <1>2, <1>3, <1>4, <1>5, <1>6, <1>7, <1>8, <1>9 DEF Housekeeping, Reaper

LEMMA IInvNext == IInv /\ [Next]_vars => IInv'
<1>1. IInv /\ Next => IInv'
  BY IInvPhone, IInvWork, IInvHousekeeping, NextCases
<1>2. IInv /\ UNCHANGED vars => IInv'
  BY DEF IInv, TypeOK, Beginnings, SomebodyTalks, FailedOnce, WhatFailed,
         vars, phone, process, tables
<1>. QED  BY <1>1, <1>2

LEMMA IInvHolds == Spec => []IInv
BY IInvInit, IInvNext, PTL DEF Spec

\* Every variable keeps its type.
THEOREM TypeCorrect == Spec => []TypeOK
<1>1. IInv => TypeOK
  BY DEF IInv
<1>. QED  BY <1>1, IInvHolds, PTL

\* closeGhostCallsEnhanced (eslService.js:425): the reaper closes a call that waits
\* in a queue only if it could read neither list, one that is bridged only if
\* a list failed, whatever the phones do between its two reads.  This is less than
\* the comment above it says of bridged calls, which one failed list can cost.
THEOREM ReaperBlind == Spec => ReapedWhenBlind
<1>1. IInv /\ [Next]_vars =>
        (reaper.pc = "close" /\ row.st = "open" /\ row'.st = "closed" /\ reaper' = Idle =>
           /\ fs = "queue" => reaper.failed = 2
           /\ fs = "bridged" => reaper.failed > 0)
  <2>. SUFFICES ASSUME IInv, [Next]_vars, reaper.pc = "close",
                       row.st = "open", row'.st = "closed", reaper' = Idle
                PROVE  /\ fs = "queue" => reaper.failed = 2
                       /\ fs = "bridged" => reaper.failed > 0
    OBVIOUS
  <2>1. ReaperClose
    <3>1. reaper'.pc # reaper.pc
      BY DEF Idle
    <3>2. ~Phone /\ ~Handler /\ ~Later
      BY <3>1 DEF Phone, Enter, Ring, RingEnds, Answer, Abandon, TalkEnds, phoneOnly,
        Handler, QueueStart, AgentOffering, AgentNoAnswer, BridgeAgentStart,
        BridgeAgentEnd, MemberAbandoned, MemberQueueEnd, ChannelHangup, handled,
        Later, StartTalk, CloseOffers
    <3>3. Housekeeping
      BY <3>1, <3>2, NextCases DEF vars, process
    <3>. QED  BY <3>1, <3>3 DEF Housekeeping, Reaper, ReaperStart, ReadMembers, ReadChannels,
                OfflineSweep, LinkLost, LinkUp, SyncRead, SyncUpsert, Crash, tables
  <2>2. reaper.old /\ ~reaper.seen
    BY <2>1 DEF ReaperClose, Unseen
  <2>. QED  BY <2>2 DEF IInv, WhatFailed
<1>. QED  BY <1>1, IInvHolds, PTL DEF Spec, ReapedWhenBlind

----------------------------------------------------------------------------
(* Counting.                                                               *)

\* Only a closed call has been counted or has a handler that will count it; there
\* is one such handler, it comes before the count, and its outcome is single.
CountInv ==
  /\ row.disposition = "answered" => row.answered
  /\ row.abandoned => row.st = "closed"
  /\ \A c \in closing : c.count =>
       row.st = "closed" /\ stats.offered = 0 /\ ~(c.answered /\ c.abandoned)
  /\ \A c, d \in closing : c.count /\ d.count => c = d
  /\ stats.offered > 0 => row.st = "closed"
  /\ stats.offered <= 1 /\ stats.answered + stats.abandoned <= stats.offered

\* A step that neither closes nor reopens the call and leaves the statistics
\* and the handlers alone.
LEMMA CountKept ==
  ASSUME CountInv, closing' = closing \/ closing' = {}, stats' = stats,
         row'.st = row.st \/ row.st = "none" \/ row'.st = "closed",
         row'.disposition = "answered" => row'.answered,
         row'.abandoned => row'.st = "closed"
  PROVE  CountInv'
<1>1. closing' \in SUBSET closing
  OBVIOUS
<1>2. \A c \in closing : c.count => row.st = "closed"
  BY DEF CountInv
<1>3. row.st = "closed" => row'.st = "closed"
  OBVIOUS
<1>. QED  BY <1>1, <1>2, <1>3 DEF CountInv

\* What the three finalizers that may find the call open do to its row.
LEMMA FinishRow ==
  ASSUME TypeOK, CountInv
  PROVE  /\ Finish(row).st = "closed"
         /\ Finish(row).disposition = "answered" => Finish(row).answered
         /\ ~(Finish(row).disposition = "answered" /\ StillOpen /\ Finish(row).abandoned)
BY DEF TypeOK, CountInv, Call, Finish, StillOpen

\* A finalizer closes an open call; nothing has been counted before.
LEMMA CountClosed ==
  ASSUME CountInv, TypeOK, StillOpen, NEW c \in Rest, closing' = closing \cup {c},
         stats' = stats, row'.st = "closed",
         row'.disposition = "answered" => row'.answered,
         ~(c.answered /\ c.abandoned)
  PROVE  CountInv'
<1>1. \A d \in closing : ~d.count
  BY DEF CountInv, StillOpen
<1>2. stats.offered = 0
  BY DEF CountInv, StillOpen, TypeOK
<1>. QED  BY <1>1, <1>2 DEF CountInv

LEMMA CountStep == TypeOK /\ CountInv /\ [Next]_vars => CountInv'
<1>. SUFFICES ASSUME TypeOK, CountInv, [Next]_vars PROVE CountInv'
  OBVIOUS
<1>0. /\ row.disposition = "answered" => row.answered
      /\ row.abandoned => row.st = "closed"
  BY DEF CountInv
<1>1. CASE UNCHANGED <<row, closing, stats>>
  BY <1>0, <1>1, CountKept
<1>2. CASE QueueStart
  <2>1. UNCHANGED <<closing, stats>>
    BY <1>2 DEF QueueStart, handled
  <2>2. /\ row'.disposition = "waiting" /\ row'.abandoned = row.abandoned
        /\ row'.st = IF row.st = "none" THEN "open" ELSE row.st
    BY <1>2 DEF QueueStart, TypeOK, Call
  <2>. QED  BY <1>0, <2>1, <2>2, CountKept
<1>3. CASE BridgeAgentStart
  <2>1. UNCHANGED <<closing, stats>>
    BY <1>3 DEF BridgeAgentStart, handled
  <2>2. /\ row' = row \/ row'.answered
        /\ row'.abandoned = row.abandoned /\ row'.st = row.st
    BY <1>3 DEF BridgeAgentStart, TypeOK, Call
  <2>. QED  BY <1>0, <2>1, <2>2, CountKept
<1>4. CASE MemberAbandoned /\ StillOpen
  <2> DEFINE c == [count |-> TRUE, answered |-> FALSE, abandoned |-> TRUE]
  <2>1. c \in Rest /\ ~c.answered
    BY DEF Rest
  <2>2. stats' = stats /\ closing' = closing \cup {c}
    BY <1>4 DEF MemberAbandoned, handled
  <2>3. row'.st = "closed" /\ row'.disposition = "abandoned"
    BY <1>4 DEF MemberAbandoned, TypeOK, Call
  <2>. HIDE DEF c
  <2>. QED  BY <1>4, <2>1, <2>2, <2>3, CountClosed
<1>5. CASE MemberQueueEnd /\ StillOpen
  <2> DEFINE r == Finish(row)
             c == [count |-> TRUE, answered |-> r.disposition = "answered",
                   abandoned |-> r.abandoned]
  <2>1. r \in Call
    BY FinishType DEF TypeOK
  <2>2. c \in Rest /\ ~(c.answered /\ c.abandoned)
    BY <1>5, <2>1, FinishRow DEF Rest, Call
  <2>3. stats' = stats /\ closing' = closing \cup {c} /\ row' = r
    BY <1>5 DEF MemberQueueEnd, handled
  <2>. HIDE DEF c
  <2>. QED  BY <1>5, <2>2, <2>3, FinishRow, CountClosed
<1>6. CASE (ChannelHangup \/ ReaperClose) /\ StillOpen
  <2>1. Uncounted \in Rest /\ ~Uncounted.answered
    BY DEF Uncounted, Rest
  <2>2. stats' = stats /\ (closing' = closing \/ closing' = closing \cup {Uncounted})
    BY <1>6 DEF ChannelHangup, ReaperClose, handled, reaperOnly
  <2>3. row' = row \/ row' = Finish(row)
    BY <1>6 DEF ChannelHangup, ReaperClose
  <2>4. CASE row' = row
    <3>1. closing' = closing
      BY <1>6, <2>4, FinishRow DEF ChannelHangup, ReaperClose, StillOpen
    <3>. QED  BY <1>0, <2>2, <2>4, <3>1, CountKept
  <2>5. CASE row' = Finish(row)
    <3>1. CASE closing' = closing
      <4>1. row'.abandoned => row'.st = "closed"
        BY <2>5, FinishRow
      <4>. QED  BY <2>2, <2>5, <3>1, <4>1, FinishRow, CountKept
    <3>2. CASE closing' = closing \cup {Uncounted}
      BY <1>6, <2>1, <2>2, <2>5, <3>2, FinishRow, CountClosed
    <3>. QED  BY <2>2, <3>1, <3>2
  <2>. QED  BY <2>3, <2>4, <2>5
<1>7. CASE OfflineSweep
  <2>1. Uncounted \in Rest /\ ~Uncounted.answered
    BY DEF Uncounted, Rest
  <2>2. stats' = stats /\ closing' = closing \cup {Uncounted} /\ StillOpen
    BY <1>7 DEF OfflineSweep, reaperOnly
  <2>3. row'.st = "closed" /\ row'.disposition = "abandoned"
    BY <1>7 DEF OfflineSweep, TypeOK, Call
  <2>. QED  BY <2>1, <2>2, <2>3, CountClosed
<1>8. CASE SyncUpsert
  <2>1. UNCHANGED <<closing, stats>>
    BY <1>8 DEF SyncUpsert
  <2>2. /\ row'.disposition = "answered" => row'.answered
        /\ row'.abandoned = row.abandoned
        /\ row'.st = row.st \/ row.st = "none"
    BY <1>0, <1>8 DEF SyncUpsert, Imported, Import, TypeOK, Call
  <2>. QED  BY <1>0, <2>1, <2>2, CountKept DEF TypeOK, Call
<1>9. CASE Crash
  BY <1>0, <1>9, CountKept DEF Crash, tables
<1>10. ASSUME NEW c \in closing, CloseOffers(c) PROVE CountInv'
  <2>1. c \in Rest /\ row' = row /\ closing' = closing \ {c}
    BY <1>10 DEF CloseOffers, TypeOK
  <2>2. CASE ~c.count
    BY <1>10, <2>1, <2>2 DEF CloseOffers, CountInv
  <2>3. CASE c.count
    <3>1. \A d \in closing' : ~d.count
      BY <2>1, <2>3 DEF CountInv
    <3>2. stats.offered = 0 /\ stats.answered = 0 /\ stats.abandoned = 0
      BY <2>3 DEF CountInv, TypeOK
    <3>3. /\ stats'.offered = 1
          /\ stats'.answered = IF c.answered THEN 1 ELSE 0
          /\ stats'.abandoned = IF c.abandoned THEN 1 ELSE 0
      BY <1>10, <2>3, <3>2 DEF CloseOffers
    <3>4. stats'.offered <= 1 /\ stats'.answered + stats'.abandoned <= stats'.offered
      BY <2>3, <3>3 DEF CountInv
    <3>. QED  BY <2>1, <2>3, <3>1, <3>4 DEF CountInv
  <2>. QED  BY <2>2, <2>3
<1>. QED
  <2>1. CASE UNCHANGED vars
    BY <1>1, <2>1 DEF vars, process, tables
  <2>2. CASE Phone
    BY <1>1, <2>2 DEF Phone, Enter, Ring, RingEnds, Answer, Abandon, TalkEnds,
      phoneOnly, tables
  <2>3. CASE Handler
    <3>1. CASE AgentOffering \/ AgentNoAnswer \/ BridgeAgentEnd
      BY <1>1, <3>1 DEF AgentOffering, AgentNoAnswer, BridgeAgentEnd, handled
    <3>2. CASE (MemberAbandoned \/ MemberQueueEnd \/ ChannelHangup) /\ ~StillOpen
      BY <1>1, <3>2 DEF MemberAbandoned, MemberQueueEnd, ChannelHangup, handled
    <3>. QED  BY <1>2, <1>3, <1>4, <1>5, <1>6, <2>3, <3>1, <3>2 DEF Handler
  <2>4. CASE Later
    BY <1>1, <1>10, <2>4 DEF Later, StartTalk
  <2>5. CASE Housekeeping
    <3>1. CASE ReaperStart \/ ReadMembers \/ ReadChannels
      BY <1>1, <3>1 DEF ReaperStart, ReadMembers, ReadChannels, reaperOnly
    <3>2. CASE ReaperClose /\ ~StillOpen
      BY <1>1, <3>2 DEF ReaperClose, reaperOnly
    <3>3. CASE LinkLost \/ LinkUp \/ SyncRead
      BY <1>1, <3>3 DEF LinkLost, LinkUp, SyncRead, tables
    <3>. QED  BY <1>6, <1>7, <1>8, <1>9, <2>5, <3>1, <3>2, <3>3 DEF Housekeeping, Reaper
  <2>. QED  BY <2>1, <2>2, <2>3, <2>4, <2>5, NextCases

\* The finalizers may overlap in any order, messages and connections be lost, the
\* process crash: the call enters queue_stats_hourly at most once, as answered or
\* as abandoned (eslService.js:769-966, 1037-1081).
THEOREM CountHolds == Spec => []CountedOnce
<1>1. Init => CountInv
  BY DEF Init, CountInv
<1>2. TypeOK /\ CountInv => CountedOnce
  BY DEF TypeOK, CountInv, CountedOnce
<1>. QED  BY <1>1, <1>2, CountStep, TypeCorrect, PTL DEF Spec

----------------------------------------------------------------------------
(* Missed offers.                                                          *)

\* A talk has ended the ring for good.
TalkInv == \A a \in Agent : hist[a].talk # "no" => ~hist[a].missed /\ hist[a].ring = "ended"

LEMMA TalkStep == TypeOK /\ TalkInv /\ [Next]_vars => TalkInv'
<1>. SUFFICES ASSUME TypeOK, TalkInv, [Next]_vars PROVE TalkInv'
  OBVIOUS
<1>0. hist \in [Agent -> Offer]
  BY DEF TypeOK
<1>1. CASE hist' = hist
  BY <1>1 DEF TalkInv
<1>2. CASE AgentOffering
  BY <1>0, <1>2, NextEvent DEF AgentOffering, TalkInv, Offer
<1>3. CASE AgentNoAnswer
  BY <1>0, <1>3, NextEvent DEF AgentNoAnswer, TalkInv, Offer
<1>4. CASE BridgeAgentEnd
  BY <1>0, <1>4, NextEvent DEF BridgeAgentEnd, TalkInv, Offer
<1>5. ASSUME NEW a \in Agent, StartTalk(a) PROVE TalkInv'
  BY <1>0, <1>5 DEF StartTalk, TalkInv, Offer
<1>6. ASSUME NEW c \in closing, CloseOffers(c) PROVE TalkInv'
  BY <1>0, <1>6 DEF CloseOffers, Missable, Missed, TalkInv, Offer
<1>. QED
  <2>1. CASE UNCHANGED vars
    BY <1>1, <2>1 DEF vars, tables
  <2>2. CASE Phone
    BY <1>1, <2>2 DEF Phone, Enter, Ring, RingEnds, Answer, Abandon, TalkEnds,
      phoneOnly, tables
  <2>3. CASE Handler
    <3>1. CASE QueueStart \/ BridgeAgentStart \/ MemberAbandoned \/ MemberQueueEnd
               \/ ChannelHangup
      BY <1>1, <3>1 DEF QueueStart, BridgeAgentStart, MemberAbandoned, MemberQueueEnd,
        ChannelHangup
    <3>. QED  BY <1>2, <1>3, <1>4, <2>3, <3>1 DEF Handler
  <2>4. CASE Later
    BY <1>5, <1>6, <2>4 DEF Later
  <2>5. CASE Housekeeping
    BY <1>1, <2>5 DEF Housekeeping, Reaper, ReaperStart, ReadMembers, ReadChannels,
      ReaperClose, OfflineSweep, LinkLost, LinkUp, SyncRead, SyncUpsert, Crash,
      reaperOnly, tables
  <2>. QED  BY <2>1, <2>2, <2>3, <2>4, <2>5, NextCases

\* finaliseAgentHistoryMissed, bridge-agent-start and agent-no-answer may come in
\* any order: an agent who has talked to the caller has not missed the call
\* (eslService.js:670, 821, 902).
THEOREM TalkHolds == Spec => []TalkIsNotMissed
<1>1. Init => TalkInv
  BY DEF Init, TalkInv
<1>2. TalkInv => TalkIsNotMissed
  BY DEF TalkInv, TalkIsNotMissed
<1>. QED  BY <1>1, <1>2, TalkStep, TypeCorrect, PTL DEF Spec

----------------------------------------------------------------------------
(* What the tables tell when nothing has failed.                           *)

\* The row while the caller waits, when an agent has answered, and when the
\* caller has given up.
WaitingRow == ~row.answered /\ ~row.abandoned /\ row.disposition = "waiting" /\ row.agent = None
TalkedRow  == /\ row.answered /\ ~row.abandoned /\ row.disposition = "answered"
              /\ row.agent = talker
GivenUpRow == /\ row.st = "closed" /\ row.abandoned /\ row.disposition = "abandoned"
              /\ row.agent = None

Kinds(K) == \A i \in 1..Len(inbox) : inbox[i].kind \in K

\* Where the caller is, what the events still tell and what the tables tell.
InNew == fs = "new" => inbox = <<>> /\ row.st = "none" /\ WaitingRow /\ talker = None
InQueue ==
  fs = "queue" =>
    /\ Kinds({"start", "offering", "noAnswer"}) /\ WaitingRow /\ talker = None
    /\ row.st \in {"none", "open"}
    /\ row.st = "none" <=> (inbox # <<>> /\ inbox[1].kind = "start")
    /\ \A i \in 2..Len(inbox) : inbox[i].kind # "start"
Heard == talker \in talks \/ hist[talker].talk # "no"
InTalk ==
  fs = "bridged" =>
    /\ talker \in Agent /\ row.st = "open"
    /\ \/ inbox = <<>> /\ TalkedRow /\ Heard
       \/ inbox = <<Of("bridge", talker)>> /\ WaitingRow
IsOver ==
  fs = "gone" =>
    /\ Kinds({"abandoned", "end", "hangup", "bridgeEnd"})
    /\ talker # None => /\ Kinds({"end", "hangup", "bridgeEnd"})
                        /\ TalkedRow /\ Heard /\ row.st \in {"open", "closed"}
    /\ talker = None => (row.st = "open" /\ WaitingRow) \/ GivenUpRow
    /\ row.st = "open" => \E i \in 1..Len(inbox) : inbox[i].kind \in {"end", "hangup"}
    /\ row.st = "closed" /\ closing = {} /\ (talker = None \/ stats.offered > 0)
         => \A a \in Agent \ {talker} : ~Missable(hist[a])
Ringing == fs # "queue" => ringing = {}
TalkerOnly == /\ \A a \in talks : a = talker
              /\ \A a \in Agent : hist[a].talk # "no" => a = talker
Counts == /\ row.st # "closed" => /\ closing = {} /\ stats.offered = 0
                                   /\ stats.answered = 0 /\ stats.abandoned = 0
          /\ \A c \in closing : /\ c.answered => talker # None
                                /\ c.abandoned => talker = None
          /\ stats.answered > 0 => talker # None
          /\ stats.abandoned > 0 => talker = None
Reaps == /\ reaper.pc # "idle" /\ reaper.old => row.st # "none"
         /\ reaper.pc = "close" /\ reaper.old /\ ~reaper.seen => fs = "gone"
Tale == /\ link /\ sync.pc = "idle"
        /\ InNew /\ InQueue /\ InTalk /\ IsOver
        /\ Ringing /\ TalkerOnly /\ Counts /\ Reaps
TaleInv == faults = 0 => Tale

\* An event that is handled is the first one, and the others move up.
LEMMA NextIs ==
  ASSUME TypeOK, NEW k, Next1(k)
  PROVE  /\ inbox # <<>> /\ Len(inbox) \in Nat \ {0} /\ Len(inbox') = Len(inbox) - 1
         /\ \A i \in 1..Len(inbox') : i + 1 \in 2..Len(inbox) /\ inbox'[i] = inbox[i + 1]
         /\ \A i \in 2..Len(inbox) : i - 1 \in 1..Len(inbox') /\ inbox'[i - 1] = inbox[i]
         /\ inbox[1].kind = k /\ Who = inbox[1].agent
<1>1. inbox \in Seq(Event) /\ inbox # <<>> /\ inbox' = Tail(inbox) /\ Head(inbox).kind = k
  BY DEF TypeOK, Next1
<1>2. Len(inbox) \in Nat \ {0} /\ Head(inbox) = inbox[1]
  BY <1>1
<1>3. Len(inbox') = Len(inbox) - 1
  BY <1>1, <1>2
<1>4. \A i \in 1..(Len(inbox) - 1) : Tail(inbox)[i] = inbox[i + 1]
  BY <1>1, <1>2
<1>5. \A i \in 1..Len(inbox') : i + 1 \in 2..Len(inbox) /\ inbox'[i] = inbox[i + 1]
  BY <1>1, <1>2, <1>3, <1>4
<1>6. \A i \in 2..Len(inbox) : i - 1 \in 1..Len(inbox') /\ (i - 1) + 1 = i
  BY <1>2, <1>3
<1>7. \A i \in 2..Len(inbox) : i - 1 \in 1..Len(inbox') /\ inbox'[i - 1] = inbox[i]
  BY <1>5, <1>6
<1>. QED  BY <1>1, <1>2, <1>3, <1>5, <1>7 DEF Who

LEMMA KindsNext ==
  ASSUME TypeOK, NEW k, Next1(k), NEW K, Kinds(K)
  PROVE  Kinds(K)' /\ k \in K
<1>1. 1 \in 1..Len(inbox) /\ \A i \in 2..Len(inbox) : i \in 1..Len(inbox)
  <2>1. Len(inbox) \in Nat \ {0}
    BY NextIs
  <2>. QED  BY <2>1
<1>. QED  BY <1>1, NextIs DEF Kinds

\* Events that are emitted to an empty inbox.
LEMMA EmitFirst ==
  ASSUME link, inbox = <<>>
  PROVE  /\ \A e \in Event : Emit(<<e>>) => inbox' = <<e>>
         /\ \A e, f \in Event : Emit(<<e, f>>) => inbox' = <<e, f>>
         /\ \A e, f, g \in Event : Emit(<<e, f, g>>) => inbox' = <<e, f, g>>
<1>1. \A es \in Seq(Event) : Emit(es) => inbox' = es
  BY DEF Emit
<1>2. \A e, f, g \in Event : /\ <<e>> \in Seq(Event)
                            /\ <<e, f>> \in Seq(Event)
                            /\ <<e, f, g>> \in Seq(Event)
  OBVIOUS
<1>. QED  BY <1>1, <1>2

LEMMA KindsAre ==
  /\ \A k : On(k).kind = k
  /\ \A k, a : Of(k, a).kind = k /\ Of(k, a).agent = a
BY DEF On, Of

LEMMA TalePhone ==
  ASSUME TypeOK, Tale, Phone
  PROVE  Tale'
<1>. USE DEF phoneOnly, tables
<1>0. UNCHANGED <<link, talks, closing, reaper, sync, row, hist, stats>>
  BY DEF Phone, Enter, Ring, RingEnds, Answer, Abandon, TalkEnds
<1>1. link /\ sync.pc = "idle" /\ Ringing /\ talks \in SUBSET Agent
      /\ None \notin Agent
  BY CallConstantsOK DEF Tale, TypeOK, CallConstantsOK
<1>2. CASE Enter
  <2>1. /\ fs = "new" /\ fs' = "queue" /\ UNCHANGED <<ringing, talker>>
        /\ Emit(<<On("start")>>)
    BY <1>2 DEF Enter
  <2>2. inbox = <<>> /\ row.st = "none" /\ WaitingRow /\ talker = None
    BY <2>1 DEF Tale, InNew
  <2>3. inbox' = <<On("start")>>
    BY <1>1, <2>1, <2>2, EmitFirst, EventTypes
  <2>4. Len(inbox') = 1 /\ inbox'[1].kind = "start" /\ inbox' # <<>>
    BY <2>3, KindsAre
  <2>5. InQueue'
    BY <1>0, <2>1, <2>2, <2>4 DEF InQueue, Kinds, WaitingRow
  <2>6. InNew' /\ InTalk' /\ IsOver' /\ Ringing'
    BY <2>1 DEF InNew, InTalk, IsOver, Ringing
  <2>7. TalkerOnly' /\ Counts' /\ Reaps'
    BY <1>0, <2>1 DEF Tale, TalkerOnly, Counts, Reaps
  <2>. QED  BY <1>0, <1>1, <2>5, <2>6, <2>7 DEF Tale
<1>3. ASSUME fs = "queue", fs' = "queue", UNCHANGED talker, InQueue'
      PROVE  Tale'
  <2>1. InNew' /\ InTalk' /\ IsOver' /\ Ringing'
    BY <1>3 DEF InNew, InTalk, IsOver, Ringing
  <2>2. TalkerOnly' /\ Counts' /\ Reaps'
    BY <1>0, <1>3 DEF Tale, TalkerOnly, Counts, Reaps
  <2>. QED  BY <1>0, <1>1, <1>3, <2>1, <2>2 DEF Tale
<1>4. ASSUME NEW a \in Agent, Ring(a)
      PROVE  Tale'
  <2>1. fs = "queue" /\ fs' = "queue" /\ UNCHANGED talker /\ Emit(<<Of("offering", a)>>)
    BY <1>4 DEF Ring
  <2>2. Of("offering", a) \in Event
    BY EventTypes
  <2>3. PICK e \in Event : e = Of("offering", a)
    BY <2>2
  <2>4. inbox' = Append(inbox, e) /\ inbox \in Seq(Event)
    BY <1>1, <2>1, <2>3 DEF Emit, TypeOK
  <2>5. /\ Len(inbox) \in Nat /\ Len(inbox') = Len(inbox) + 1
        /\ \A i \in 1..Len(inbox) : inbox'[i] = inbox[i]
        /\ inbox'[Len(inbox) + 1] = e /\ inbox' # <<>>
    BY <2>4
  <2>6. e.kind = "offering"
    BY <2>3, KindsAre
  <2>7. PICK n : n = Len(inbox)
    OBVIOUS
  <2>8. /\ n \in Nat /\ Len(inbox') = n + 1
        /\ \A i \in 1..(n + 1) : i \in 1..n \/ i = n + 1
        /\ \A i \in 2..(n + 1) : i \in 2..n \/ i = n + 1
        /\ n = 0 \/ 1 \in 1..n
    BY <2>5, <2>7
  <2>9. /\ Kinds({"start", "offering", "noAnswer"}) /\ WaitingRow /\ talker = None
        /\ row.st \in {"none", "open"}
        /\ row.st = "none" <=> (inbox # <<>> /\ inbox[1].kind = "start")
        /\ \A i \in 2..Len(inbox) : inbox[i].kind # "start"
    BY <2>1 DEF Tale, InQueue
  <2>10. Kinds({"start", "offering", "noAnswer"})'
    BY <2>5, <2>6, <2>7, <2>8, <2>9 DEF Kinds
  <2>11. \A i \in 2..Len(inbox') : inbox'[i].kind # "start"
    BY <2>5, <2>6, <2>7, <2>8, <2>9
  <2>12. row.st = "none" <=> inbox'[1].kind = "start"
    <3>1. CASE n = 0
      <4>1. inbox = <<>> /\ inbox'[1] = e
        BY <2>4, <2>5, <2>7, <3>1
      <4>. QED  BY <2>6, <2>9, <4>1
    <3>2. CASE 1 \in 1..n
      <4>1. inbox # <<>> /\ inbox'[1] = inbox[1]
        BY <2>4, <2>5, <2>7, <3>2
      <4>. QED  BY <2>9, <4>1
    <3>. QED  BY <2>8, <3>1, <3>2
  <2>13. InQueue'
    BY <1>0, <2>1, <2>5, <2>9, <2>10, <2>11, <2>12 DEF InQueue, WaitingRow
  <2>. QED  BY <1>3, <2>1, <2>13
<1>5. ASSUME inbox = <<>>, fs = "queue"
      PROVE  /\ row.st = "open" /\ WaitingRow /\ talker = None /\ talks = {}
             /\ closing = {} /\ stats.offered = 0 /\ stats.answered = 0 /\ stats.abandoned = 0
             /\ \A a \in Agent : hist[a].talk = "no"
             /\ ~(reaper.pc = "close" /\ reaper.old /\ ~reaper.seen)
  <2>1. row.st = "open" /\ WaitingRow /\ talker = None
    BY <1>5 DEF Tale, InQueue
  <2>. QED  BY <1>1, <1>5, <2>1 DEF Tale, TalkerOnly, Counts, Reaps
<1>6. ASSUME NEW a \in Agent, RingEnds(a)
      PROVE  Tale'
  <2>1. inbox = <<>> /\ fs = "queue" /\ fs' = "queue" /\ UNCHANGED talker
    BY <1>1, <1>6 DEF RingEnds, Person, Ringing
  <2>2. inbox' = <<>> \/ inbox' = <<Of("noAnswer", a)>>
    BY <1>1, <1>6, <2>1, EmitFirst, EventTypes DEF RingEnds
  <2>3. inbox' = <<>> \/ (Len(inbox') = 1 /\ inbox'[1].kind = "noAnswer")
    BY <2>2, KindsAre
  <2>4. inbox' = <<>> => Len(inbox') = 0
    OBVIOUS
  <2>5. \A i : (i \in 1..0 => FALSE) /\ (i \in 1..1 => i = 1) /\ (i \in 2..1 => FALSE)
               /\ (i \in 2..0 => FALSE)
    OBVIOUS
  <2>6. row.st = "open" /\ WaitingRow /\ talker = None
    BY <1>5, <2>1
  <2>7. InQueue'
    BY <1>0, <2>1, <2>3, <2>4, <2>5, <2>6 DEF InQueue, Kinds, WaitingRow
  <2>. QED  BY <1>3, <2>1, <2>7
<1>7. ASSUME NEW a \in Agent, Answer(a)
      PROVE  Tale'
  <2>1. /\ inbox = <<>> /\ fs = "queue" /\ fs' = "bridged" /\ talker' = a /\ ringing' = {}
        /\ Emit(<<Of("bridge", a)>>)
    BY <1>1, <1>7 DEF Answer, Person, Ringing
  <2>2. inbox' = <<Of("bridge", a)>>
    BY <1>1, <2>1, EmitFirst, EventTypes
  <2>3. InTalk'
    BY <1>0, <1>5, <2>1, <2>2 DEF InTalk, WaitingRow
  <2>4. InNew' /\ InQueue' /\ IsOver' /\ Ringing'
    BY <2>1 DEF InNew, InQueue, IsOver, Ringing
  <2>5. TalkerOnly' /\ Counts' /\ Reaps'
    BY <1>0, <1>5, <2>1 DEF Tale, TalkerOnly, Counts, Reaps
  <2>. QED  BY <1>0, <1>1, <2>3, <2>4, <2>5 DEF Tale
<1>8. CASE Abandon
  <2>1. /\ inbox = <<>> /\ fs = "queue" /\ fs' = "gone" /\ UNCHANGED talker /\ ringing' = {}
        /\ \/ Emit(<<On("end"), On("hangup")>>)
           \/ Emit(<<On("hangup"), On("end")>>)
           \/ Emit(<<On("abandoned"), On("end"), On("hangup")>>)
    BY <1>8 DEF Abandon, Person
  <2>2. \/ inbox' = <<On("end"), On("hangup")>>
        \/ inbox' = <<On("hangup"), On("end")>>
        \/ inbox' = <<On("abandoned"), On("end"), On("hangup")>>
    BY <1>1, <2>1, EmitFirst, EventTypes
  <2>3. /\ \A i \in 1..Len(inbox') : inbox'[i].kind \in {"abandoned", "end", "hangup"}
        /\ \E i \in 1..Len(inbox') : inbox'[i].kind \in {"end", "hangup"}
    BY <2>2, KindsAre
  <2>4. IsOver'
    BY <1>0, <1>5, <2>1, <2>3 DEF IsOver, Kinds, WaitingRow
  <2>5. InNew' /\ InQueue' /\ InTalk' /\ Ringing'
    BY <2>1 DEF InNew, InQueue, InTalk, Ringing
  <2>6. TalkerOnly' /\ Counts' /\ Reaps'
    BY <1>0, <2>1 DEF Tale, TalkerOnly, Counts, Reaps
  <2>. QED  BY <1>0, <1>1, <2>4, <2>5, <2>6 DEF Tale
<1>9. CASE TalkEnds
  <2>1. /\ inbox = <<>> /\ fs = "bridged" /\ fs' = "gone" /\ UNCHANGED <<talker, ringing>>
        /\ \/ Emit(<<Of("bridgeEnd", talker), On("end"), On("hangup")>>)
           \/ Emit(<<Of("bridgeEnd", talker), On("hangup"), On("end")>>)
    BY <1>9 DEF TalkEnds, Person
  <2>2. talker \in Agent /\ row.st = "open" /\ TalkedRow /\ Heard
    BY <2>1 DEF Tale, InTalk
  <2>3. \/ inbox' = <<Of("bridgeEnd", talker), On("end"), On("hangup")>>
        \/ inbox' = <<Of("bridgeEnd", talker), On("hangup"), On("end")>>
    BY <1>1, <2>1, <2>2, EmitFirst, EventTypes
  <2>4. /\ \A i \in 1..Len(inbox') : inbox'[i].kind \in {"end", "hangup", "bridgeEnd"}
        /\ \E i \in 1..Len(inbox') : inbox'[i].kind \in {"end", "hangup"}
    BY <2>3, KindsAre
  <2>5. IsOver'
    BY <1>0, <1>1, <2>1, <2>2, <2>4 DEF IsOver, Kinds, TalkedRow, Heard
  <2>6. InNew' /\ InQueue' /\ InTalk' /\ Ringing'
    BY <1>1, <2>1 DEF InNew, InQueue, InTalk, Ringing
  <2>7. TalkerOnly' /\ Counts' /\ Reaps'
    BY <1>0, <2>1 DEF Tale, TalkerOnly, Counts, Reaps
  <2>. QED  BY <1>0, <1>1, <2>5, <2>6, <2>7 DEF Tale
<1>. QED  BY <1>2, <1>4, <1>6, <1>7, <1>8, <1>9 DEF Phone

\* Which events there are to handle while the caller is where.
LEMMA HandledWhen ==
  ASSUME TypeOK, Tale, NEW k, Next1(k)
  PROVE  \/ /\ fs = "queue" /\ k \in {"start", "offering", "noAnswer"}
            /\ WaitingRow /\ talker = None
            /\ row.st \in {"none", "open"}
            /\ row.st = "none" <=> k = "start"
            /\ Kinds({"start", "offering", "noAnswer"})'
            /\ \A i \in 1..Len(inbox') : inbox'[i].kind # "start"
         \/ /\ fs = "bridged" /\ k = "bridge" /\ Who = talker /\ talker \in Agent
            /\ inbox' = <<>> /\ row.st = "open" /\ WaitingRow
         \/ /\ fs = "gone" /\ k \in {"abandoned", "end", "hangup", "bridgeEnd"}
            /\ Kinds({"abandoned", "end", "hangup", "bridgeEnd"})'
            /\ talker # None => k # "abandoned" /\ Kinds({"end", "hangup", "bridgeEnd"})'
<1>1. /\ inbox # <<>> /\ inbox[1].kind = k /\ Who = inbox[1].agent
      /\ \A i \in 1..Len(inbox') : i + 1 \in 2..Len(inbox) /\ inbox'[i] = inbox[i + 1]
  BY NextIs
<1>2. fs \in {"queue", "bridged", "gone"}
  BY <1>1 DEF TypeOK, Tale, InNew
<1>3. CASE fs = "queue"
  <2>1. /\ Kinds({"start", "offering", "noAnswer"}) /\ WaitingRow /\ talker = None
        /\ row.st \in {"none", "open"}
        /\ row.st = "none" <=> (inbox # <<>> /\ inbox[1].kind = "start")
        /\ \A i \in 2..Len(inbox) : inbox[i].kind # "start"
    BY <1>3 DEF Tale, InQueue
  <2>2. Kinds({"start", "offering", "noAnswer"})' /\ k \in {"start", "offering", "noAnswer"}
    BY <2>1, KindsNext
  <2>3. \A i \in 1..Len(inbox') : inbox'[i].kind # "start"
    BY <1>1, <2>1
  <2>. QED  BY <1>1, <1>3, <2>1, <2>2, <2>3
<1>4. CASE fs = "bridged"
  <2>1. talker \in Agent /\ row.st = "open" /\ inbox = <<Of("bridge", talker)>> /\ WaitingRow
    BY <1>1, <1>4 DEF Tale, InTalk
  <2>2. Of("bridge", talker) \in Event
    BY <2>1, EventTypes
  <2>3. inbox[1] = Of("bridge", talker)
    BY <2>1
  <2>4. Tail(<<Of("bridge", talker)>>) = <<>>
    BY <2>2
  <2>. QED  BY <1>1, <1>4, <2>1, <2>3, <2>4, KindsAre DEF Next1
<1>5. CASE fs = "gone"
  <2>1. /\ Kinds({"abandoned", "end", "hangup", "bridgeEnd"})
        /\ talker # None => Kinds({"end", "hangup", "bridgeEnd"})
    BY <1>5 DEF Tale, IsOver
  <2>2. /\ Kinds({"abandoned", "end", "hangup", "bridgeEnd"})'
        /\ k \in {"abandoned", "end", "hangup", "bridgeEnd"}
    BY <2>1, KindsNext
  <2>3. ASSUME talker # None PROVE Kinds({"end", "hangup", "bridgeEnd"})' /\ k # "abandoned"
    BY <2>1, <2>3, KindsNext
  <2>. QED  BY <1>5, <2>2, <2>3
<1>. QED  BY <1>2, <1>3, <1>4, <1>5

LEMMA TaleHandler ==
  ASSUME TypeOK, Tale, Handler
  PROVE  Tale'
<1>0. UNCHANGED <<fs, ringing, talker, offers, link, reaper, sync, stats>>
  BY DEF Handler, QueueStart, AgentOffering, AgentNoAnswer, BridgeAgentStart,
    BridgeAgentEnd, MemberAbandoned, MemberQueueEnd, ChannelHangup, handled, phone
<1>1. /\ link /\ sync.pc = "idle" /\ Ringing /\ Ringing'
      /\ hist \in [Agent -> Offer] /\ row \in Call
  BY <1>0 DEF Tale, Ringing, TypeOK
\* The caller waits.
<1>2. ASSUME NEW k \in {"start", "offering", "noAnswer"}, Next1(k),
             UNCHANGED <<talks, closing>>,
             \A a \in Agent : hist'[a].talk = hist[a].talk,
             row'.st = "open", WaitingRow'
      PROVE  Tale'
  <2>1. /\ fs = "queue" /\ talker = None /\ row.st \in {"none", "open"}
        /\ Kinds({"start", "offering", "noAnswer"})'
        /\ \A i \in 1..Len(inbox') : inbox'[i].kind # "start"
    BY <1>2, HandledWhen
  <2>2. inbox' \in Seq(Event)
    BY <1>2, NextEvent
  <2>3. /\ inbox' # <<>> => inbox'[1].kind # "start"
        /\ \A i \in 2..Len(inbox') : inbox'[i].kind # "start"
    <3>1. Len(inbox') \in Nat /\ (inbox' # <<>> => Len(inbox') # 0)
      BY <2>2
    <3>. QED  BY <2>1, <3>1
  <2>4. InQueue'
    BY <1>0, <1>2, <2>1, <2>3 DEF InQueue
  <2>5. InNew' /\ InTalk' /\ IsOver'
    BY <1>0, <2>1 DEF InNew, InTalk, IsOver
  <2>6. TalkerOnly'
    BY <1>0, <1>2 DEF Tale, TalkerOnly
  <2>7. Counts'
    BY <1>0, <1>2, <2>1 DEF Tale, Counts
  <2>8. Reaps'
    BY <1>0, <1>2 DEF Tale, Reaps
  <2>. QED  BY <1>0, <1>1, <2>4, <2>5, <2>6, <2>7, <2>8 DEF Tale
<1>3. CASE QueueStart
  <2>1. /\ Next1("start") /\ UNCHANGED <<hist, talks, closing>>
        /\ row' = [row EXCEPT !.st = IF @ = "none" THEN "open" ELSE @,
                              !.disposition = "waiting"]
    BY <1>3 DEF QueueStart
  <2>2. WaitingRow /\ row.st = "none"
    BY <2>1, HandledWhen
  <2>3. row'.st = "open" /\ WaitingRow'
    BY <1>1, <2>1, <2>2 DEF WaitingRow, Call
  <2>. QED  BY <1>2, <2>1, <2>3
<1>4. CASE AgentOffering
  <2>1. /\ Next1("offering") /\ UNCHANGED <<row, talks, closing>>
        /\ hist' = [hist EXCEPT ![Who] =
                      IF @.talk = "no" /\ (@.ring = "none" \/ @.missed)
                      THEN [@ EXCEPT !.ring = "ringing", !.missed = FALSE] ELSE @]
    BY <1>4 DEF AgentOffering
  <2>2. WaitingRow /\ row.st = "open"
    BY <2>1, HandledWhen
  <2>3. \A a \in Agent : hist'[a].talk = hist[a].talk
    BY <1>1, <2>1, NextEvent DEF Offer
  <2>4. row'.st = "open" /\ WaitingRow'
    BY <2>1, <2>2 DEF WaitingRow
  <2>. QED  BY <1>2, <2>1, <2>3, <2>4
<1>5. CASE AgentNoAnswer
  <2>1. /\ Next1("noAnswer") /\ UNCHANGED <<row, talks, closing>>
        /\ hist' = [hist EXCEPT ![Who] =
                      IF @.ring = "ringing" /\ ~@.missed
                      THEN [@ EXCEPT !.ring = "ended", !.missed = TRUE] ELSE @]
    BY <1>5 DEF AgentNoAnswer
  <2>2. WaitingRow /\ row.st = "open"
    BY <2>1, HandledWhen
  <2>3. \A a \in Agent : hist'[a].talk = hist[a].talk
    BY <1>1, <2>1, NextEvent DEF Offer
  <2>4. row'.st = "open" /\ WaitingRow'
    BY <2>1, <2>2 DEF WaitingRow
  <2>. QED  BY <1>2, <2>1, <2>3, <2>4
\* The caller talks.
<1>6. CASE BridgeAgentStart
  <2>1. /\ Next1("bridge") /\ UNCHANGED <<hist, closing>>
        /\ row' = IF row.st = "none" THEN row
                  ELSE [row EXCEPT !.agent = Who, !.answered = TRUE,
                                   !.disposition = "answered"]
        /\ talks' = talks \cup {Who}
    BY <1>6 DEF BridgeAgentStart
  <2>2. /\ fs = "bridged" /\ Who = talker /\ talker \in Agent
        /\ inbox' = <<>> /\ row.st = "open" /\ WaitingRow
    BY <2>1, HandledWhen
  <2>3. row'.st = "open" /\ TalkedRow'
    BY <1>0, <1>1, <2>1, <2>2 DEF WaitingRow, TalkedRow, Call
  <2>4. Heard'
    BY <1>0, <2>1, <2>2 DEF Heard
  <2>5. InTalk'
    BY <1>0, <2>2, <2>3, <2>4 DEF InTalk
  <2>6. InNew' /\ InQueue' /\ IsOver'
    BY <1>0, <2>2 DEF InNew, InQueue, IsOver
  <2>7. TalkerOnly'
    BY <1>0, <2>1, <2>2 DEF Tale, TalkerOnly
  <2>8. Counts'
    BY <1>0, <2>1, <2>2, <2>3 DEF Tale, Counts
  <2>9. Reaps'
    BY <1>0, <2>3 DEF Tale, Reaps
  <2>. QED  BY <1>0, <1>1, <2>5, <2>6, <2>7, <2>8, <2>9 DEF Tale
\* The call is over.
<1>7. ASSUME NEW k \in {"abandoned", "end", "hangup", "bridgeEnd"}, Next1(k),
             UNCHANGED talks,
             \A a \in Agent : /\ hist'[a].talk = "no" <=> hist[a].talk = "no"
                              /\ Missable(hist'[a]) <=> Missable(hist[a]),
             \/ UNCHANGED <<row, closing>> /\ (row.st = "open" => k = "bridgeEnd")
             \/ /\ row'.st = "closed" /\ row.st = "open" /\ closing' # {}
                /\ talker # None => TalkedRow'
                /\ talker = None => GivenUpRow'
                /\ \A c \in closing' : c \in closing
                      \/ ((c.answered => talker # None) /\ (c.abandoned => talker = None))
      PROVE  Tale'
  <2>1. /\ fs = "gone" /\ Kinds({"abandoned", "end", "hangup", "bridgeEnd"})'
        /\ talker # None => Kinds({"end", "hangup", "bridgeEnd"})'
    BY <1>7, HandledWhen
  <2>2. /\ talker # None => TalkedRow /\ Heard /\ row.st \in {"open", "closed"}
        /\ talker = None => (row.st = "open" /\ WaitingRow) \/ GivenUpRow
        /\ row.st = "open" => \E i \in 1..Len(inbox) : inbox[i].kind \in {"end", "hangup"}
        /\ row.st = "closed" /\ closing = {} /\ (talker = None \/ stats.offered > 0)
             => \A a \in Agent \ {talker} : ~Missable(hist[a])
    BY <2>1 DEF Tale, IsOver
  <2>3. talker \in Agent \cup {None} /\ None \notin Agent
    BY CallConstantsOK DEF TypeOK, CallConstantsOK
  <2>4. talker # None => Heard'
    BY <1>0, <1>7, <2>2, <2>3 DEF Heard
  <2>5. row'.st = "open" => \E i \in 1..Len(inbox') : inbox'[i].kind \in {"end", "hangup"}
    <3>1. SUFFICES ASSUME row'.st = "open"
                   PROVE  \E i \in 1..Len(inbox') : inbox'[i].kind \in {"end", "hangup"}
      OBVIOUS
    <3>2. row.st = "open" /\ k = "bridgeEnd"
      BY <1>7, <3>1
    <3>3. PICK i \in 1..Len(inbox) : inbox[i].kind \in {"end", "hangup"}
      BY <2>2, <3>2
    <3>4. /\ Len(inbox) \in Nat \ {0} /\ inbox[1].kind = k
          /\ \A j \in 2..Len(inbox) : j - 1 \in 1..Len(inbox') /\ inbox'[j - 1] = inbox[j]
      BY <1>7, NextIs
    <3>5. i # 1
      BY <3>2, <3>3, <3>4
    <3>6. i \in 2..Len(inbox)
      BY <3>3, <3>4, <3>5
    <3>. QED  BY <3>3, <3>4, <3>6
  <2>6. row'.st = "closed" /\ closing' = {} /\ (talker = None \/ stats.offered > 0)
          => \A a \in Agent \ {talker} : ~Missable(hist'[a])
    BY <1>7, <2>2
  <2>7. talker # None => TalkedRow' /\ row'.st \in {"open", "closed"}
    BY <1>0, <1>7, <2>2 DEF TalkedRow
  <2>8. talker = None => (row'.st = "open" /\ WaitingRow') \/ GivenUpRow'
    BY <1>7, <2>2 DEF WaitingRow, GivenUpRow
  <2>9. IsOver'
    BY <1>0, <2>1, <2>4, <2>5, <2>6, <2>7, <2>8 DEF IsOver
  <2>10. InNew' /\ InQueue' /\ InTalk'
    BY <1>0, <2>1 DEF InNew, InQueue, InTalk
  <2>11. TalkerOnly'
    BY <1>0, <1>7 DEF Tale, TalkerOnly
  <2>12. Counts'
    <3>1. CASE UNCHANGED <<row, closing>>
      BY <1>0, <3>1 DEF Tale, Counts
    <3>2. CASE row'.st = "closed"
      <4>1. \A c \in closing' : (c.answered => talker # None) /\ (c.abandoned => talker = None)
        BY <1>7 DEF Tale, Counts
      <4>. QED  BY <1>0, <3>2, <4>1 DEF Tale, Counts
    <3>. QED  BY <1>7, <3>1, <3>2
  <2>13. Reaps'
    <3>1. row'.st = "none" => row.st = "none"
      BY <1>7
    <3>. QED  BY <1>0, <3>1 DEF Tale, Reaps
  <2>. QED  BY <1>0, <1>1, <2>9, <2>10, <2>11, <2>12, <2>13 DEF Tale
<1>8. CASE BridgeAgentEnd
  <2>1. /\ Next1("bridgeEnd") /\ UNCHANGED <<row, talks, closing>>
        /\ hist' = [hist EXCEPT ![Who].talk = IF ~hist[Who].missed /\ @ = "yes"
                                              THEN "over" ELSE @]
    BY <1>8 DEF BridgeAgentEnd
  <2>2. \A a \in Agent : /\ hist'[a].talk = "no" <=> hist[a].talk = "no"
                         /\ Missable(hist'[a]) <=> Missable(hist[a])
    BY <1>1, <2>1, NextEvent DEF Offer, Missable
  <2>. QED  BY <1>7, <2>1, <2>2
<1>9. ASSUME fs = "gone", row.st = "open", row' = Finish(row)
      PROVE  /\ row'.st = "closed"
             /\ talker # None => TalkedRow' /\ ~row'.abandoned
             /\ talker = None => GivenUpRow' /\ row'.disposition # "answered"
  <2>1. (talker # None => TalkedRow) /\ (talker = None => WaitingRow)
    BY <1>9 DEF Tale, IsOver, GivenUpRow
  <2>. QED  BY <1>0, <1>1, <1>9, <2>1 DEF Finish, TalkedRow, WaitingRow, GivenUpRow, Call
<1>10. CASE MemberAbandoned
  <2>1. Next1("abandoned") /\ UNCHANGED <<hist, talks>>
    BY <1>10 DEF MemberAbandoned
  <2>2. fs = "gone" /\ talker = None
    BY <2>1, HandledWhen
  <2>3. CASE ~StillOpen
    <3>1. UNCHANGED <<row, closing>> /\ row.st # "open"
      BY <1>10, <2>3 DEF MemberAbandoned, StillOpen
    <3>. QED  BY <1>7, <2>1, <3>1
  <2>4. CASE StillOpen
    <3>1. /\ row' = [row EXCEPT !.st = "closed", !.abandoned = TRUE,
                                !.disposition = "abandoned"]
          /\ closing' = closing \cup
               {[count |-> TRUE, answered |-> FALSE, abandoned |-> TRUE]}
          /\ row.st = "open"
      BY <1>10, <2>4 DEF MemberAbandoned, StillOpen
    <3>2. WaitingRow
      BY <2>2, <3>1 DEF Tale, IsOver, GivenUpRow
    <3>3. GivenUpRow' /\ row'.st = "closed"
      BY <1>1, <3>1, <3>2 DEF WaitingRow, GivenUpRow, Call
    <3>4. /\ closing' # {}
          /\ \A c \in closing' : c \in closing
                \/ ((c.answered => talker # None) /\ (c.abandoned => talker = None))
      <4>1. PICK x : x = [count |-> TRUE, answered |-> FALSE, abandoned |-> TRUE]
        OBVIOUS
      <4>2. closing' = closing \cup {x} /\ ~x.answered
        BY <3>1, <4>1
      <4>. QED  BY <2>2, <4>2
    <3>. QED  BY <1>7, <2>1, <2>2, <3>1, <3>3, <3>4
  <2>. QED  BY <2>3, <2>4
<1>11. CASE MemberQueueEnd
  <2>1. Next1("end") /\ UNCHANGED <<hist, talks>>
    BY <1>11 DEF MemberQueueEnd
  <2>2. fs = "gone"
    BY <2>1, HandledWhen
  <2>3. CASE ~StillOpen
    <3>1. UNCHANGED <<row, closing>> /\ row.st # "open"
      BY <1>11, <2>3 DEF MemberQueueEnd, StillOpen
    <3>. QED  BY <1>7, <2>1, <3>1
  <2>4. CASE StillOpen
    <3>1. /\ row' = Finish(row) /\ row.st = "open"
          /\ closing' = closing \cup
               {[count |-> TRUE, answered |-> row'.disposition = "answered",
                 abandoned |-> row'.abandoned]}
      BY <1>11, <2>4 DEF MemberQueueEnd, StillOpen
    <3>2. /\ row'.st = "closed"
          /\ talker # None => TalkedRow' /\ ~row'.abandoned
          /\ talker = None => GivenUpRow' /\ row'.disposition # "answered"
      BY <1>9, <2>2, <3>1
    <3>3. /\ closing' # {}
          /\ \A c \in closing' : c \in closing
                \/ ((c.answered => talker # None) /\ (c.abandoned => talker = None))
      <4>1. PICK x : x = [count |-> TRUE, answered |-> row'.disposition = "answered",
                          abandoned |-> row'.abandoned]
        OBVIOUS
      <4>2. /\ closing' = closing \cup {x}
            /\ x.answered => talker # None
            /\ x.abandoned => talker = None
        BY <3>1, <3>2, <4>1
      <4>. QED  BY <4>2
    <3>. QED  BY <1>7, <2>1, <3>1, <3>2, <3>3
  <2>. QED  BY <2>3, <2>4
<1>12. CASE ChannelHangup
  <2>1. Next1("hangup") /\ UNCHANGED <<hist, talks>>
    BY <1>12 DEF ChannelHangup
  <2>2. fs = "gone"
    BY <2>1, HandledWhen
  <2>3. CASE ~StillOpen
    <3>1. UNCHANGED <<row, closing>> /\ row.st # "open"
      BY <1>12, <2>3 DEF ChannelHangup, StillOpen
    <3>. QED  BY <1>7, <2>1, <3>1
  <2>4. CASE StillOpen
    <3>1. row' = Finish(row) /\ row.st = "open" /\ closing' = closing \cup {Uncounted}
      BY <1>12, <2>4 DEF ChannelHangup, StillOpen
    <3>2. /\ row'.st = "closed"
          /\ talker # None => TalkedRow' /\ ~row'.abandoned
          /\ talker = None => GivenUpRow' /\ row'.disposition # "answered"
      BY <1>9, <2>2, <3>1
    <3>3. /\ closing' # {}
          /\ \A c \in closing' : c \in closing
                \/ ((c.answered => talker # None) /\ (c.abandoned => talker = None))
      <4>1. ~Uncounted.answered /\ ~Uncounted.abandoned
        BY DEF Uncounted
      <4>. QED  BY <3>1, <4>1
    <3>. QED  BY <1>7, <2>1, <3>1, <3>2, <3>3
  <2>. QED  BY <2>3, <2>4
<1>. QED  BY <1>3, <1>4, <1>5, <1>6, <1>8, <1>10, <1>11, <1>12 DEF Handler

LEMMA TaleLater ==
  ASSUME TypeOK, Tale, Later
  PROVE  Tale'
<1>0. UNCHANGED <<fs, ringing, talker, offers, link, inbox, reaper, sync, row>>
  BY DEF Later, StartTalk, CloseOffers, phone
<1>1. /\ link /\ sync.pc = "idle" /\ hist \in [Agent -> Offer] /\ row \in Call
      /\ talks \in SUBSET Agent /\ closing \in SUBSET Rest
      /\ stats \in [offered: Nat, answered: Nat, abandoned: Nat]
      /\ talker \in Agent \cup {None} /\ None \notin Agent
      /\ fs \in {"new", "queue", "bridged", "gone"}
  BY CallConstantsOK DEF Tale, TypeOK, CallConstantsOK
<1>2. Ringing' /\ Reaps'
  BY <1>0 DEF Tale, Ringing, Reaps
<1>3. ASSUME NEW a \in Agent, StartTalk(a)
      PROVE  Tale'
  <2>1. /\ a \in talks /\ talks' = talks \ {a} /\ UNCHANGED <<closing, stats>>
        /\ hist' = [hist EXCEPT ![a] =
                      IF @.talk = "no"
                      THEN [ring |-> "ended", missed |-> FALSE, talk |-> "yes"] ELSE @]
    BY <1>3 DEF StartTalk
  <2>2. a = talker
    BY <2>1 DEF Tale, TalkerOnly
  <2>3. hist'[a].talk # "no" /\ \A b \in Agent \ {a} : hist'[b] = hist[b]
    BY <1>1, <2>1
  <2>4. Heard' /\ talker # None
    BY <1>0, <1>1, <2>2, <2>3 DEF Heard
  <2>5. fs \notin {"new", "queue"}
    BY <2>4 DEF Tale, InNew, InQueue
  <2>6. InNew' /\ InQueue'
    BY <1>0, <2>5 DEF InNew, InQueue
  <2>7. InTalk'
    BY <1>0, <2>4 DEF Tale, InTalk, TalkedRow, WaitingRow
  <2>8. \A b \in Agent \ {talker} : Missable(hist'[b]) <=> Missable(hist[b])
    BY <2>2, <2>3
  <2>9. IsOver'
    BY <1>0, <2>1, <2>4, <2>8 DEF Tale, IsOver, Kinds, TalkedRow, WaitingRow, GivenUpRow
  <2>10. TalkerOnly'
    BY <1>0, <2>1, <2>2, <2>3 DEF Tale, TalkerOnly
  <2>11. Counts'
    BY <1>0, <2>1 DEF Tale, Counts
  <2>. QED  BY <1>0, <1>1, <1>2, <2>6, <2>7, <2>9, <2>10, <2>11 DEF Tale
<1>4. ASSUME NEW c \in closing, CloseOffers(c)
      PROVE  Tale'
  <2>1. /\ closing' = closing \ {c} /\ UNCHANGED talks
        /\ hist' = [a \in Agent |-> IF Missable(hist[a]) THEN Missed(hist[a]) ELSE hist[a]]
        /\ stats' = IF c.count
              THEN [offered   |-> stats.offered + 1,
                    answered  |-> stats.answered + (IF c.answered THEN 1 ELSE 0),
                    abandoned |-> stats.abandoned + (IF c.abandoned THEN 1 ELSE 0)]
              ELSE stats
    BY <1>4 DEF CloseOffers
  <2>2. row.st = "closed" /\ fs = "gone"
    BY <1>1 DEF Tale, Counts, InNew, InQueue, InTalk
  <2>3. \A a \in Agent : hist'[a].talk = hist[a].talk /\ ~Missable(hist'[a])
    <3>1. \A h \in Offer : Missed(h).talk = h.talk /\ ~Missable(Missed(h))
      BY DEF Offer, Missed, Missable
    <3>. QED  BY <1>1, <2>1, <3>1
  <2>4. talker # None => (Heard <=> Heard')
    BY <1>0, <1>1, <2>1, <2>3 DEF Heard
  <2>5. IsOver'
    BY <1>0, <2>2, <2>3, <2>4 DEF Tale, IsOver, Kinds, TalkedRow, WaitingRow, GivenUpRow
  <2>6. InNew' /\ InQueue' /\ InTalk'
    BY <1>0, <2>2 DEF InNew, InQueue, InTalk
  <2>7. TalkerOnly'
    BY <1>0, <2>1, <2>3 DEF Tale, TalkerOnly
  <2>8. /\ (c.answered => talker # None) /\ (c.abandoned => talker = None)
        /\ (stats.answered > 0 => talker # None) /\ (stats.abandoned > 0 => talker = None)
        /\ \A d \in closing : (d.answered => talker # None) /\ (d.abandoned => talker = None)
    BY DEF Tale, Counts
  <2>9. stats'.answered > 0 => stats.answered > 0 \/ c.answered
    BY <1>1, <2>1
  <2>10. stats'.abandoned > 0 => stats.abandoned > 0 \/ c.abandoned
    BY <1>1, <2>1
  <2>11. Counts'
    BY <1>0, <2>1, <2>2, <2>8, <2>9, <2>10 DEF Counts
  <2>. QED  BY <1>0, <1>1, <1>2, <2>5, <2>6, <2>7, <2>11 DEF Tale
<1>. QED  BY <1>3, <1>4 DEF Later

\* The reaper closes only a call that is over, and no connection is lost.
LEMMA TaleAround ==
  ASSUME TypeOK, Tale, Housekeeping, faults = 0, faults' = 0
  PROVE  Tale'
<1>1. ~Fault
  BY DEF Fault
<1>2. link /\ sync.pc = "idle"
  BY DEF Tale
<1>3. ~OfflineSweep /\ ~LinkLost /\ ~LinkUp /\ ~SyncRead /\ ~SyncUpsert /\ ~Crash
  BY <1>1, <1>2 DEF OfflineSweep, LinkLost, LinkUp, SyncRead, SyncUpsert, Crash
<1>4. ASSUME UNCHANGED <<reaperOnly, closing, row>>, Reaps'
      PROVE  Tale'
  <2>1. UNCHANGED <<fs, ringing, talker, link, inbox, talks, sync, hist, stats, closing, row>>
    BY <1>4 DEF reaperOnly, phone
  <2>2. InNew' /\ InQueue' /\ InTalk'
    BY <2>1 DEF Tale, InNew, InQueue, InTalk, Kinds, WaitingRow, TalkedRow, Heard
  <2>3. IsOver'
    BY <2>1 DEF Tale, IsOver, Kinds, WaitingRow, TalkedRow, GivenUpRow, Heard
  <2>4. Ringing' /\ TalkerOnly' /\ Counts'
    BY <2>1 DEF Tale, Ringing, TalkerOnly, Counts
  <2>. QED  BY <1>2, <1>4, <2>1, <2>2, <2>3, <2>4 DEF Tale
<1>5. reaper \in Cycle /\ Reaps
  BY DEF TypeOK, Tale
<1>6. CASE ReaperStart
  <2>1. /\ UNCHANGED <<reaperOnly, closing, row>>
        /\ reaper' = [Idle EXCEPT !.pc = "members", !.old = StillOpen]
    BY <1>6 DEF ReaperStart
  <2>2. reaper'.pc = "members" /\ reaper'.old = StillOpen
    BY <2>1 DEF Idle
  <2>3. reaper'.old => row.st = "open"
    BY <2>2 DEF StillOpen
  <2>4. Reaps'
    BY <2>1, <2>2, <2>3 DEF Reaps
  <2>. QED  BY <1>4, <2>1, <2>4
<1>7. ASSUME NEW alive, NEW next \in {"channels", "close"}, Look(alive, next)
      PROVE  /\ reaper'.pc = next /\ reaper'.old = reaper.old
             /\ alive => reaper'.seen
  <2>1. reaper' = [reaper EXCEPT !.pc = next, !.seen = @ \/ alive]
    BY <1>1, <1>2, <1>7 DEF Look
  <2>. QED  BY <1>5, <2>1 DEF Cycle
<1>8. CASE ReadMembers
  <2>1. PICK l \in Listings : Look(l # "no", "channels")
    BY <1>8 DEF ReadMembers
  <2>2. UNCHANGED <<reaperOnly, closing, row>> /\ reaper.pc = "members"
    BY <1>8 DEF ReadMembers
  <2>3. reaper'.pc = "channels" /\ reaper'.old = reaper.old
    BY <1>7, <2>1
  <2>4. Reaps'
    BY <1>5, <2>2, <2>3 DEF Reaps
  <2>. QED  BY <1>4, <2>2, <2>4
<1>9. CASE ReadChannels
  <2>1. /\ Look(fs \in {"queue", "bridged"}, "close") /\ reaper.pc = "channels"
        /\ UNCHANGED <<reaperOnly, closing, row>>
    BY <1>9 DEF ReadChannels
  <2>2. /\ reaper'.pc = "close" /\ reaper'.old = reaper.old
        /\ fs \in {"queue", "bridged"} => reaper'.seen
    BY <1>7, <2>1
  <2>3. fs = "new" => row.st = "none"
    BY DEF Tale, InNew
  <2>4. reaper'.old => row.st # "none"
    BY <1>5, <2>1, <2>2 DEF Reaps
  <2>5. fs \in {"new", "queue", "bridged", "gone"} /\ fs' = fs /\ row' = row
    BY <2>1 DEF TypeOK, reaperOnly, phone
  <2>6. Reaps'
    BY <2>2, <2>3, <2>4, <2>5 DEF Reaps
  <2>. QED  BY <1>4, <2>1, <2>6
<1>10. CASE ReaperClose
  <2>1. reaper.pc = "close" /\ reaper' = Idle /\ UNCHANGED reaperOnly
    BY <1>10 DEF ReaperClose
  <2>2. UNCHANGED <<fs, ringing, talker, link, inbox, talks, sync, hist, stats>>
    BY <2>1 DEF reaperOnly, phone
  <2>3. Reaps'
    BY <2>1 DEF Reaps, Idle
  <2>4. CASE ~(reaper.old /\ Unseen /\ StillOpen)
    <3>1. UNCHANGED <<row, closing>>
      BY <1>10, <2>4 DEF ReaperClose
    <3>. QED  BY <1>4, <2>1, <2>3, <3>1
  <2>5. CASE reaper.old /\ Unseen /\ StillOpen
    <3>1. /\ fs = "gone" /\ row.st = "open" /\ row' = Finish(row)
          /\ closing' = IF row.answered THEN closing ELSE closing \cup {Uncounted}
      BY <1>5, <1>10, <2>1, <2>5 DEF ReaperClose, Reaps, Unseen, StillOpen
    <3>2. /\ Kinds({"abandoned", "end", "hangup", "bridgeEnd"})
          /\ talker # None => Kinds({"end", "hangup", "bridgeEnd"}) /\ TalkedRow /\ Heard
          /\ talker = None => WaitingRow
          /\ closing = {} /\ stats.offered = 0
      BY <3>1 DEF Tale, IsOver, Counts, GivenUpRow
    <3>3. row \in Call
      BY DEF TypeOK
    <3>4. row'.st = "closed"
      BY <3>1, <3>3 DEF Finish, Call
    <3>5. talker # None => TalkedRow'
      BY <2>2, <3>1, <3>2, <3>3 DEF Finish, TalkedRow, Call
    <3>6. talker = None => GivenUpRow'
      BY <2>2, <3>1, <3>2, <3>3 DEF Finish, WaitingRow, GivenUpRow, Call
    <3>7. talker = None => closing' # {}
      BY <3>1, <3>2 DEF WaitingRow
    <3>8. IsOver'
      BY <2>2, <3>2, <3>4, <3>5, <3>6, <3>7 DEF IsOver, Kinds, Heard
    <3>9. InNew' /\ InQueue' /\ InTalk' /\ Ringing'
      BY <2>2, <3>1 DEF Tale, InNew, InQueue, InTalk, Ringing
    <3>10. TalkerOnly'
      BY <2>2 DEF Tale, TalkerOnly
    <3>11. ~Uncounted.answered /\ ~Uncounted.abandoned
      BY DEF Uncounted
    <3>12. Counts'
      BY <2>2, <3>1, <3>4, <3>11 DEF Tale, Counts
    <3>. QED  BY <1>2, <2>2, <2>3, <3>8, <3>9, <3>10, <3>12 DEF Tale
  <2>. QED  BY <2>4, <2>5
<1>. QED  BY <1>3, <1>6, <1>8, <1>9, <1>10 DEF Housekeeping, Reaper

\* Faults are only ever added.
LEMMA FaultsGrow ==
  ASSUME TypeOK, Next, faults' = 0
  PROVE  faults = 0
<1>1. faults \in Nat
  BY CallConstantsOK DEF TypeOK, CallConstantsOK
<1>2. Fault => faults' = faults + 1
  BY DEF Fault
<1>3. CASE Phone
  BY <1>3 DEF Phone, Enter, Ring, RingEnds, Answer, Abandon, TalkEnds, phoneOnly
<1>4. CASE Handler
  BY <1>4 DEF Handler, QueueStart, AgentOffering, AgentNoAnswer, BridgeAgentStart,
    BridgeAgentEnd, MemberAbandoned, MemberQueueEnd, ChannelHangup, handled
<1>5. CASE Later
  BY <1>5 DEF Later, StartTalk, CloseOffers
<1>6. CASE Housekeeping
  <2>1. UNCHANGED faults \/ Fault
    BY <1>6 DEF Housekeeping, Reaper, ReaperStart, ReadMembers, ReadChannels, ReaperClose,
      Look, OfflineSweep, LinkLost, LinkUp, SyncRead, SyncUpsert, Crash
  <2>. QED  BY <1>1, <1>2, <2>1
<1>. QED  BY <1>3, <1>4, <1>5, <1>6, NextCases

LEMMA TaleStep == TypeOK /\ TaleInv /\ [Next]_vars => TaleInv'
<1>. SUFFICES ASSUME TypeOK, TaleInv, [Next]_vars, faults' = 0 PROVE Tale'
  BY DEF TaleInv
<1>1. CASE UNCHANGED vars
  <2>1. UNCHANGED <<fs, ringing, talker, link, inbox, talks, closing, reaper, sync,
                    row, hist, stats, faults>>
    BY <1>1 DEF vars, phone, process, tables
  <2>2. Tale
    BY <2>1 DEF TaleInv
  <2>3. InNew' /\ InQueue' /\ InTalk'
    BY <2>1, <2>2 DEF Tale, InNew, InQueue, InTalk, Kinds, WaitingRow, TalkedRow, Heard
  <2>4. IsOver'
    BY <2>1, <2>2 DEF Tale, IsOver, Kinds, WaitingRow, TalkedRow, GivenUpRow, Heard
  <2>5. Ringing' /\ TalkerOnly' /\ Counts' /\ Reaps'
    BY <2>1, <2>2 DEF Tale, Ringing, TalkerOnly, Counts, Reaps
  <2>. QED  BY <2>1, <2>2, <2>3, <2>4, <2>5 DEF Tale
<1>2. CASE Next
  <2>1. faults = 0 /\ Tale
    BY <1>2, FaultsGrow DEF TaleInv
  <2>. QED  BY <1>2, <2>1, NextCases, TalePhone, TaleHandler, TaleLater, TaleAround
<1>. QED  BY <1>1, <1>2

LEMMA TaleInit == Init => TaleInv
<1>. SUFFICES ASSUME Init PROVE Tale
  BY DEF TaleInv
<1>1. /\ fs = "new" /\ ringing = {} /\ talker = None /\ link /\ inbox = <<>>
      /\ talks = {} /\ closing = {} /\ reaper.pc = "idle" /\ sync.pc = "idle"
      /\ row.st = "none" /\ WaitingRow
      /\ stats.offered = 0 /\ stats.answered = 0 /\ stats.abandoned = 0
      /\ \A a \in Agent : hist[a].talk = "no"
  BY DEF Init, Idle, Rested, WaitingRow
<1>2. InNew /\ InQueue /\ InTalk /\ IsOver
  BY <1>1 DEF InNew, InQueue, InTalk, IsOver
<1>3. Ringing /\ TalkerOnly /\ Counts /\ Reaps
  BY <1>1 DEF Ringing, TalkerOnly, Counts, Reaps
<1>. QED  BY <1>1, <1>2, <1>3 DEF Tale

LEMMA TaleTells == TypeOK /\ TaleInv => TablesTell
<1>. SUFFICES ASSUME TypeOK, TaleInv, AtRest, faults = 0
              PROVE  /\ row.st = "closed" /\ row.agent = talker
                     /\ row.abandoned <=> talker = None
                     /\ row.disposition = IF talker = None THEN "abandoned" ELSE "answered"
                     /\ \A a \in Agent : IF a = talker THEN hist[a].talk # "no"
                                         ELSE \/ hist[a].ring = "none" \/ hist[a].missed
                                              \/ row.answered /\ stats.offered = 0
                     /\ stats.answered > 0 => talker # None
                     /\ stats.abandoned > 0 => talker = None
  BY DEF TablesTell
<1>1. /\ fs = "gone" /\ inbox = <<>> /\ talks = {} /\ closing = {}
      /\ row \in Call /\ talker \in Agent \cup {None} /\ None \notin Agent
      /\ hist \in [Agent -> Offer]
  BY CallConstantsOK DEF AtRest, TypeOK, CallConstantsOK
<1>2. Tale
  BY DEF TaleInv
<1>3. row.st # "open"
  BY <1>1, <1>2 DEF Tale, IsOver
<1>4. /\ row.st = "closed" /\ row.agent = talker
      /\ row.abandoned <=> talker = None
      /\ row.disposition = IF talker = None THEN "abandoned" ELSE "answered"
  <2>1. CASE talker = None
    BY <1>1, <1>2, <1>3, <2>1 DEF Tale, IsOver, GivenUpRow
  <2>2. CASE talker # None
    BY <1>1, <1>2, <1>3, <2>2 DEF Tale, IsOver, TalkedRow
  <2>. QED  BY <2>1, <2>2
<1>5. ASSUME NEW a \in Agent
      PROVE  IF a = talker THEN hist[a].talk # "no"
             ELSE \/ hist[a].ring = "none" \/ hist[a].missed
                  \/ row.answered /\ stats.offered = 0
  <2>1. CASE a = talker
    BY <1>1, <1>2, <2>1 DEF Tale, IsOver, Heard
  <2>2. CASE a # talker
    <3>1. hist[a].talk = "no"
      BY <1>1, <1>2, <2>2 DEF Tale, TalkerOnly
    <3>2. CASE talker = None \/ stats.offered > 0
      <4>1. ~Missable(hist[a])
        BY <1>1, <1>2, <1>4, <2>2, <3>2 DEF Tale, IsOver
      <4>. QED  BY <2>2, <3>1, <4>1 DEF Missable
    <3>3. CASE talker # None /\ ~(stats.offered > 0)
      <4>1. row.answered /\ stats.offered \in Nat
        BY <1>1, <1>2, <3>3 DEF Tale, IsOver, TalkedRow, TypeOK
      <4>. QED  BY <2>2, <3>3, <4>1
    <3>. QED  BY <3>2, <3>3
  <2>. QED  BY <2>1, <2>2
<1>. QED  BY <1>2, <1>4, <1>5 DEF Tale, Counts

\* Without faults, whatever the order in which the handlers' first statements, what
\* they do later and the reaper's cycles come: once a call has come to rest, its
\* row, the agents' histories and the hourly statistics tell who answered it, who
\* was rung in vain and whether the caller gave up (eslService.js:425-966), but for
\* an answered call that nobody has counted.
THEOREM TablesTrue == Spec => []TablesTell
<1>. QED  BY TaleInit, TaleStep, TaleTells, TypeCorrect, PTL DEF Spec
=============================================================================
