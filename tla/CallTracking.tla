----------------------------- MODULE CallTracking -----------------------------
(***************************************************************************)
(* How fs-cc keeps one queued call in its tables (backend/services/         *)
(* eslService.js): the handlers of mod_callcenter's events and of the hangup, *)
(* the ghost-call reaper, and the import of calls after a reconnect.         *)
(*                                                                         *)
(* A handler issues its first statement when the event arrives, so first     *)
(* statements run in the order of the events; what it awaits after that      *)
(* interleaves with everything else.                                       *)
(***************************************************************************)
EXTENDS Naturals, Sequences

CONSTANTS
  Agent,      \* the agents that the queue may ring
  None,       \* no agent
  OfferBound, \* bound: offers of the call to agents
  FaultBound  \* bound: failed commands, lost connections and crashes

ASSUME CallConstantsOK ==
  None \notin Agent /\ OfferBound \in Nat /\ FaultBound \in Nat

VARIABLES
  \* FreeSWITCH
  fs,      \* where the caller is
  ringing, \* agents that are being rung
  talker,  \* the agent that answered
  offers,  \* how often the call was offered
  \* the process
  link,    \* the ESL connection is up
  inbox,   \* events whose first statement has not run
  talks,   \* agents whose bridge-agent-start has its second statement to run
  closing, \* what handlers that closed the call have still to do
  reaper,  \* a cycle of the reaper
  sync,    \* syncActiveCalls after a reconnect
  \* the tables
  row,     \* calls
  hist,    \* agent_history, per agent
  stats,   \* the call's share of queue_stats_hourly
  faults

phone   == <<fs, ringing, talker, offers>>
process == <<link, inbox, talks, closing, reaper, sync>>
tables  == <<row, hist, stats>>
vars    == <<phone, process, tables, faults>>

Event == [kind: {"start", "abandoned", "end", "hangup"}, agent: {None}]
         \cup [kind: {"offering", "noAnswer", "bridge", "bridgeEnd"}, agent: Agent]
Call  == [st: {"none", "open", "closed"}, answered: BOOLEAN, abandoned: BOOLEAN,
          disposition: {"waiting", "answered", "abandoned"}, agent: Agent \cup {None}]
Offer == [ring: {"none", "ringing", "ended"}, missed: BOOLEAN,
          talk: {"no", "yes", "over"}]
Rest  == [count: BOOLEAN, answered: BOOLEAN, abandoned: BOOLEAN]
Cycle == [pc: {"idle", "members", "channels", "close"},
          old: BOOLEAN, seen: BOOLEAN, failed: 0..2]

Import == [pc: {"idle", "list", "upsert"}, listed: {"no", "queue", "bridged"},
           agent: Agent \cup {None}]

TypeOK ==
  /\ fs \in {"new", "queue", "bridged", "gone"}
  /\ ringing \in SUBSET Agent /\ talker \in Agent \cup {None}
  /\ offers \in 0..OfferBound
  /\ link \in BOOLEAN
  /\ inbox \in Seq(Event)
  /\ talks \in SUBSET Agent
  /\ closing \in SUBSET Rest
  /\ reaper \in Cycle
  /\ sync \in Import
  /\ row \in Call /\ hist \in [Agent -> Offer]
  /\ stats \in [offered: Nat, answered: Nat, abandoned: Nat]
  /\ faults \in 0..FaultBound

Idle == [pc |-> "idle", old |-> FALSE, seen |-> FALSE, failed |-> 0]
Rested == [pc |-> "idle", listed |-> "no", agent |-> None]

Init ==
  /\ fs = "new" /\ ringing = {} /\ talker = None /\ offers = 0
  /\ link = TRUE /\ inbox = <<>> /\ talks = {} /\ closing = {}
  /\ reaper = Idle /\ sync = Rested
  /\ row = [st |-> "none", answered |-> FALSE, abandoned |-> FALSE,
            disposition |-> "waiting", agent |-> None]
  /\ hist = [a \in Agent |-> [ring |-> "none", missed |-> FALSE, talk |-> "no"]]
  /\ stats = [offered |-> 0, answered |-> 0, abandoned |-> 0]
  /\ faults = 0

Fault == faults < FaultBound /\ faults' = faults + 1

----------------------------------------------------------------------------
(* FreeSWITCH.  Events without a connection are lost.  A person takes longer *)
(* than a first statement.                                                  *)

On(kind)        == [kind |-> kind, agent |-> None]
Of(kind, a)     == [kind |-> kind, agent |-> a]
Emit(es)        == inbox' = IF link THEN inbox \o es ELSE inbox
Person          == inbox = <<>>
phoneOnly       == <<link, talks, closing, reaper, sync, tables, faults>>

Enter ==
  /\ fs = "new" /\ fs' = "queue"
  /\ Emit(<<On("start")>>)
  /\ UNCHANGED <<ringing, talker, offers, phoneOnly>>

Ring(a) ==
  /\ fs = "queue" /\ a \notin ringing
  /\ offers < OfferBound /\ offers' = offers + 1
  /\ ringing' = ringing \cup {a}
  /\ Emit(<<Of("offering", a)>>)
  /\ UNCHANGED <<fs, talker, phoneOnly>>

\* "FreeSWITCH does NOT always fire agent-no-answer".
RingEnds(a) ==
  /\ a \in ringing /\ Person
  /\ ringing' = ringing \ {a}
  /\ Emit(<<Of("noAnswer", a)>>) \/ UNCHANGED inbox
  /\ UNCHANGED <<fs, talker, offers, phoneOnly>>

Answer(a) ==
  /\ a \in ringing /\ Person
  /\ fs' = "bridged" /\ talker' = a /\ ringing' = {}
  /\ Emit(<<Of("bridge", a)>>)
  /\ UNCHANGED <<offers, phoneOnly>>

\* CHANNEL_HANGUP_COMPLETE and member-queue-end may come in either order.
Abandon ==
  /\ fs = "queue" /\ Person
  /\ fs' = "gone" /\ ringing' = {}
  /\ \/ Emit(<<On("end"), On("hangup")>>)
     \/ Emit(<<On("hangup"), On("end")>>)
     \/ Emit(<<On("abandoned"), On("end"), On("hangup")>>)
  /\ UNCHANGED <<talker, offers, phoneOnly>>

TalkEnds ==
  /\ fs = "bridged" /\ Person
  /\ fs' = "gone"
  /\ \/ Emit(<<Of("bridgeEnd", talker), On("end"), On("hangup")>>)
     \/ Emit(<<Of("bridgeEnd", talker), On("hangup"), On("end")>>)
  /\ UNCHANGED <<ringing, talker, offers, phoneOnly>>

----------------------------------------------------------------------------
(* The handlers' first statements.                                         *)

\* The CASE expressions that member-queue-end, the hangup and the reaper share.
BugDisposition(r) == [r EXCEPT !.st = "closed", !.disposition = "no_agent"]
BugAbandoned(r)   == [r EXCEPT !.st = "closed", !.abandoned = TRUE]
Finish(r) == [r EXCEPT !.st = "closed",
                       !.abandoned = @ \/ ~r.answered,
                       !.disposition = IF ~r.answered /\ @ = "waiting"
                                       THEN "abandoned" ELSE @]

BugStillOpen == row.st # "none"
StillOpen    == row.st = "open"

Next1(kind) == /\ inbox # <<>> /\ Head(inbox).kind = kind
               /\ inbox' = Tail(inbox)
Who == Head(inbox).agent
handled == <<phone, link, reaper, sync, stats, faults>>

\* INSERT ... ON CONFLICT DO UPDATE SET disposition = 'waiting'
QueueStart ==
  /\ Next1("start")
  /\ row' = [row EXCEPT !.st = IF @ = "none" THEN "open" ELSE @,
                        !.disposition = "waiting"]
  /\ UNCHANGED <<hist, talks, closing, handled>>

\* A missed offer is opened again, an open one kept, a talk left alone.
AgentOffering ==
  /\ Next1("offering")
  /\ hist' = [hist EXCEPT ![Who] =
                IF @.talk = "no" /\ (@.ring = "none" \/ @.missed)
                THEN [@ EXCEPT !.ring = "ringing", !.missed = FALSE] ELSE @]
  /\ UNCHANGED <<row, talks, closing, handled>>

AgentNoAnswer ==
  /\ Next1("noAnswer")
  /\ hist' = [hist EXCEPT ![Who] =
                IF @.ring = "ringing" /\ ~@.missed
                THEN [@ EXCEPT !.ring = "ended", !.missed = TRUE] ELSE @]
  /\ UNCHANGED <<row, talks, closing, handled>>

\* There is no test for a closed call.
BridgeAgentStart ==
  /\ Next1("bridge")
  /\ row' = IF row.st = "none" THEN row
            ELSE [row EXCEPT !.agent = Who, !.answered = TRUE,
                             !.disposition = "answered"]
  /\ talks' = talks \cup {Who}
  /\ UNCHANGED <<hist, closing, handled>>

BridgeAgentEnd ==
  /\ Next1("bridgeEnd")
  /\ hist' = [hist EXCEPT ![Who].talk = IF ~hist[Who].missed /\ @ = "yes"
                                        THEN "over" ELSE @]
  /\ UNCHANGED <<row, talks, closing, handled>>

MemberAbandoned ==
  /\ Next1("abandoned")
  /\ IF StillOpen
     THEN /\ row' = [row EXCEPT !.st = "closed", !.abandoned = TRUE,
                                !.disposition = "abandoned"]
          /\ closing' = closing \cup
               {[count |-> TRUE, answered |-> FALSE, abandoned |-> TRUE]}
     ELSE UNCHANGED <<row, closing>>
  /\ UNCHANGED <<hist, talks, handled>>

MemberQueueEnd ==
  /\ Next1("end")
  /\ IF StillOpen
     THEN LET r == Finish(row)
          IN /\ row' = r
             /\ closing' = closing \cup
                  {[count |-> TRUE, answered |-> r.disposition = "answered",
                    abandoned |-> r.abandoned]}
     ELSE UNCHANGED <<row, closing>>
  /\ UNCHANGED <<hist, talks, handled>>

\* The backup finalizer does not count.
Uncounted == [count |-> FALSE, answered |-> FALSE, abandoned |-> FALSE]
ChannelHangup ==
  /\ Next1("hangup")
  /\ IF StillOpen
     THEN row' = Finish(row) /\ closing' = closing \cup {Uncounted}
     ELSE UNCHANGED <<row, closing>>
  /\ UNCHANGED <<hist, talks, handled>>

----------------------------------------------------------------------------
(* What the handlers do after their first await.                           *)

\* The second statement of bridge-agent-start updates the open offer or inserts
\* a row; a conflict does nothing.
StartTalk(a) ==
  /\ a \in talks
  /\ talks' = talks \ {a}
  /\ hist' = [hist EXCEPT ![a] =
                IF @.talk = "no"
                THEN [ring |-> "ended", missed |-> FALSE, talk |-> "yes"] ELSE @]
  /\ UNCHANGED <<phone, link, inbox, closing, reaper, sync, row, stats, faults>>

\* finaliseAgentHistoryMissed
BugMissable(h) == h.ring # "none" /\ ~h.missed
Missable(h)    == h.ring # "none" /\ ~h.missed /\ h.talk = "no"
Missed(h)      == [h EXCEPT !.missed = TRUE, !.ring = "ended"]

\* Then the handler counts the call, if its finalizer does: updateHourlyStats.
CloseOffers(c) ==
  /\ c \in closing
  /\ closing' = closing \ {c}
  /\ hist' = [a \in Agent |-> IF Missable(hist[a]) THEN Missed(hist[a]) ELSE hist[a]]
  /\ stats' = IF c.count
              THEN [offered   |-> stats.offered + 1,
                    answered  |-> stats.answered + (IF c.answered THEN 1 ELSE 0),
                    abandoned |-> stats.abandoned + (IF c.abandoned THEN 1 ELSE 0)]
              ELSE stats
  /\ UNCHANGED <<phone, link, inbox, talks, reaper, sync, row, faults>>

----------------------------------------------------------------------------
(* The reaper.                                                             *)

reaperOnly == <<phone, link, inbox, talks, sync, hist, stats>>

\* A cycle of closeGhostCallsEnhanced reads two lists.  Rows younger than ten
\* seconds are left alone: a cycle takes less than that.
ReaperStart ==
  /\ reaper.pc = "idle" /\ link
  /\ reaper' = [Idle EXCEPT !.pc = "members", !.old = StillOpen]
  /\ UNCHANGED <<reaperOnly, closing, row, faults>>

\* What a list says of the call.  A command that fails leaves its list empty,
\* which is no filter, and so does not protect the call.  A reply may overtake the
\* events that wait in the inbox.
Look(alive, next) ==
  \/ /\ link
     /\ reaper' = [reaper EXCEPT !.pc = next, !.seen = @ \/ alive]
     /\ UNCHANGED faults
  \/ /\ IF link THEN Fault ELSE UNCHANGED faults
     /\ reaper' = [reaper EXCEPT !.pc = next, !.failed = @ + 1]

\* callcenter_config queue list members.  One comment says that "bridged calls
\* left the member list", other code reads their bridge_epoch from it.
Listings == {"no"} \cup ({"queue", "bridged"} \cap {fs})
ReadMembers ==
  /\ reaper.pc = "members"
  /\ \E l \in Listings : /\ fs = "queue" => l = "queue"
                         /\ Look(l # "no", "channels")
  /\ UNCHANGED <<reaperOnly, closing, row>>

\* show channels
ReadChannels ==
  /\ reaper.pc = "channels"
  /\ Look(fs \in {"queue", "bridged"}, "close")
  /\ UNCHANGED <<reaperOnly, closing, row>>

BugUnseen  == ~reaper.seen \/ reaper.failed > 0
BugNull    == FALSE \* uuid != ALL(NULL) holds of no row
Unseen     == ~reaper.seen
ReaperClose ==
  /\ reaper.pc = "close"
  /\ reaper' = Idle
  /\ IF reaper.old /\ Unseen /\ StillOpen
     THEN /\ row' = Finish(row)
          /\ closing' = IF row.answered THEN closing ELSE closing \cup {Uncounted}
     ELSE UNCHANGED <<row, closing>>
  /\ UNCHANGED <<reaperOnly, faults>>

\* Without a connection, calls that have waited 30 minutes are abandoned.
OfflineSweep ==
  /\ ~link /\ reaper.pc = "idle"
  /\ StillOpen /\ ~row.answered
  /\ row' = [row EXCEPT !.st = "closed", !.abandoned = TRUE, !.disposition = "abandoned"]
  /\ closing' = closing \cup {Uncounted}
  /\ UNCHANGED <<reaperOnly, reaper, faults>>

----------------------------------------------------------------------------
(* The connection.                                                         *)

LinkLost ==
  /\ link /\ Fault /\ link' = FALSE
  /\ UNCHANGED <<phone, inbox, talks, closing, reaper, sync, tables>>

\* runStartupSequence imports what FreeSWITCH has in its queues.  The ghost
\* check in the middle of syncActiveCalls is one more cycle of the reaper.
LinkUp ==
  /\ ~link /\ sync.pc = "idle" /\ link' = TRUE
  /\ sync' = [Rested EXCEPT !.pc = "list"]
  /\ UNCHANGED <<phone, inbox, talks, closing, reaper, tables, faults>>

\* The serving_agent of a listed member: the agent it talks to, or one that is rung.
Serving(l) == CASE l = "bridged" -> {talker}
                [] l = "queue"   -> ringing \cup {None}
                [] OTHER         -> {None}

SyncRead ==
  /\ sync.pc = "list"
  /\ \E l \in Listings : /\ link /\ fs = "queue" => l = "queue"
                         /\ ~link => l = "no"
                         /\ \E a \in Serving(l) :
                              sync' = [pc |-> "upsert", listed |-> l, agent |-> a]
  /\ UNCHANGED <<phone, link, inbox, talks, closing, reaper, tables, faults>>

\* The list may be stale by now: a call may have been answered or closed.
Imported(r) ==
  LET new == [r EXCEPT !.st = IF @ = "none" THEN "open" ELSE @,
                       !.agent = IF sync.agent = None THEN @ ELSE sync.agent]
  IN IF sync.listed = "bridged"
     THEN [new EXCEPT !.answered = TRUE, !.disposition = "answered"]
     ELSE [new EXCEPT !.disposition = IF @ = "answered" THEN @ ELSE "waiting"]
SyncUpsert ==
  /\ sync.pc = "upsert"
  /\ sync' = Rested
  /\ row' = IF sync.listed = "no" THEN row ELSE Imported(row)
  /\ UNCHANGED <<phone, link, inbox, talks, closing, reaper, hist, stats, faults>>

Crash ==
  /\ Fault
  /\ link' = FALSE /\ inbox' = <<>> /\ talks' = {} /\ closing' = {}
  /\ reaper' = Idle /\ sync' = Rested
  /\ UNCHANGED <<phone, tables>>

----------------------------------------------------------------------------
Phone == \/ Enter \/ Abandon \/ TalkEnds
         \/ \E a \in Agent : Ring(a) \/ RingEnds(a) \/ Answer(a)

Handler == \/ QueueStart \/ AgentOffering \/ AgentNoAnswer \/ BridgeAgentStart
           \/ BridgeAgentEnd \/ MemberAbandoned \/ MemberQueueEnd \/ ChannelHangup

Later == \/ \E a \in Agent : StartTalk(a)
         \/ \E c \in closing : CloseOffers(c)

Reaper == ReaperStart \/ ReadMembers \/ ReadChannels \/ ReaperClose

Next == Phone \/ Handler \/ Later \/ Reaper \/ OfflineSweep
        \/ LinkLost \/ LinkUp \/ SyncRead \/ SyncUpsert \/ Crash

Spec == Init /\ [][Next]_vars

\* The database answers, scheduleReconnect retries and setInterval fires.
Fairness == /\ WF_vars(Handler) /\ WF_vars(Later) /\ WF_vars(Reaper)
            /\ WF_vars(LinkUp) /\ WF_vars(SyncRead \/ SyncUpsert)

FairSpec == Spec /\ Fairness

----------------------------------------------------------------------------
(* Properties.                                                             *)

\* member-queue-end, member-abandoned, the hangup and the reaper all finalize a
\* call, in any order and overlapping, and it enters the hourly statistics at
\* most once and with one outcome.
CountedOnce == stats.offered <= 1 /\ stats.answered + stats.abandoned <= 1

\* An agent who has talked to the caller never has the call as missed,
\* although finalizers mark offers while bridge-agent-start is half done.
TalkIsNotMissed == \A a \in Agent : hist[a].talk # "no" => ~hist[a].missed

\* A call that is in FreeSWITCH is closed by the reaper only when it has been blind:
\* a waiting one only if neither list could be read, one that is bridged if a
\* single list failed.  The second is weaker than the comments of the code:
\* the reaper "cross references BOTH the CC member UUID and the channel VDN so that
\* bridged (answered) calls are not mistakenly reaped" (eslService.js:423-424), and
\* "checks BOTH CC member UUIDs and bridged channel UUIDs so answered calls are
\* never falsely reaped" (:517-519).
ReapedWhenBlind ==
  [][reaper.pc = "close" /\ row.st = "open" /\ row'.st = "closed" /\ reaper' = Idle =>
       /\ fs = "queue" => reaper.failed = 2
       /\ fs = "bridged" => reaper.failed > 0]_vars

\* Without faults the tables end up telling what happened: who answered, who
\* was rung in vain, whether the caller gave up; and the statistics agree.  Only
\* when the reaper closes an answered call before the events of its end are
\* handled is the call not counted, and an agent that was rung beside the one
\* that answered left as ringing.
AtRest == /\ fs = "gone" /\ inbox = <<>> /\ talks = {} /\ closing = {}
          /\ reaper.pc = "idle"
TablesTell ==
  AtRest /\ faults = 0 =>
    /\ row.st = "closed" /\ row.agent = talker
    /\ row.abandoned <=> talker = None
    /\ row.disposition = IF talker = None THEN "abandoned" ELSE "answered"
    /\ \A a \in Agent : IF a = talker THEN hist[a].talk # "no"
                        ELSE \/ hist[a].ring = "none" \/ hist[a].missed
                             \/ row.answered /\ stats.offered = 0
    /\ stats.answered > 0 => talker # None
    /\ stats.abandoned > 0 => talker = None

\* The row of a call that is over is closed, although the events of its end may
\* be lost with the connection or the process.
CallEnds == <>[](fs = "gone" => row.st # "open")
=============================================================================
