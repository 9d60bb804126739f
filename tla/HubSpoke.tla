------------------------------ MODULE HubSpoke ------------------------------
(***************************************************************************)
(* The hub's MemoryHubService (internal/global/grpc/hub_server.go) and one *)
(* SpokeAgent (internal/global/spoke/agent.go).  The hub keys its maps by  *)
(* cluster name and clusters do not meet, so one cluster stands for all.   *)
(*                                                                         *)
(* The agent is three goroutines: Start, the heartbeat loop and the        *)
(* directive loop, each with at most one call to the hub under way.  A     *)
(* call is sent, executed by the hub under its mutex, and answered; the    *)
(* caller may instead see an error at any time.  A request whose caller    *)
(* gave up may still be executed, later (late), and nobody receives its    *)
(* answer.  Both processes may restart and lose what they hold in memory.  *)
(*                                                                         *)
(* Left out: the contents of registrations and reports, the counters and   *)
(* the intervals (they decide nothing here), and RequestTrafficShift,      *)
(* which acknowledges and changes nothing.  The clocks agree.              *)
(***************************************************************************)
EXTENDS Naturals, Sequences

CONSTANTS
  HeartbeatTTL,   \* heartbeatTTL in clock units
  MaxDirectives,  \* bound: the calls of EnqueueDirective
  NoStatus        \* lastStatus when the hub has none

ASSUME HubAssumption == HeartbeatTTL \in Nat /\ MaxDirectives \in Nat

VARIABLES
  registered,  \* the hub's clusters map has the cluster
  lastStatus,  \* the age of the Timestamp of the hub's lastStatus
  directives,  \* the hub's queue of directives
  late,        \* requests whose callers gave up, still to be executed
  lateAge,     \* the age of the report among them
  state,       \* AgentState
  lastErr,     \* whether LastError is set
  cancelled,   \* the agent's context is cancelled
  start,       \* where Start is
  beat,        \* where the heartbeat loop is
  beatAge,     \* the age of the report in its call
  initial,     \* the loop has not finished its first heartbeat
  poll,        \* where the directive loop is
  batch,       \* the directives of the answer it works on
  \* History variables.
  posted,      \* the number of EnqueueDirective calls
  handled,     \* the directives given to the handler, in order
  fault,       \* a directive was dropped by a failure
  reportedFor  \* the age of the youngest report the agent collected

hubVars == <<registered, lastStatus, directives>>
netVars == <<late, lateAge>>
beatVars == <<beat, beatAge, initial, reportedFor>>
pollVars == <<poll, batch>>
startVars == <<state, cancelled, start>>
mailHistory == <<posted, handled, fault>>
linkVars == <<hubVars, netVars, startVars, lastErr, beatVars, pollVars, mailHistory>>

Stale == HeartbeatTTL + 1
Age == 0 .. Stale
AgentState == {"disconnected", "registered", "running", "stopped"}
Request == {"register", "report", "poll"}
Directives == 1 .. MaxDirectives

(* Type invariant. *)
LinkTypeOK ==
  /\ registered \in BOOLEAN
  /\ lastStatus \in Age \cup {NoStatus}
  /\ directives \in Seq(Directives)
  /\ late \subseteq Request
  /\ lateAge \in Age
  /\ state \in AgentState
  /\ lastErr \in BOOLEAN
  /\ cancelled \in BOOLEAN
  /\ start \in {"down", "sent", "answered", "cut", "registered", "serving", "returned"}
  /\ beat \in {"off", "tick", "sent", "acked", "refused", "cut"}
  /\ beatAge \in Age
  /\ initial \in BOOLEAN
  /\ poll \in {"off", "tick", "sent", "answered", "cut", "handle"}
  /\ batch \in Seq(Directives)
  /\ poll \notin {"answered", "handle"} => batch = <<>>
  /\ posted \in 0 .. MaxDirectives
  /\ handled \in Seq(Directives)
  /\ fault \in BOOLEAN
  /\ reportedFor \in Age

\* The agent of a process that has just come up (NewSpokeAgent).
AgentInit ==
  /\ state = "disconnected"
  /\ lastErr = FALSE
  /\ cancelled = FALSE
  /\ start = "down"
  /\ beat = "off"
  /\ beatAge = Stale
  /\ initial = TRUE
  /\ poll = "off"
  /\ batch = <<>>

HubInit ==
  /\ registered = FALSE
  /\ lastStatus = NoStatus
  /\ directives = <<>>

LinkInit ==
  /\ HubInit
  /\ AgentInit
  /\ late = {}
  /\ lateAge = Stale
  /\ posted = 0
  /\ handled = <<>>
  /\ fault = FALSE
  /\ reportedFor = Stale

\* A caller gives up on its request: if the hub has not executed it, it may yet.
giveUp(sent, request) ==
  \/ UNCHANGED netVars
  \/ /\ sent
     /\ late' = late \cup {request}
     /\ lateAge' = IF request = "report" THEN beatAge ELSE lateAge

-----------------------------------------------------------------------------
(* Start. *)

Start ==
  /\ start = "down"
  /\ start' = "sent"
  /\ UNCHANGED <<hubVars, netVars, state, cancelled, lastErr, beatVars, pollVars, mailHistory>>

\* NewSpokeClient fails: Start returns before its deferred setState.
connectFailed ==
  /\ start = "down"
  /\ start' = "returned"
  /\ lastErr' = TRUE
  /\ UNCHANGED <<hubVars, netVars, state, cancelled, beatVars, pollVars, mailHistory>>

RegisterCluster ==
  /\ start = "sent"
  /\ registered' = TRUE
  /\ start' = "answered"
  /\ UNCHANGED <<lastStatus, directives, netVars, state, cancelled, lastErr, beatVars, pollVars, mailHistory>>

registerFailed ==
  /\ start \in {"sent", "answered", "cut"}
  /\ start' = "returned"
  /\ state' = "stopped"
  /\ lastErr' = TRUE
  /\ giveUp(start = "sent", "register")
  /\ UNCHANGED <<hubVars, cancelled, beatVars, pollVars, mailHistory>>

registrationAccepted ==
  /\ start = "answered"
  /\ start' = "registered"
  /\ state' = "registered"
  /\ UNCHANGED <<hubVars, netVars, cancelled, lastErr, beatVars, pollVars, mailHistory>>

startLoops ==
  /\ start = "registered"
  /\ start' = "serving"
  /\ state' = "running"
  /\ beat' = "tick"
  /\ poll' = "tick"
  /\ UNCHANGED <<hubVars, netVars, cancelled, lastErr, beatAge, initial, reportedFor, batch, mailHistory>>

\* The two loops return only when the context is cancelled, and Start does not
\* wait for them.
stop ==
  /\ start = "serving"
  /\ cancelled
  /\ start' = "returned"
  /\ state' = "stopped"
  /\ UNCHANGED <<hubVars, netVars, cancelled, lastErr, beatVars, pollVars, mailHistory>>

cancel ==
  /\ start # "down"
  /\ cancelled' = TRUE
  /\ UNCHANGED <<hubVars, netVars, state, start, lastErr, beatVars, pollVars, mailHistory>>

-----------------------------------------------------------------------------
(* The heartbeat loop, and ReportStatus. *)

sendHeartbeat ==
  /\ beat = "tick"
  /\ ~cancelled
  /\ beat' = "sent"
  /\ beatAge' = 0
  /\ reportedFor' = 0
  /\ UNCHANGED <<hubVars, netVars, startVars, lastErr, initial, pollVars, mailHistory>>

\* Mutant: the report is stamped with the time of its arrival.
storeReportNow(age) == lastStatus' = IF registered THEN 0 ELSE lastStatus

\* The hub stores a report only of a registered cluster, with the timestamp the
\* agent gave it, and does not compare it with the report it has.
storeReport(age) == lastStatus' = IF registered THEN age ELSE lastStatus

ReportStatus ==
  /\ beat = "sent"
  /\ storeReport(beatAge)
  /\ beat' = IF registered THEN "acked" ELSE "refused"
  /\ UNCHANGED <<registered, directives, netVars, startVars, lastErr, beatAge, initial, reportedFor,
                 pollVars, mailHistory>>

heartbeatAcked ==
  /\ beat = "acked"
  /\ beat' = "tick"
  /\ initial' = FALSE
  /\ lastErr' = FALSE
  /\ UNCHANGED <<hubVars, netVars, startVars, beatAge, reportedFor, pollVars, mailHistory>>

\* Mutant: a failure is only logged, as that of the first heartbeat is.
heartbeatFailedLogs ==
  /\ beat \in {"tick", "sent", "acked", "refused", "cut"}
  /\ beat' = "tick"
  /\ initial' = FALSE
  /\ giveUp(beat = "sent", "report")
  /\ UNCHANGED <<hubVars, startVars, lastErr, beatAge, reportedFor, pollVars, mailHistory>>

\* Collecting fails, the call fails, or the hub answers NotFound.  The first
\* heartbeat's failure is only logged.  The agent never registers again.
heartbeatFailed ==
  /\ beat \in {"tick", "sent", "acked", "refused", "cut"}
  /\ beat' = "tick"
  /\ initial' = FALSE
  /\ lastErr' = (lastErr \/ ~initial)
  /\ giveUp(beat = "sent", "report")
  /\ UNCHANGED <<hubVars, startVars, beatAge, reportedFor, pollVars, mailHistory>>

endHeartbeats ==
  /\ beat = "tick"
  /\ ~initial
  /\ cancelled
  /\ beat' = "off"
  /\ UNCHANGED <<hubVars, netVars, startVars, lastErr, beatAge, initial, reportedFor, pollVars, mailHistory>>

-----------------------------------------------------------------------------
(* The directive loop, GetDirective and EnqueueDirective. *)

sendPoll ==
  /\ poll = "tick"
  /\ ~cancelled
  /\ poll' = "sent"
  /\ UNCHANGED <<hubVars, netVars, startVars, lastErr, beatVars, batch, mailHistory>>

\* Mutant: fetching does not consume.
GetDirectiveKeeps ==
  /\ poll = "sent"
  /\ poll' = "answered"
  /\ batch' = directives
  /\ UNCHANGED <<hubVars, netVars, startVars, lastErr, beatVars, mailHistory>>

GetDirective ==
  /\ poll = "sent"
  /\ poll' = "answered"
  /\ batch' = directives
  /\ directives' = <<>>
  /\ UNCHANGED <<registered, lastStatus, netVars, startVars, lastErr, beatVars, mailHistory>>

pollFailed ==
  /\ poll \in {"tick", "sent", "answered", "cut"}
  /\ poll' = "tick"
  /\ batch' = <<>>
  /\ fault' = (fault \/ batch # <<>>)
  /\ lastErr' = TRUE
  /\ giveUp(poll = "sent", "poll")
  /\ UNCHANGED <<hubVars, startVars, beatVars, posted, handled>>

pollAnswered ==
  /\ poll = "answered"
  /\ poll' = "handle"
  /\ UNCHANGED <<hubVars, netVars, startVars, lastErr, beatVars, batch, mailHistory>>

\* Mutant: an error of the handler ends the poll.
handleReturns(failed) ==
  /\ poll = "handle"
  /\ batch # <<>>
  /\ handled' = Append(handled, Head(batch))
  /\ batch' = IF failed THEN <<>> ELSE Tail(batch)
  /\ UNCHANGED <<hubVars, netVars, startVars, lastErr, beatVars, poll, posted, fault>>

\* Mutant: an error of the handler ends the poll, the rest of the answer kept.
handleKeeps(failed) ==
  /\ poll = "handle"
  /\ batch # <<>>
  /\ handled' = Append(handled, Head(batch))
  /\ batch' = Tail(batch)
  /\ poll' = IF failed THEN "tick" ELSE "handle"
  /\ UNCHANGED <<hubVars, netVars, startVars, lastErr, beatVars, posted, fault>>

\* One call of the handler.  Its error is logged and the next directive taken,
\* also when the context is cancelled in the meantime.
handle(failed) ==
  /\ poll = "handle"
  /\ batch # <<>>
  /\ handled' = Append(handled, Head(batch))
  /\ batch' = Tail(batch)
  /\ UNCHANGED <<hubVars, netVars, startVars, lastErr, beatVars, poll, posted, fault>>

allHandled ==
  /\ poll = "handle"
  /\ batch = <<>>
  /\ poll' = "tick"
  /\ UNCHANGED <<hubVars, netVars, startVars, lastErr, beatVars, batch, mailHistory>>

endPolls ==
  /\ poll = "tick"
  /\ cancelled
  /\ poll' = "off"
  /\ UNCHANGED <<hubVars, netVars, startVars, lastErr, beatVars, batch, mailHistory>>

\* Mutant: the newest directive goes to the front.
EnqueueDirectiveFront ==
  /\ posted < MaxDirectives
  /\ posted' = posted + 1
  /\ directives' = <<posted'>> \o directives
  /\ UNCHANGED <<registered, lastStatus, netVars, startVars, lastErr, beatVars, pollVars, handled, fault>>

EnqueueDirective ==
  /\ posted < MaxDirectives
  /\ posted' = posted + 1
  /\ directives' = Append(directives, posted')
  /\ UNCHANGED <<registered, lastStatus, netVars, startVars, lastErr, beatVars, pollVars, handled, fault>>

-----------------------------------------------------------------------------
(* The network, the clock and restarts. *)

lateRegister ==
  /\ "register" \in late
  /\ late' = late \ {"register"}
  /\ registered' = TRUE
  /\ UNCHANGED <<lastStatus, directives, lateAge, startVars, lastErr, beatVars, pollVars, mailHistory>>

lateReport ==
  /\ "report" \in late
  /\ late' = late \ {"report"}
  /\ storeReport(lateAge)
  /\ UNCHANGED <<registered, directives, lateAge, startVars, lastErr, beatVars, pollVars, mailHistory>>

latePoll ==
  /\ "poll" \in late
  /\ late' = late \ {"poll"}
  /\ directives' = <<>>
  /\ fault' = (fault \/ directives # <<>>)
  /\ UNCHANGED <<registered, lastStatus, lateAge, startVars, lastErr, beatVars, pollVars, posted, handled>>

Aged(age) == IF age < Stale THEN age + 1 ELSE Stale

linkTick ==
  /\ lastStatus' = IF lastStatus = NoStatus THEN NoStatus ELSE Aged(lastStatus)
  /\ lateAge' = Aged(lateAge)
  /\ beatAge' = Aged(beatAge)
  /\ reportedFor' = Aged(reportedFor)
  /\ UNCHANGED <<registered, directives, late, startVars, lastErr, beat, initial, pollVars, mailHistory>>

\* The new hub knows nothing, and requests under way went to the old one.
hubRestart ==
  /\ registered' = FALSE
  /\ lastStatus' = NoStatus
  /\ directives' = <<>>
  /\ fault' = (fault \/ directives # <<>>)
  /\ late' = {}
  /\ lateAge' = Stale
  /\ start' = IF start = "sent" THEN "cut" ELSE start
  /\ beat' = IF beat = "sent" THEN "cut" ELSE beat
  /\ poll' = IF poll = "sent" THEN "cut" ELSE poll
  /\ UNCHANGED <<state, cancelled, lastErr, beatAge, initial, reportedFor, batch, posted, handled>>

\* Requests under way may still be executed.
agentRestart ==
  /\ state' = "disconnected"
  /\ lastErr' = FALSE
  /\ cancelled' = FALSE
  /\ start' = "down"
  /\ beat' = "off"
  /\ beatAge' = Stale
  /\ initial' = TRUE
  /\ poll' = "off"
  /\ batch' = <<>>
  /\ fault' = (fault \/ batch # <<>>)
  /\ \E kept \in SUBSET {r \in Request : \/ r = "register" /\ start = "sent"
                                         \/ r = "report" /\ beat = "sent"
                                         \/ r = "poll" /\ poll = "sent"} :
       /\ late' = late \cup kept
       /\ lateAge' = IF "report" \in kept THEN beatAge ELSE lateAge
  /\ UNCHANGED <<hubVars, posted, handled, reportedFor>>

heartbeatLoop == sendHeartbeat \/ heartbeatAcked \/ heartbeatFailed \/ endHeartbeats

directiveLoop ==
  \/ sendPoll \/ pollFailed \/ pollAnswered \/ allHandled \/ endPolls
  \/ \E failed \in BOOLEAN : handle(failed)

LinkNext ==
  \/ Start \/ connectFailed \/ registerFailed \/ registrationAccepted \/ startLoops \/ stop \/ cancel
  \/ RegisterCluster \/ ReportStatus \/ GetDirective \/ EnqueueDirective
  \/ heartbeatLoop
  \/ directiveLoop
  \/ lateRegister \/ lateReport \/ latePoll
  \/ linkTick \/ hubRestart \/ agentRestart

LinkSpec == LinkInit /\ [][LinkNext]_linkVars

\* The heartbeat goroutine runs on its ticker, and a call to the hub returns or
\* fails; Start returns once the context is cancelled.  Nothing is assumed of the
\* network, the hub or the directive loop.
LinkFairSpec == LinkSpec /\ WF_linkVars(heartbeatLoop) /\ WF_linkVars(stop)

-----------------------------------------------------------------------------
(* Properties. *)

\* "once fetched, directives are consumed": whatever is lost, delayed or
\* restarted, the handler never gets a directive twice, nor one that was enqueued
\* before a directive it already got.
HandledInOrder ==
  \A i, j \in 1 .. Len(handled) : i < j => handled[i] < handled[j]

\* Together, hub and agent are a mailbox: a step posts a directive at the end,
\* takes the first one, or loses some.  The box is what the agent is working on
\* followed by what the hub still has.
Box == INSTANCE Mailbox WITH box <- batch \o directives
IsMailbox == Box!MailSpec

\* Directives disappear only by a failure of a call that the hub had executed or
\* executed late, or by a restart: without one, each of them is handled, in the
\* agent's hands or in the queue.  An error of the handler loses no other.
NoLossWithoutFault ==
  ~fault => handled \o batch \o directives = [i \in 1 .. posted |-> i]

\* "IsHealthy returns true if the cluster's last heartbeat is within the TTL": it
\* is true only if the agent collected a report within the TTL, however long a
\* report was under way and whoever's request it came with.
IsHealthy == lastStatus # NoStatus /\ lastStatus <= HeartbeatTTL
HealthyIsTrue == IsHealthy => reportedFor <= HeartbeatTTL

\* An agent that the hub has forgotten (and that never registers again) shows it:
\* while it keeps running, LastError is set, also if its polls succeed.
ForgottenIsNoticed ==
  state = "running" /\ ~registered ~> lastErr \/ registered \/ state # "running"
=============================================================================
