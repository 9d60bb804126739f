----------------------------- MODULE SloFeedback -----------------------------
(***************************************************************************)
(* OptimizerLoop together with what the SLO re-evaluation finds after an   *)
(* applied actuation.  The controller records every applied actuation as   *)
(* improved "for now" and nothing updates that outcome later, so the       *)
(* verdict below reaches no variable of the guard.                         *)
(***************************************************************************)
EXTENDS OptimizerLoop

VARIABLES
  unjudged,     \* services with an applied actuation whose SLO is not re-evaluated
  degradedRun,  \* degradedRun[s]: consecutive actuations judged SLO-degrading
  verdictAge    \* verdictAge[s]: age of the last verdict

feedbackVars == <<unjudged, degradedRun, verdictAge>>
allVars == <<vars, feedbackVars>>

FeedbackInit ==
  /\ Init
  /\ unjudged = {}
  /\ degradedRun = [s \in Service |-> 0]
  /\ verdictAge = [s \in Service |-> Horizon]

\* A step of the loop or its environment; applied leaves a verdict to come.
loopStep ==
  /\ loop
  /\ unjudged' = IF pc' = "recordActuation" THEN unjudged \cup {cur.service} ELSE unjudged
  /\ UNCHANGED <<degradedRun, verdictAge>>

clockStep ==
  /\ tick
  /\ verdictAge' = [s \in Service |-> Older(verdictAge[s])]
  /\ UNCHANGED <<unjudged, degradedRun>>

\* The SLO of s is re-evaluated while no actuation of s is in hand.
sloReevaluated(s, degraded) ==
  /\ s \in unjudged
  /\ ~(pc \in InHand /\ cur.service = s)
  /\ unjudged' = unjudged \ {s}
  /\ degradedRun' = [degradedRun EXCEPT ![s] =
       IF ~degraded THEN 0 ELSE IF @ < MaxStrikes THEN @ + 1 ELSE @]
  /\ verdictAge' = [verdictAge EXCEPT ![s] = 0]
  /\ UNCHANGED vars

FeedbackNext ==
  \/ loopStep
  \/ clockStep
  \/ \E s \in Service, degraded \in BOOLEAN : sloReevaluated(s, degraded)

FeedbackSpec == FeedbackInit /\ [][FeedbackNext]_allVars

\* safety.go says that the breaker "pauses a service for
\* circuitBreakerPauseDuration after circuitBreakerMaxStrikes consecutive
\* SLO-degrading actuations": until a pause has passed since the last of that many
\* degrading verdicts in a row, no actuation of the service reaches Apply.
DegradationOpensBreaker ==
  \A s \in Service :
    degradedRun[s] >= MaxStrikes /\ verdictAge[s] < PauseDuration => ~Attempting(s)
=============================================================================
