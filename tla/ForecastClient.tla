--------------------------- MODULE ForecastClient ---------------------------
(***************************************************************************)
(* The client of the ML service, internal/forecaster/client.go, with its   *)
(* circuit breaker, and the accuracy tracker (accuracy_tracker.go).        *)
(*                                                                         *)
(* The breaker's lock covers isOpen, recordError and recordSuccess, not    *)
(* the request between them: calls overlap.  Time stamps are ages and      *)
(* remaining times in ticks.                                               *)
(***************************************************************************)
EXTENDS Integers, Sequences, FiniteSets, FiniteSetsExt, Functions

CONSTANTS
  Caller,                          \* callers of ForecastDemand and PredictSpotRisk
  MaxErrors, ErrorWindow, Pause,   \* cbMaxErrors, cbWindowDuration, cbPauseDuration
  Deviation,                       \* errors of a prediction in percent of the actual
  ZeroActual,                      \* the error of a prediction whose actual is 0
  Threshold, Sustain, WindowMax,   \* MAPEThreshold, FallbackSustainDuration, accuracyWindowMax
  NoTime

VARIABLES
  errors,     \* ages of the recent errors
  openFor,    \* ticks until openUntil, 0 when closed
  call,       \* per caller: "idle", or the attempt of its request under way
  failures,   \* history: ages below Pause of the failed calls since a success
  records,    \* the tracker's records of one service
  highFor,    \* ticks since highMAPESince, or NoTime
  fallback,   \* sa.fallback
  lastGood    \* history: ticks since the mean error was within the threshold

\* The breaker's pause is shorter than its window.
ASSUME ForecastAssumption ==
  /\ IsFiniteSet(Caller)
  /\ MaxErrors \in Nat \ {0}
  /\ ErrorWindow \in Nat /\ Pause \in 1 .. ErrorWindow
  /\ Sustain \in Nat /\ WindowMax \in Nat
  /\ NoTime \notin Nat

breakerVars == <<errors, openFor, call, failures>>
trackerVars == <<records, highFor, fallback, lastGood>>
forecastVars == <<breakerVars, trackerVars>>

ForecastInit ==
  /\ errors = <<>>
  /\ openFor = 0
  /\ call = [c \in Caller |-> "idle"]
  /\ failures = <<>>
  /\ records = <<>>
  /\ highFor = NoTime
  /\ fallback = FALSE
  /\ lastGood = 0

-----------------------------------------------------------------------------
(* The circuit breaker. *)

isOpen == openFor > 0

\* ForecastDemand and PredictSpotRisk send their request unless the breaker is
\* open; then they return nothing and the caller does without.
SendRequest(c) ==
  /\ call[c] = "idle"
  /\ ~isOpen
  /\ call' = [call EXCEPT ![c] = "first"]
  /\ UNCHANGED <<errors, openFor, failures, trackerVars>>

\* doWithRetry: a network error or a 5xx answer to the first attempt is retried.
RetryRequest(c) ==
  /\ call[c] = "first"
  /\ call' = [call EXCEPT ![c] = "second"]
  /\ UNCHANGED <<errors, openFor, failures, trackerVars>>

\* The loop that keeps what is younger than the limit, in its order.
Within(ages, limit) ==
  LET kept[n \in 0 .. Len(ages)] ==
        IF n = 0 THEN <<>>
        ELSE IF ages[n] < limit THEN Append(kept[n - 1], ages[n]) ELSE kept[n - 1]
  IN  kept[Len(ages)]

\* Mutant: one error more is needed to trip.
recordErrorStrict ==
  LET kept == Append(Within(errors, ErrorWindow), 0)
  IN  /\ errors' = IF Len(kept) > MaxErrors THEN <<>> ELSE kept
      /\ openFor' = IF Len(kept) > MaxErrors THEN Pause ELSE openFor

\* Errors older than the window are dropped; the MaxErrors-th trips the breaker.
recordError ==
  LET kept == Append(Within(errors, ErrorWindow), 0)
  IN  /\ errors' = IF Len(kept) >= MaxErrors THEN <<>> ELSE kept
      /\ openFor' = IF Len(kept) >= MaxErrors THEN Pause ELSE openFor

\* The call fails: for good, or for the second time.
RequestFails(c) ==
  /\ call[c] # "idle"
  /\ recordError
  /\ failures' = Append(failures, 0)
  /\ call' = [call EXCEPT ![c] = "idle"]
  /\ UNCHANGED trackerVars

\* A success closes the breaker, also that of a call which began before it opened.
recordSuccess == errors' = <<>> /\ openFor' = 0

RequestSucceeds(c) ==
  /\ call[c] # "idle"
  /\ recordSuccess
  /\ failures' = <<>>
  /\ call' = [call EXCEPT ![c] = "idle"]
  /\ UNCHANGED trackerVars

-----------------------------------------------------------------------------
(* The accuracy tracker. *)

\* The mean error in percent is above the threshold; predictions of a zero
\* actual do not count, and without any other the mean is 0.
Inaccurate(rs) ==
  LET counted == SelectSeq(rs, LAMBDA e : e # ZeroActual)
  IN  SumFunction(counted) > Threshold * Len(counted)

recompute(rs) ==
  IF Inaccurate(rs)
  THEN LET since == IF highFor = NoTime THEN 0 ELSE highFor
       IN  highFor' = since /\ fallback' = (fallback \/ since >= Sustain)
  ELSE highFor' = NoTime /\ fallback' = FALSE

Record(e) ==
  /\ LET all == Append(records, e)
     IN  records' = IF Len(all) > WindowMax THEN Tail(all) ELSE all
  /\ recompute(records')
  /\ lastGood' = IF Inaccurate(records') THEN lastGood ELSE 0
  /\ UNCHANGED breakerVars

\* Reset forgets the service.
ResetTracker ==
  /\ records' = <<>>
  /\ highFor' = NoTime
  /\ fallback' = FALSE
  /\ lastGood' = 0
  /\ UNCHANGED breakerVars

-----------------------------------------------------------------------------
Aged(ages, limit) == Within([i \in DOMAIN ages |-> ages[i] + 1], limit)

PassTime ==
  /\ errors' = [i \in DOMAIN errors |-> Min({errors[i] + 1, ErrorWindow})]
  /\ openFor' = IF openFor > 0 THEN openFor - 1 ELSE 0
  /\ failures' = Aged(failures, Pause)
  /\ highFor' = IF highFor = NoTime THEN NoTime ELSE Min({highFor + 1, Sustain})
  /\ lastGood' = Min({lastGood + 1, Sustain})
  /\ UNCHANGED <<call, records, fallback>>

ForecastNext ==
  \/ \E c \in Caller : \/ SendRequest(c)
                       \/ RetryRequest(c)
                       \/ RequestFails(c)
                       \/ RequestSucceeds(c)
  \/ \E e \in Deviation \cup {ZeroActual} : Record(e)
  \/ ResetTracker
  \/ PassTime

ForecastTypeOK ==
  /\ Len(errors) < MaxErrors
  /\ \A i \in DOMAIN errors : errors[i] \in 0 .. ErrorWindow
  /\ openFor \in 0 .. Pause
  /\ call \in [Caller -> {"idle", "first", "second"}]
  /\ Len(records) <= WindowMax
  /\ highFor \in 0 .. Sustain \cup {NoTime}

\* Until a call succeeds, at most MaxErrors calls, and those already under way
\* when the breaker opened, fail in any time as long as the pause; and the
\* tracker falls back only after the mean error was above the threshold for the
\* sustained time (recordError, recompute).
MLGuarded ==
  /\ Len(failures) <= MaxErrors + Cardinality(Caller) - 1
  /\ fallback => lastGood >= Sustain
=============================================================================
