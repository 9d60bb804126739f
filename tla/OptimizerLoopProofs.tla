------------------------- MODULE OptimizerLoopProofs -------------------------
(***************************************************************************)
(* Proofs, for every value of the constants, of the invariants of          *)
(* OptimizerLoop: type correctness, then one inductive invariant for each  *)
(* of the guard's three checks.                                            *)
(***************************************************************************)
EXTENDS OptimizerLoop, TLAPS

USE MaxStrikesAssumption, DurationAssumption, LoopAssumption

\* What the rate limiter remembers is at least as recent as what happened, except
\* between an applied actuation and its recording; and from the cooldown check
\* on, the last applied actuation is old enough.
CooldownInv ==
  /\ \A s \in Service \ forgotten :
       \/ cooldowns[s] <= sinceApplied[s]
       \/ pc = "recordActuation" /\ cur.service = s
  /\ pc \in {"circuit", "apply"} /\ cur.service \notin forgotten =>
       sinceApplied[cur.service] >= cur.cooldownSeconds

Strikes(s) == circuits[s].consecutiveStrikes

\* An Apply error of s that the breaker does not know of yet.
Unrecorded(s) == pc = "recordDegraded" /\ cur.service = s

\* The i-th last error of s is a whole pause old, or older than the last restart.
Spent(s, i) == i <= sinceStart[s] => fails[s][i] >= PauseDuration

\* A breaker with k < MaxStrikes strikes has seen the last k errors, and the
\* error before those is a whole pause old or forgotten; a tripped one still has at
\* least as much pause left as the newest error lacks.
CountsErrors(s) ==
  /\ Strikes(s) <= MaxStrikes
  /\ \A i, j \in 1 .. MaxStrikes : i <= j => fails[s][i] <= fails[s][j]
  /\ ~Unrecorded(s) /\ Strikes(s) < MaxStrikes => Spent(s, Strikes(s) + 1)
  /\ ~Unrecorded(s) /\ Strikes(s) = MaxStrikes =>
       fails[s][1] + circuits[s].pauseLeft >= PauseDuration
  /\ Unrecorded(s) => Strikes(s) < MaxStrikes
  /\ Unrecorded(s) /\ Strikes(s) + 1 < MaxStrikes => Spent(s, Strikes(s) + 2)

BreakerInv ==
  /\ \A s \in Service : CountsErrors(s)
  /\ pc = "apply" => Strikes(cur.service) < MaxStrikes
  /\ pc \in {"recordActuation", "recordImproved"} =>
       fails[cur.service][1] >= PauseDuration

\* A switch held since Allow was entered is on, and once its read is behind the
\* loop only a failed read explains it.
StopInv ==
  /\ pc \in InHand /\ "namespace" \in stopHeld => nsPaused[NamespaceOf[cur.service]]
  /\ "global" \in stopHeld => globalPaused
  /\ pc = "stopGlobal" /\ "namespace" \in stopHeld => readFailed
  /\ pc \in {"cooldown", "circuit", "apply"} /\ stopHeld # {} => readFailed

-----------------------------------------------------------------------------
(* Facts about the helpers. *)

\* Ageing keeps the order of two ages and never makes one younger.
LEMMA OlderFacts ==
  ASSUME NEW a \in Age
  PROVE  /\ Older(a) \in Age
         /\ Older(a) >= a
         /\ Older(a) >= a + 1 \/ Older(a) = Horizon
         /\ \A b \in Age : a <= b => Older(a) <= Older(b)
BY DEF Older, Age

\* The largest matching cooldown of the matched policies is a duration.
LEMMA OptionsType ==
  ASSUME NEW type \in ActionType, NEW policies \in SUBSET Policy, NEW c,
         buildActuationOptions(c, type, policies)
  PROVE  c \in Age
<1>1. CASE c = 0
  BY <1>1 DEF Age
<1>2. CASE c \in CooldownRules(type, policies)
  <2>1. type \in {"scale_up", "scale_down"}
    BY <1>2, Zenon DEF CooldownRules, ActionType
  <2>2. PICK p \in policies : c = p[type]
    BY <1>2, <2>1, Zenon DEF CooldownRules
  <2>3. p \in ScalingRule
    BY Zenon
  <2> QED
    BY <2>1, <2>2, <2>3, Zenon DEF ScalingRule
<1> QED
  BY <1>1, <1>2, Zenon DEF buildActuationOptions

LEMMA AgeEnds == 0 \in Age /\ Horizon \in Age
BY DEF Age

LEMMA StrikeEnds == 0 \in 0 .. MaxStrikes
OBVIOUS

LEMMA NeverType == never \in [1 .. MaxStrikes -> Age]
BY DEF never, Age

LEMMA NoCircuitType == noCircuit \in CircuitEntry
BY DEF noCircuit, CircuitEntry

-----------------------------------------------------------------------------
(* Type correctness. *)

\* Every variable keeps its type through every step of the loop, the guard and
\* their environment.
THEOREM TypeCorrect == Spec => []TypeOK
<1>1. Init => TypeOK
  BY NeverType, NoCircuitType, AgeEnds, StrikeEnds, ZenonT(30)
  DEF Init, TypeOK, GuardTypeOK, NewSafetyGuard, Step, InHand, Recording
<1>2. TypeOK /\ [Next]_vars => TypeOK'
  <2> SUFFICES ASSUME TypeOK, [Next]_vars PROVE TypeOK'
    BY Zenon
  <2> USE DEF TypeOK
  <2>1. CASE runOptimizationCycle
    BY <2>1, Zenon DEF runOptimizationCycle, guardVars, envVars, applyHistory, stopHistory, GuardTypeOK, Step, InHand, Recording
  <2>2. CASE endOfCycle
    BY <2>2, Zenon DEF endOfCycle, guardVars, envVars, applyHistory, stopHistory, GuardTypeOK, Step, InHand, Recording
  <2>3. ASSUME NEW so \in Objective, optimizeService(so) PROVE TypeOK'
    <3>1. cur' \in Actuation
      BY <2>3, OptionsType DEF optimizeService, Actuation
    <3> QED
      BY <2>3, <3>1, Zenon DEF optimizeService, guardVars, envVars, applyHistory, GuardTypeOK, Step, Switch
  <2>4. ASSUME NEW so \in Objective, skipService(so) PROVE TypeOK'
    BY <2>4, Zenon DEF skipService, guardVars, envVars, applyHistory, stopHistory, GuardTypeOK
  <2>5. CASE checkNamespacePause
    BY <2>5, Zenon DEF checkNamespacePause, done, goto, readError, guardVars, envVars, applyHistory, stopHistory, GuardTypeOK, Step, InHand, Recording
  <2>6. CASE checkGlobalPause
    BY <2>6, Zenon DEF checkGlobalPause, done, goto, readError, guardVars, envVars, applyHistory, stopHistory, GuardTypeOK, Step, InHand, Recording
  <2>7. CASE checkCooldown
    BY <2>7, Zenon DEF checkCooldown, done, goto, guardVars, envVars, applyHistory, stopHistory, GuardTypeOK, Step, InHand, Recording
  <2>8. CASE checkCircuit
    BY <2>8, NoCircuitType, Zenon DEF checkCircuit, CheckCircuit, done, goto, envVars, applyHistory, stopHistory, GuardTypeOK, Step, InHand, Recording
  <2>9. CASE applied
    BY <2>9, NeverType, AgeEnds, StrikeEnds, Zenon DEF applied, goto, guardVars, envVars, stopHistory, GuardTypeOK, Step, InHand, Recording, Actuation
  <2>10. CASE notApplied
    BY <2>10, Zenon DEF notApplied, done, guardVars, envVars, applyHistory, GuardTypeOK, Step, InHand, Recording
  <2>11. CASE applyFailed
    <3>1. \A s \in Service : Push(fails[s]) \in [1 .. MaxStrikes -> Age]
      BY DEF Push, Age
    <3>2. sinceStart' \in [Service -> 0 .. MaxStrikes]
      <4>1. \A n \in 0 .. MaxStrikes : (IF n < MaxStrikes THEN n + 1 ELSE n) \in 0 .. MaxStrikes
        OBVIOUS
      <4> QED
        BY <2>11, <4>1, Zenon DEF applyFailed
    <3> QED
      BY <2>11, <3>1, <3>2, Zenon DEF applyFailed, goto, guardVars, envVars, stopHistory, GuardTypeOK, Step, InHand, Recording
  <2>12. CASE recordActuation
    BY <2>12, AgeEnds, Zenon DEF recordActuation, RecordActuation, goto, envVars, applyHistory, stopHistory, GuardTypeOK, Step, InHand, Recording, Actuation
  <2>13. CASE recordImproved
    BY <2>13, NoCircuitType, Zenon DEF recordImproved, RecordImproved, done, envVars, applyHistory, GuardTypeOK, Step, InHand, Recording
  <2>14. CASE recordDegraded
    <3>1. circuits' \in [Service -> CircuitEntry]
      BY <2>14 DEF recordDegraded, RecordDegraded, GuardTypeOK, CircuitEntry, Actuation, InHand, Recording
    <3> QED
      BY <2>14, <3>1, Zenon DEF recordDegraded, done, envVars, applyHistory, GuardTypeOK, Step, InHand, Recording
  <2>15. CASE tick
    <3>1. cooldowns' \in [Service -> Age] /\ sinceApplied' \in [Service -> Age]
      BY <2>15, OlderFacts, Zenon DEF tick, GuardTick, GuardTypeOK
    <3>2. fails' \in [Service -> [1 .. MaxStrikes -> Age]]
      BY <2>15, OlderFacts, Zenon DEF tick
    <3>3. circuits' \in [Service -> CircuitEntry]
      BY <2>15 DEF tick, GuardTick, GuardTypeOK, CircuitEntry
    <3> QED
      BY <2>15, <3>1, <3>2, <3>3, Zenon DEF tick, envVars, stopHistory, GuardTypeOK
  <2>16. ASSUME NEW s \in Service, IsCircuitOpen(s) PROVE TypeOK'
    BY <2>16, NoCircuitType, Zenon DEF IsCircuitOpen, CheckCircuit, envVars, applyHistory, stopHistory, GuardTypeOK
  <2>17. ASSUME NEW n \in Namespace, NEW on \in BOOLEAN, setNamespacePause(n, on) PROVE TypeOK'
    BY <2>17, Zenon DEF setNamespacePause, guardVars, applyHistory, GuardTypeOK
  <2>18. ASSUME NEW on \in BOOLEAN, setGlobalPause(on) PROVE TypeOK'
    BY <2>18, Zenon DEF setGlobalPause, guardVars, applyHistory, GuardTypeOK
  <2>19. CASE restart
    BY <2>19, StrikeEnds, NoCircuitType, AgeEnds, Zenon DEF restart, envVars, GuardTypeOK, Step, InHand, Recording
  <2>20. CASE UNCHANGED vars
    BY <2>20, Zenon DEF vars, GuardTypeOK
  <2> QED
    BY <2>1, <2>2, <2>3, <2>4, <2>5, <2>6, <2>7, <2>8, <2>9, <2>10, <2>11, <2>12,
       <2>13, <2>14, <2>15, <2>16, <2>17, <2>18, <2>19, <2>20, Zenon
    DEF Next, loop, environment
<1> QED
  BY <1>1, <1>2, PTL DEF Spec
-----------------------------------------------------------------------------
(* The rate limiter. *)

\* Within one run of the process no actuation of a service reaches Apply earlier
\* than its cooldown after the last applied one.
THEOREM CooldownHolds == Spec => []CooldownRespected
<1>1. Init => CooldownInv
  BY DEF Init, NewSafetyGuard, CooldownInv, Age
<1>2. TypeOK /\ CooldownInv /\ [Next]_vars => CooldownInv'
  <2> SUFFICES ASSUME TypeOK, CooldownInv, [Next]_vars PROVE CooldownInv'
    BY Zenon
  <2> USE DEF CooldownInv, TypeOK, GuardTypeOK, Actuation, InHand, Recording, Age
  <2>1. CASE runOptimizationCycle
    BY <2>1, Zenon DEF runOptimizationCycle, guardVars, applyHistory, stopHistory
  <2>2. CASE endOfCycle
    BY <2>2, Zenon DEF endOfCycle, guardVars, applyHistory, stopHistory
  <2>3. ASSUME NEW so \in Objective, optimizeService(so) PROVE CooldownInv'
    BY <2>3, Zenon DEF optimizeService, guardVars, applyHistory, stopHistory
  <2>4. ASSUME NEW so \in Objective, skipService(so) PROVE CooldownInv'
    BY <2>4, Zenon DEF skipService, guardVars, applyHistory, stopHistory
  <2>5. CASE checkNamespacePause
    BY <2>5, Zenon DEF checkNamespacePause, done, goto, readError, guardVars, applyHistory, stopHistory
  <2>6. CASE checkGlobalPause
    BY <2>6, Zenon DEF checkGlobalPause, done, goto, readError, guardVars, applyHistory, stopHistory
  <2>7. CASE checkCooldown
    BY <2>7 DEF checkCooldown, done, goto, CooldownActive, guardVars, applyHistory, stopHistory
  <2>8. CASE checkCircuit
    BY <2>8, Zenon DEF checkCircuit, done, goto, guardVars, applyHistory, stopHistory
  <2>9. CASE applied
    BY <2>9, Zenon DEF applied, goto, guardVars, applyHistory, stopHistory
  <2>10. CASE notApplied
    BY <2>10, Zenon DEF notApplied, done, guardVars, applyHistory, stopHistory
  <2>11. CASE applyFailed
    BY <2>11, Zenon DEF applyFailed, goto, guardVars, applyHistory, stopHistory
  <2>12. CASE recordActuation
    BY <2>12 DEF recordActuation, RecordActuation, goto, guardVars, applyHistory, stopHistory
  <2>13. CASE recordImproved
    BY <2>13, Zenon DEF recordImproved, done, guardVars, applyHistory, stopHistory
  <2>14. CASE recordDegraded
    BY <2>14, Zenon DEF recordDegraded, done, guardVars, applyHistory, stopHistory
  <2>15. CASE tick
    <3>1. \A s \in Service : /\ cooldowns[s] \in Age /\ cooldowns'[s] = Older(cooldowns[s])
                             /\ sinceApplied[s] \in Age /\ sinceApplied'[s] = Older(sinceApplied[s])
      BY <2>15, Zenon DEF tick, GuardTick
    <3>2. \A s \in Service : /\ sinceApplied'[s] >= sinceApplied[s] /\ sinceApplied'[s] \in Age
                             /\ cooldowns[s] <= sinceApplied[s] => cooldowns'[s] <= sinceApplied'[s]
      <4> TAKE s \in Service
      <4>1. /\ cooldowns[s] \in Age /\ cooldowns'[s] = Older(cooldowns[s])
            /\ sinceApplied[s] \in Age /\ sinceApplied'[s] = Older(sinceApplied[s])
        BY <3>1, Zenon
      <4> HIDE DEF TypeOK, CooldownInv
      <4> QED
        BY <4>1, OlderFacts, Zenon
    <3>3. UNCHANGED <<pc, cur, forgotten>>
      BY <2>15, Zenon DEF tick
    <3>4. \A s \in Service \ forgotten :
            \/ cooldowns'[s] <= sinceApplied'[s]
            \/ pc = "recordActuation" /\ cur.service = s
      BY <3>2, Zenon
    <3>5. ASSUME pc \in {"circuit", "apply"}, cur.service \notin forgotten
          PROVE  sinceApplied'[cur.service] >= cur.cooldownSeconds
      <4>1. /\ cur.service \in Service /\ cur.cooldownSeconds \in Age
            /\ sinceApplied[cur.service] >= cur.cooldownSeconds
        BY <3>5, Zenon
      <4>2. /\ sinceApplied[cur.service] \in Age /\ sinceApplied'[cur.service] \in Age
            /\ sinceApplied'[cur.service] >= sinceApplied[cur.service]
        BY <3>1, <3>2, <4>1, Zenon
      <4> HIDE DEF TypeOK, CooldownInv
      <4> QED
        BY <4>1, <4>2, DurationAssumption
    <3> QED
      BY <3>3, <3>4, <3>5, Zenon
  <2>16. ASSUME NEW s \in Service, IsCircuitOpen(s) PROVE CooldownInv'
    BY <2>16, Zenon DEF IsCircuitOpen, guardVars, applyHistory, stopHistory
  <2>17. ASSUME NEW n \in Namespace, NEW on \in BOOLEAN, setNamespacePause(n, on) PROVE CooldownInv'
    BY <2>17, Zenon DEF setNamespacePause, guardVars, applyHistory, stopHistory
  <2>18. ASSUME NEW on \in BOOLEAN, setGlobalPause(on) PROVE CooldownInv'
    BY <2>18, Zenon DEF setGlobalPause, guardVars, applyHistory, stopHistory
  <2>19. CASE restart
    BY <2>19, Zenon DEF restart, guardVars, applyHistory, stopHistory
  <2>20. CASE UNCHANGED vars
    BY <2>20, Zenon DEF vars, guardVars, applyHistory, stopHistory
  <2> QED
    BY <2>1, <2>2, <2>3, <2>4, <2>5, <2>6, <2>7, <2>8, <2>9, <2>10, <2>11,
       <2>12, <2>13, <2>14, <2>15, <2>16, <2>17, <2>18, <2>19, <2>20, ZenonT(30)
    DEF Next, loop, environment
<1>3. CooldownInv /\ TypeOK => CooldownRespected
  BY Zenon DEF CooldownInv, CooldownRespected
<1> QED
  BY <1>1, <1>2, <1>3, TypeCorrect, PTL DEF Spec
-----------------------------------------------------------------------------
(* The circuit breaker. *)

\* CheckCircuit either leaves the entries alone or deletes one whose service has
\* no error younger than a pause.
LEMMA CheckCircuitEffect ==
  ASSUME TypeOK, BreakerInv, NEW s \in Service, CheckCircuit(s)
  PROVE  /\ \A x \in Service :
              \/ circuits'[x] = circuits[x]
              \/ /\ circuits'[x] = noCircuit
                 /\ ~Unrecorded(x)
                 /\ fails[x][1] >= PauseDuration
         /\ ~CircuitOpen(s) => circuits'[s].consecutiveStrikes < MaxStrikes
<1>1. /\ circuits[s].consecutiveStrikes \in Nat
      /\ circuits[s].pauseLeft \in 0 .. PauseDuration
      /\ fails[s] \in [1 .. MaxStrikes -> Age]
      /\ circuits \in [Service -> CircuitEntry]
  BY Zenon DEF TypeOK, GuardTypeOK, CircuitEntry
<1>2. CASE Tripped(s) /\ ~CircuitOpen(s)
  <2>1. Strikes(s) = MaxStrikes /\ circuits[s].pauseLeft = 0 /\ ~Unrecorded(s)
    BY <1>1, <1>2 DEF Tripped, CircuitOpen, BreakerInv, CountsErrors, Strikes
  <2>2. fails[s][1] >= PauseDuration
    BY <1>1, <2>1 DEF BreakerInv, CountsErrors, Age
  <2>3. circuits' = [circuits EXCEPT ![s] = noCircuit]
    BY <1>2, Zenon DEF CheckCircuit
  <2> QED
    BY <1>1, <2>1, <2>2, <2>3 DEF noCircuit
<1>3. CASE ~(Tripped(s) /\ ~CircuitOpen(s))
  BY <1>1, <1>3 DEF CheckCircuit, Tripped, CircuitOpen
<1> QED
  BY <1>2, <1>3, Zenon

\* A step that keeps the errors and the recording state of a service, and its
\* breaker entry or resets it when that is due, keeps CountsErrors.
LEMMA CountsErrorsKept ==
  ASSUME TypeOK, NEW x \in Service, CountsErrors(x),
         fails'[x] = fails[x], sinceStart'[x] = sinceStart[x],
         Unrecorded(x)' <=> Unrecorded(x),
         \/ circuits'[x] = circuits[x]
         \/ circuits'[x] = noCircuit /\ ~Unrecorded(x) /\ fails[x][1] >= PauseDuration
  PROVE  CountsErrors(x)'
<1>1. CASE circuits'[x] = circuits[x]
  BY <1>1, Zenon DEF CountsErrors, Spent, Strikes
<1>2. CASE circuits'[x] = noCircuit /\ ~Unrecorded(x) /\ fails[x][1] >= PauseDuration
  <2>1. Strikes(x)' = 0
    BY <1>2 DEF Strikes, noCircuit
  <2> QED
    BY <1>2, <2>1 DEF CountsErrors, Spent
<1> QED
  BY <1>1, <1>2, Zenon

\* MaxStrikes + 1 Apply errors in a row of one service, all within one run of the
\* process, span a whole pause.
THEOREM BreakerHolds == Spec => []FailuresSpaced
<1>1. Init => BreakerInv
  BY DEF Init, NewSafetyGuard, BreakerInv, CountsErrors, Spent, Strikes, Unrecorded, noCircuit, never
<1>2. TypeOK /\ BreakerInv /\ [Next]_vars => BreakerInv'
  <2> SUFFICES ASSUME TypeOK, BreakerInv, [Next]_vars PROVE BreakerInv'
    BY Zenon
  <2> USE DEF BreakerInv, TypeOK, Actuation, InHand, Recording
  \* A step that leaves the breakers and the errors alone and does not enter or
  \* leave the steps from Apply on.
  <2> DEFINE Late == {"apply", "recordActuation", "recordImproved", "recordDegraded"}
  <2>0. ASSUME UNCHANGED <<circuits, fails, sinceStart>>,
               UNCHANGED <<pc, cur>> \/ (pc' \notin Late /\ pc # "recordDegraded")
        PROVE  BreakerInv'
    <3>1. \A x \in Service : CountsErrors(x)'
      BY <2>0, CountsErrorsKept, Zenon DEF Unrecorded
    <3> QED
      BY <2>0, <3>1, Zenon DEF Strikes
  <2>1. CASE runOptimizationCycle
    BY <2>1, <2>0, Zenon DEF runOptimizationCycle, guardVars, applyHistory, stopHistory
  <2>2. CASE endOfCycle
    BY <2>2, <2>0, Zenon DEF endOfCycle, guardVars, applyHistory, stopHistory
  <2>3. ASSUME NEW so \in Objective, optimizeService(so) PROVE BreakerInv'
    BY <2>3, <2>0, Zenon DEF optimizeService, guardVars, applyHistory, stopHistory
  <2>4. ASSUME NEW so \in Objective, skipService(so) PROVE BreakerInv'
    BY <2>4, <2>0, Zenon DEF skipService, guardVars, applyHistory, stopHistory
  <2>5. CASE checkNamespacePause
    BY <2>5, <2>0, Zenon DEF checkNamespacePause, done, goto, readError, guardVars, applyHistory, stopHistory
  <2>6. CASE checkGlobalPause
    BY <2>6, <2>0, Zenon DEF checkGlobalPause, done, goto, readError, guardVars, applyHistory, stopHistory
  <2>7. CASE checkCooldown
    BY <2>7, <2>0, Zenon DEF checkCooldown, done, goto, guardVars, applyHistory, stopHistory
  <2>8. CASE checkCircuit
    <3>1. \A x \in Service : CountsErrors(x)'
      BY <2>8, CheckCircuitEffect, CountsErrorsKept, ZenonT(30) DEF checkCircuit, done, goto, applyHistory, Unrecorded
    <3>2. pc' = "apply" => Strikes(cur.service)' < MaxStrikes
      BY <2>8, CheckCircuitEffect, Zenon DEF checkCircuit, done, goto, Strikes, stopHistory
    <3> QED
      BY <2>8, <3>1, <3>2, Zenon DEF checkCircuit, done, goto, stopHistory, Strikes
  <2>9. CASE applied
    <3>1. /\ fails' = [fails EXCEPT ![cur.service] = never]
          /\ sinceStart' = [sinceStart EXCEPT ![cur.service] = 0]
          /\ circuits' = circuits /\ cur' = cur /\ pc' = "recordActuation"
          /\ pc = "apply"
      BY <2>9, Zenon DEF applied, goto, guardVars, stopHistory
    <3>2. \A x \in Service : CountsErrors(x)'
      <4> SUFFICES ASSUME NEW x \in Service PROVE CountsErrors(x)'
        BY Zenon
      <4>1. CASE x = cur.service
        <5>1. fails'[x] = never /\ ~Unrecorded(x)' /\ Strikes(x)' = Strikes(x) /\ Strikes(x) < MaxStrikes
          BY <3>1, <4>1, <2>9 DEF applied, Unrecorded, Strikes
        <5>2. Strikes(x) \in Nat
          BY Zenon DEF Strikes, GuardTypeOK, CircuitEntry
        <5> QED
          BY <5>1, <5>2 DEF CountsErrors, Spent, never
      <4>2. CASE x # cur.service
        BY <3>1, <4>2, CountsErrorsKept, Zenon DEF Unrecorded
      <4> QED
        BY <4>1, <4>2, Zenon
    <3>3. fails'[cur'.service][1] >= PauseDuration
      BY <3>1 DEF never
    <3> QED
      BY <3>1, <3>2, <3>3, Zenon
  <2>10. CASE notApplied
    BY <2>10, <2>0, Zenon DEF notApplied, done, guardVars, applyHistory, stopHistory
  <2>11. CASE applyFailed
    <3>1. /\ fails' = [fails EXCEPT ![cur.service] = Push(fails[cur.service])]
          /\ sinceStart' = [sinceStart EXCEPT ![cur.service] =
                              IF sinceStart[cur.service] < MaxStrikes
                              THEN sinceStart[cur.service] + 1 ELSE sinceStart[cur.service]]
          /\ circuits' = circuits /\ cur' = cur /\ pc' = "recordDegraded"
          /\ pc = "apply"
      BY <2>11, Zenon DEF applyFailed, goto, guardVars, stopHistory
    <3>2. \A x \in Service : CountsErrors(x)'
      <4> TAKE x \in Service
      <4>1. CASE x = cur.service
        <5> DEFINE old == fails[x]  k == Strikes(x)  n == sinceStart[x]
        <5>1. /\ fails'[x] = Push(old) /\ old \in [1 .. MaxStrikes -> Age]
              /\ Unrecorded(x)' /\ ~Unrecorded(x) /\ Strikes(x)' = k
              /\ k < MaxStrikes /\ k \in Nat
              /\ n \in 0 .. MaxStrikes /\ sinceStart'[x] = IF n < MaxStrikes THEN n + 1 ELSE n
          BY <3>1, <4>1, Zenon DEF Unrecorded, Strikes, GuardTypeOK, CircuitEntry
        <5>2. \A i, j \in 1 .. MaxStrikes : i <= j => Push(old)[i] <= Push(old)[j]
          <6>1. \A i, j \in 1 .. MaxStrikes : i <= j => old[i] <= old[j]
            BY Zenon DEF CountsErrors
          <6>2. \A i \in 1 .. MaxStrikes : Push(old)[i] = IF i = 1 THEN 0 ELSE old[i - 1]
            BY Zenon DEF Push
          <6>3. \A i \in 1 .. MaxStrikes : Push(old)[i] \in Age
            <7> TAKE i \in 1 .. MaxStrikes
            <7>1. CASE i = 1
              BY <6>2, <7>1 DEF Age
            <7>2. CASE i # 1
              <8>1. i - 1 \in 1 .. MaxStrikes
                BY <7>2
              <8> QED
                BY <5>1, <6>2, <7>2, <8>1, ZenonT(30)
            <7> QED
              BY <7>1, <7>2, Zenon
          <6> HIDE DEF TypeOK, BreakerInv
          <6> TAKE i, j \in 1 .. MaxStrikes
          <6> HAVE i <= j
          <6>4. CASE i = 1
            BY <6>2, <6>3, <6>4 DEF Age
          <6>5. CASE i # 1
            <7>1. i - 1 \in 1 .. MaxStrikes /\ j - 1 \in 1 .. MaxStrikes /\ j # 1
              BY <6>5
            <7> QED
              BY <6>1, <6>2, <6>5, <7>1
          <6> QED
            BY <6>4, <6>5, Zenon
        <5>3. k + 1 < MaxStrikes /\ k + 2 <= sinceStart'[x] => Push(old)[k + 2] >= PauseDuration
          <6> SUFFICES ASSUME k + 1 < MaxStrikes, k + 2 <= sinceStart'[x]
                       PROVE  Push(old)[k + 2] >= PauseDuration
            BY Zenon
          <6>1. Push(old)[k + 2] = old[k + 1]
            BY <5>1, SMTT(30) DEF Push
          <6>2. Spent(x, k + 1)
            BY <5>1, Zenon DEF CountsErrors
          <6>3. k + 1 <= n
            <7> HIDE DEF TypeOK, BreakerInv, n, k
            <7> QED
              BY <5>1, MaxStrikesAssumption
          <6> QED
            BY <6>1, <6>2, <6>3, Zenon DEF Spent
        <5> HIDE DEF old, k, n
        <5> QED
          BY <5>1, <5>2, <5>3 DEF CountsErrors, Spent
      <4>2. CASE x # cur.service
        BY <3>1, <4>2, CountsErrorsKept, Zenon DEF Unrecorded
      <4> QED
        BY <4>1, <4>2, Zenon
    <3> QED
      BY <3>1, <3>2, Zenon
  <2>12. CASE recordActuation
    <3>1. UNCHANGED <<circuits, fails, sinceStart, cur>> /\ pc = "recordActuation" /\ pc' = "recordImproved"
      BY <2>12, Zenon DEF recordActuation, goto, applyHistory, stopHistory
    <3>2. \A x \in Service : CountsErrors(x)'
      BY <3>1, CountsErrorsKept, Zenon DEF Unrecorded
    <3> QED
      BY <3>1, <3>2, Zenon
  <2>13. CASE recordImproved
    <3>1. /\ circuits' = [circuits EXCEPT ![cur.service] = noCircuit]
          /\ UNCHANGED <<fails, sinceStart>> /\ pc = "recordImproved" /\ pc' = "cycle"
      BY <2>13, Zenon DEF recordImproved, RecordImproved, done, applyHistory
    <3>2. \A x \in Service : CountsErrors(x)'
      BY <3>1, CountsErrorsKept, Zenon DEF Unrecorded, GuardTypeOK
    <3> QED
      BY <3>1, <3>2, Zenon
  <2>14. CASE recordDegraded
    <3> DEFINE c == cur.service
    <3>1. /\ circuits' = [circuits EXCEPT ![c] =
                [consecutiveStrikes |-> Strikes(c) + 1,
                 pauseLeft |-> IF Strikes(c) + 1 >= MaxStrikes THEN PauseDuration
                               ELSE circuits[c].pauseLeft]]
          /\ UNCHANGED <<fails, sinceStart>> /\ pc = "recordDegraded" /\ pc' = "cycle"
      BY <2>14, Zenon DEF recordDegraded, RecordDegraded, done, applyHistory, Strikes, GuardTypeOK
    <3>2. \A x \in Service : CountsErrors(x)'
      <4> TAKE x \in Service
      <4>1. CASE x = c
        <5>1. /\ Strikes(x)' = Strikes(x) + 1 /\ Strikes(x) \in Nat
              /\ Strikes(x) + 1 >= MaxStrikes => circuits'[x].pauseLeft = PauseDuration
              /\ fails'[x] = fails[x] /\ fails[x] \in [1 .. MaxStrikes -> Age]
              /\ sinceStart'[x] = sinceStart[x]
          BY <3>1, <4>1, Zenon DEF Strikes, GuardTypeOK, CircuitEntry
        <5>2. Unrecorded(x) /\ ~Unrecorded(x)'
          BY <3>1, <4>1, Zenon DEF Unrecorded
        <5>3. CountsErrors(x)
          BY Zenon
        <5>4. Strikes(x) < MaxStrikes /\ (Strikes(x) + 1 < MaxStrikes => Spent(x, Strikes(x) + 2))
          BY <5>2, <5>3, ZenonT(30) DEF CountsErrors
        <5>5. Strikes(x) + 1 = MaxStrikes => fails'[x][1] + circuits'[x].pauseLeft >= PauseDuration
          BY <5>1 DEF Age
        <5>6. \A i, j \in 1 .. MaxStrikes : i <= j => fails'[x][i] <= fails'[x][j]
          BY <5>1, <5>3, Zenon DEF CountsErrors
        <5>7. Strikes(x) + 1 < MaxStrikes => Spent(x, Strikes(x) + 1)'
          <6>1. Strikes(x)' + 1 = Strikes(x) + 2
            BY <5>1
          <6> QED
            BY <5>1, <5>4, <6>1, Zenon DEF Spent
        <5> HIDE DEF TypeOK, BreakerInv
        <5> QED
          BY <5>1, <5>2, <5>4, <5>5, <5>6, <5>7 DEF CountsErrors
      <4>2. CASE x # c
        BY <3>1, <4>2, CountsErrorsKept, Zenon DEF Unrecorded, GuardTypeOK
      <4> QED
        BY <4>1, <4>2, Zenon
    <3> QED
      BY <3>1, <3>2, Zenon
  <2>15. CASE tick
    <3>1. UNCHANGED <<pc, cur, sinceStart>>
      BY <2>15, Zenon DEF tick
    <3>2. \A x \in Service :
            /\ circuits'[x].consecutiveStrikes = circuits[x].consecutiveStrikes
            /\ circuits'[x].pauseLeft = IF circuits[x].pauseLeft > 0 THEN circuits[x].pauseLeft - 1 ELSE 0
            /\ \A i \in 1 .. MaxStrikes : fails'[x][i] = Older(fails[x][i])
      BY <2>15, ZenonT(90)  DEF tick, GuardTick, GuardTypeOK, CircuitEntry
    <3>3. \A x \in Service : \A i \in 1 .. MaxStrikes :
            /\ fails[x][i] \in Age /\ fails'[x][i] \in Age
            /\ fails'[x][i] >= fails[x][i]
            /\ fails'[x][i] >= fails[x][i] + 1 \/ fails'[x][i] = Horizon
      BY <3>2, OlderFacts
    <3>4. \A x \in Service : CountsErrors(x)'
      <4> TAKE x \in Service
      <4>1. Strikes(x)' = Strikes(x) /\ Strikes(x) \in Nat /\ (Unrecorded(x)' <=> Unrecorded(x))
        BY <3>1, <3>2, Zenon DEF Strikes, Unrecorded, GuardTypeOK, CircuitEntry
      <4>2. \A i, j \in 1 .. MaxStrikes : i <= j => fails'[x][i] <= fails'[x][j]
        <5> SUFFICES ASSUME NEW i \in 1 .. MaxStrikes, NEW j \in 1 .. MaxStrikes, i <= j
                     PROVE  fails'[x][i] <= fails'[x][j]
          BY Zenon
        <5>1. fails[x][i] <= fails[x][j]
          BY Zenon DEF CountsErrors
        <5>2. fails[x][i] \in Age /\ fails[x][j] \in Age
          BY <3>3, Zenon
        <5>3. fails'[x][i] = Older(fails[x][i]) /\ fails'[x][j] = Older(fails[x][j])
          BY <3>2, Zenon
        <5> HIDE DEF TypeOK, BreakerInv
        <5> QED
          BY <5>1, <5>2, <5>3 DEF Older, Age
      <4>3. Strikes(x) = MaxStrikes /\ ~Unrecorded(x) =>
              fails'[x][1] + circuits'[x].pauseLeft >= PauseDuration
        <5> SUFFICES ASSUME Strikes(x) = MaxStrikes, ~Unrecorded(x)
                     PROVE  fails'[x][1] + circuits'[x].pauseLeft >= PauseDuration
          BY Zenon
        <5>1. fails[x][1] + circuits[x].pauseLeft >= PauseDuration
          BY Zenon DEF CountsErrors
        <5>2. circuits[x].pauseLeft \in Nat
          BY DEF GuardTypeOK, CircuitEntry
        <5>3. /\ fails[x][1] \in Age /\ fails'[x][1] \in Age
              /\ fails'[x][1] >= fails[x][1] + 1 \/ fails'[x][1] = Horizon
          BY <3>3
        <5>4. circuits'[x].pauseLeft = IF circuits[x].pauseLeft > 0 THEN circuits[x].pauseLeft - 1 ELSE 0
          BY <3>2, Zenon
        <5>5. fails'[x][1] >= fails[x][1]
          BY <3>3
        <5> HIDE DEF TypeOK, BreakerInv
        <5>6. CASE circuits[x].pauseLeft > 0
          BY <5>1, <5>2, <5>3, <5>4, <5>5, <5>6, DurationAssumption DEF Age
        <5>7. CASE ~(circuits[x].pauseLeft > 0)
          BY <5>1, <5>2, <5>3, <5>4, <5>5, <5>7, DurationAssumption DEF Age
        <5> QED
          BY <5>6, <5>7, Zenon
      <4>a. ASSUME NEW i \in 1 .. MaxStrikes, Spent(x, i) PROVE Spent(x, i)'
        <5>1. SUFFICES ASSUME i <= sinceStart[x] PROVE fails'[x][i] >= PauseDuration
          BY <3>1, Zenon DEF Spent
        <5>2. fails[x][i] >= PauseDuration
          BY <4>a, <5>1, Zenon DEF Spent
        <5>3. fails[x][i] \in Age /\ fails'[x][i] \in Age /\ fails'[x][i] >= fails[x][i]
          BY <3>3, Zenon
        <5> HIDE DEF TypeOK, BreakerInv
        <5> QED
          BY <5>2, <5>3, DurationAssumption DEF Age
      <4>4. ~Unrecorded(x) /\ Strikes(x) < MaxStrikes => Spent(x, Strikes(x) + 1)'
        <5> SUFFICES ASSUME ~Unrecorded(x), Strikes(x) < MaxStrikes
                     PROVE  Spent(x, Strikes(x) + 1)'
          BY Zenon
        <5>1. Spent(x, Strikes(x) + 1)
          BY Zenon DEF CountsErrors
        <5>2. Strikes(x) + 1 \in 1 .. MaxStrikes
          BY <4>1
        <5> QED
          BY <4>1, <4>a, <5>1, <5>2, Zenon
      <4>5. Unrecorded(x) /\ Strikes(x) + 1 < MaxStrikes => Spent(x, Strikes(x) + 2)'
        <5> SUFFICES ASSUME Unrecorded(x), Strikes(x) + 1 < MaxStrikes
                     PROVE  Spent(x, Strikes(x) + 2)'
          BY Zenon
        <5>1. Spent(x, Strikes(x) + 2)
          BY Zenon DEF CountsErrors
        <5>2. Strikes(x) + 2 \in 1 .. MaxStrikes
          BY <4>1
        <5> QED
          BY <4>1, <4>a, <5>1, <5>2, Zenon
      <4> QED
        BY <4>1, <4>2, <4>3, <4>4, <4>5, ZenonT(30) DEF CountsErrors
    <3>5. pc = "apply" => Strikes(cur.service)' < MaxStrikes
      BY <3>1, <3>2, Zenon DEF Strikes
    <3>6. pc \in {"recordActuation", "recordImproved"} => fails'[cur.service][1] >= PauseDuration
      <4> SUFFICES ASSUME pc \in {"recordActuation", "recordImproved"}
                   PROVE  fails'[cur.service][1] >= PauseDuration
        BY Zenon
      <4>1. cur.service \in Service /\ fails[cur.service][1] >= PauseDuration
        BY Zenon
      <4> HIDE DEF TypeOK, BreakerInv
      <4>2. 1 \in 1 .. MaxStrikes
        BY MaxStrikesAssumption
      <4>3. /\ fails[cur.service][1] \in Age /\ fails'[cur.service][1] \in Age
            /\ fails'[cur.service][1] >= fails[cur.service][1]
        BY <3>3, <4>1, <4>2, Zenon
      <4> QED
        BY <4>1, <4>3, DurationAssumption DEF Age
    <3> QED
      BY <3>1, <3>4, <3>5, <3>6, Zenon
  <2>16. ASSUME NEW s \in Service, IsCircuitOpen(s) PROVE BreakerInv'
    <3>1. \A x \in Service : CountsErrors(x)'
      BY <2>16, CheckCircuitEffect, CountsErrorsKept, ZenonT(30) DEF IsCircuitOpen, applyHistory, Unrecorded
    <3>2. pc = "apply" => Strikes(cur.service)' < MaxStrikes
      <4> SUFFICES ASSUME pc = "apply" PROVE Strikes(cur.service)' < MaxStrikes
        BY Zenon
      <4>1. cur.service \in Service /\ Strikes(cur.service) < MaxStrikes /\ cur' = cur
        BY <2>16, Zenon DEF IsCircuitOpen
      <4>2. circuits'[cur.service] = circuits[cur.service] \/ circuits'[cur.service] = noCircuit
        BY <2>16, <4>1, CheckCircuitEffect, Zenon DEF IsCircuitOpen
      <4> HIDE DEF TypeOK, BreakerInv
      <4> QED
        BY <4>1, <4>2, MaxStrikesAssumption DEF Strikes, noCircuit
    <3>3. UNCHANGED <<pc, cur, fails>>
      BY <2>16, Zenon DEF IsCircuitOpen, applyHistory
    <3> QED
      BY <3>1, <3>2, <3>3, Zenon
  <2>17. ASSUME NEW n \in Namespace, NEW on \in BOOLEAN, setNamespacePause(n, on) PROVE BreakerInv'
    BY <2>17, <2>0, Zenon DEF setNamespacePause, guardVars, applyHistory, stopHistory
  <2>18. ASSUME NEW on \in BOOLEAN, setGlobalPause(on) PROVE BreakerInv'
    BY <2>18, <2>0, Zenon DEF setGlobalPause, guardVars, applyHistory, stopHistory
  <2>19. CASE restart
    <3>1. \A x \in Service : /\ Strikes(x)' = 0 /\ sinceStart'[x] = 0 /\ ~Unrecorded(x)'
                             /\ fails'[x] = fails[x]
      BY <2>19, Zenon DEF restart, Strikes, noCircuit, Unrecorded
    <3>2. \A x \in Service : CountsErrors(x)'
      <4> TAKE x \in Service
      <4>1. /\ Strikes(x)' = 0 /\ sinceStart'[x] = 0 /\ ~Unrecorded(x)'
            /\ fails'[x] = fails[x]
        BY <3>1, Zenon
      <4>2. \A i, j \in 1 .. MaxStrikes : i <= j => fails[x][i] <= fails[x][j]
        BY Zenon DEF CountsErrors
      <4> HIDE DEF TypeOK, BreakerInv
      <4> QED
        BY <4>1, <4>2, MaxStrikesAssumption DEF CountsErrors, Spent
    <3> QED
      BY <2>19, <3>2, Zenon DEF restart
  <2>20. CASE UNCHANGED vars
    BY <2>20, <2>0, Zenon DEF vars, guardVars, applyHistory, stopHistory
  <2> QED
    BY <2>1, <2>2, <2>3, <2>4, <2>5, <2>6, <2>7, <2>8, <2>9, <2>10, <2>11,
       <2>12, <2>13, <2>14, <2>15, <2>16, <2>17, <2>18, <2>19, <2>20, Zenon
    DEF Next, loop, environment
<1>3. BreakerInv /\ TypeOK => FailuresSpaced
  <2> SUFFICES ASSUME BreakerInv, TypeOK, pc = "apply", sinceStart[cur.service] = MaxStrikes
               PROVE  fails[cur.service][MaxStrikes] >= PauseDuration
    BY Zenon DEF FailuresSpaced
  <2> DEFINE s == cur.service
  <2>1. s \in Service /\ Strikes(s) \in Nat /\ ~Unrecorded(s)
    BY Zenon DEF TypeOK, GuardTypeOK, CircuitEntry, InHand, Actuation, Strikes, Unrecorded
  <2>a. Strikes(s) < MaxStrikes /\ Spent(s, Strikes(s) + 1)
    BY <2>1, Zenon DEF BreakerInv, CountsErrors
  <2>b. Strikes(s) + 1 <= MaxStrikes
    BY <2>1, <2>a
  <2>2. Strikes(s) < MaxStrikes /\ fails[s][Strikes(s) + 1] >= PauseDuration
    BY <2>a, <2>b, Zenon DEF Spent
  <2>3. fails[s][Strikes(s) + 1] <= fails[s][MaxStrikes]
    BY <2>1, <2>2 DEF BreakerInv, CountsErrors
  <2>4. fails[s] \in [1 .. MaxStrikes -> Age] /\ Strikes(s) + 1 \in 1 .. MaxStrikes
    BY <2>1, <2>2 DEF TypeOK
  <2> QED
    BY <2>1, <2>2, <2>3, <2>4, SMTT(30) DEF Age
<1> QED
  BY <1>1, <1>2, <1>3, TypeCorrect, PTL DEF Spec
-----------------------------------------------------------------------------
(* The emergency stop. *)

\* A stop switch that is on from the entry of Allow to the Apply is seen, unless a
\* read fails.
THEOREM StopHolds == Spec => []StopHonoured
<1>1. Init => StopInv
  BY Zenon DEF Init, StopInv, InHand, Recording
<1>2. TypeOK /\ StopInv /\ [Next]_vars => StopInv'
  <2> SUFFICES ASSUME TypeOK, StopInv, [Next]_vars PROVE StopInv'
    BY Zenon
  <2> USE DEF StopInv, TypeOK, Actuation, InHand, Recording, Switch
  <2>1. CASE runOptimizationCycle
    BY <2>1, Zenon DEF runOptimizationCycle, envVars, stopHistory
  <2>2. CASE endOfCycle
    BY <2>2, Zenon DEF endOfCycle, envVars, stopHistory
  <2>3. ASSUME NEW so \in Objective, optimizeService(so) PROVE StopInv'
    BY <2>3 DEF optimizeService, envVars, stopHistory
  <2>4. ASSUME NEW so \in Objective, skipService(so) PROVE StopInv'
    BY <2>4, Zenon DEF skipService, envVars, stopHistory
  <2>5. CASE checkNamespacePause
    BY <2>5, Zenon DEF checkNamespacePause, done, goto, readError, envVars, stopHistory
  <2>6. CASE checkGlobalPause
    BY <2>6, ZenonT(30) DEF checkGlobalPause, done, goto, readError, envVars, stopHistory
  <2>7. CASE checkCooldown
    BY <2>7, Zenon DEF checkCooldown, done, goto, envVars, stopHistory
  <2>8. CASE checkCircuit
    BY <2>8, Zenon DEF checkCircuit, CheckCircuit, CircuitOpen, Tripped, noCircuit, done, goto, envVars, stopHistory
  <2>9. CASE applied
    BY <2>9, Zenon DEF applied, goto, envVars, stopHistory
  <2>10. CASE notApplied
    BY <2>10, Zenon DEF notApplied, done, envVars, stopHistory
  <2>11. CASE applyFailed
    BY <2>11, Zenon DEF applyFailed, goto, envVars, stopHistory
  <2>12. CASE recordActuation
    BY <2>12, Zenon DEF recordActuation, goto, envVars, stopHistory
  <2>13. CASE recordImproved
    BY <2>13, Zenon DEF recordImproved, RecordImproved, noCircuit, done, envVars, stopHistory
  <2>14. CASE recordDegraded
    BY <2>14, Zenon DEF recordDegraded, RecordDegraded, done, envVars, stopHistory
  <2>15. CASE tick
    BY <2>15, Zenon DEF tick, GuardTick, envVars, stopHistory
  <2>16. ASSUME NEW s \in Service, IsCircuitOpen(s) PROVE StopInv'
    BY <2>16, Zenon DEF IsCircuitOpen, CheckCircuit, CircuitOpen, Tripped, noCircuit, envVars, stopHistory
  <2>17. ASSUME NEW n \in Namespace, NEW on \in BOOLEAN, setNamespacePause(n, on) PROVE StopInv'
    BY <2>17, Zenon DEF setNamespacePause, envVars, stopHistory
  <2>18. ASSUME NEW on \in BOOLEAN, setGlobalPause(on) PROVE StopInv'
    BY <2>18, Zenon DEF setGlobalPause, envVars, stopHistory
  <2>19. CASE restart
    BY <2>19, Zenon DEF restart, envVars, stopHistory
  <2>20. CASE UNCHANGED vars
    BY <2>20, Zenon DEF vars, envVars, stopHistory
  <2> QED
    BY <2>1, <2>2, <2>3, <2>4, <2>5, <2>6, <2>7, <2>8, <2>9, <2>10, <2>11,
       <2>12, <2>13, <2>14, <2>15, <2>16, <2>17, <2>18, <2>19, <2>20, ZenonT(30)
    DEF Next, loop, environment
<1>3. StopInv /\ TypeOK => StopHonoured
  BY Zenon DEF StopInv, StopHonoured
<1> QED
  BY <1>1, <1>2, <1>3, TypeCorrect, PTL DEF Spec
=============================================================================
