------------------------------- MODULE Tuning -------------------------------
(***************************************************************************)
(* internal/tuning/optimizer.go: RunCycle tunes the parameters of one      *)
(* ApplicationTuning, one per cycle.  It reads the status it is given and  *)
(* returns what to change in it; its caller, a controller that is not part *)
(* of the repository, persists that in a step of its own, and may fail to. *)
(*                                                                         *)
(* A parameter is its position in spec.parameters.  Numeric values are     *)
(* natural numbers (type integer, with a step); the values of a string     *)
(* parameter are positions in its AllowedValues.  Observations are kept as *)
(* what the code computes from them: how many there are and the best SLO   *)
(* seen at each value.                                                     *)
(***************************************************************************)
EXTENDS Integers, FiniteSets, FiniteSetsExt

CONSTANTS
  Params,      \* the parameters: <<[type, min, max, step, default], ...>>; the
               \*   default may be missing (NoDefault) or out of bounds
  MaxChange,   \* safetyPolicy.maxChangePercent, 0 for the default
  Cooldown,    \* in ticks
  Minimise,    \* whether the objective is "minimize"
  SLOs,        \* what FetchSLO may answer
  MaxObs,      \* bound on the observations of a parameter
  NoParam, NoSLO, NoDefault

VARIABLES
  live,       \* the value of each parameter in the application; NoDefault for
              \*   one that neither the spec nor a change has told
  active,     \* status.activeParameter
  values,     \* status.currentValues, the default where there is none
  count,      \* number of observations of each parameter
  best,       \* best SLO, negated for "minimize", observed at each value
  coolFor,    \* ticks until status.cooldownUntil
  belowSLO,   \* status.bestSLOValue is known and below the safety threshold
  phase,      \* status.phase
  result,     \* the CycleResult that is not persisted yet, or NoParam
  sinceChange,\* history: ticks since a value was applied
  unsaved     \* history: a change was not reported or not persisted, or a
              \* pause was cut short

tuningVars == <<live, active, values, count, best, coolFor, belowSLO, phase, result,
                sinceChange, unsaved>>

Param == DOMAIN Params

\* The values between v and the bounds of p, both included.
Reach(p, v) ==
  IF v = NoDefault THEN p.min .. p.max
  ELSE (IF v < p.min THEN v ELSE p.min) .. (IF v > p.max THEN v ELSE p.max)

Value == UNION {Reach(p, p.default) : p \in {Params[i] : i \in Param}}

\* A parameter has values.  Nothing validates its default.
ASSUME TuningAssumption ==
  /\ \A i \in Param : /\ Params[i].min \in Nat /\ Params[i].max \in Nat
                      /\ Params[i].min <= Params[i].max
                      /\ Params[i].default \in Nat \cup {NoDefault}
  /\ NoDefault \notin Nat
  /\ MaxChange \in Nat /\ Cooldown \in Nat /\ MaxObs \in Nat
  /\ SLOs \subseteq Int /\ NoSLO \notin Int
  /\ NoParam \notin Param
  /\ NoParam \notin [phase : {"Exploring"}, changed : Param, value : Nat,
                     observed : [param : Param \cup {NoParam}, value : Nat, slo : Int]]

TuningInit ==
  /\ live = [p \in Param |-> Params[p].default]
  /\ active = NoParam
  /\ values = live
  /\ count = [p \in Param |-> 0]
  /\ best = [p \in Param |-> [v \in Value |-> NoSLO]]
  /\ coolFor = 0
  /\ belowSLO = FALSE
  /\ phase = "Idle"
  /\ result = NoParam
  /\ sinceChange = Cooldown
  /\ unsaved = FALSE

-----------------------------------------------------------------------------
\* One point per allowed value, or from min in steps, at most GridPoints of
\* them, and max in any case.
GridPoints == 20

GenerateGrid(p) ==
  {v \in p.min .. p.max : \/ p.type = "string"
                          \/ (v - p.min) % p.step = 0 /\ (v - p.min) \div p.step < GridPoints
                          \/ v = p.max}

\* The first grid value with the best observation; the first of all without any.
SelectOptimal(p, seen) ==
  LET grid  == GenerateGrid(Params[p])
      known == {v \in grid : seen[p][v] # NoSLO}
  IN  IF known = {} THEN Min(grid)
      ELSE Min({v \in known : \A w \in known : seen[p][w] <= seen[p][v]})

Limit == IF MaxChange = 0 THEN 50 ELSE MaxChange

Magnitude(x) == IF x < 0 THEN -x ELSE x

\* Mutant: the difference itself is compared with the limit.
WithinChangeBoundsAbsolute(p, cur, prop) ==
  p.type = "string" \/ cur \in {0, NoDefault} \/ Magnitude(prop - cur) <= Limit

\* In percent of the current value; from 0, or from no value, anything goes.
WithinChangeBounds(p, cur, prop) ==
  p.type = "string" \/ cur \in {0, NoDefault} \/ 100 * Magnitude(prop - cur) <= Limit * Magnitude(cur)

\* math.Round of n / 100 for n >= 0.
RoundPercent(n) == (n + 50) \div 100

\* The limit itself is rounded to an integer.
clampToMaxChange(p, cur, prop) ==
  IF p.type = "string" \/ cur \in {0, NoDefault} THEN prop
  ELSE IF 100 * prop > (100 + Limit) * cur THEN RoundPercent((100 + Limit) * cur)
  ELSE IF 100 * prop < (100 - Limit) * cur THEN RoundPercent((100 - Limit) * cur)
  ELSE prop

\* The least observed ones other than the active parameter, in any order; the
\* active one only if there is no other.
NextParameterToTune(counts) ==
  LET others == Param \ {active}
      from   == IF others = {} THEN Param ELSE others
  IN  {p \in from : \A q \in from : counts[p] <= counts[q]}

isConverged(counts) == Param # {} /\ \A p \in Param : counts[p] >= 3

\* In cooldown, or the best known SLO is below the threshold.
CanChange == coolFor = 0 /\ ~belowSLO

\* A result: the phase, the observation made and the value applied, if any.
Outcome(ph, observed, changed, value) ==
  [phase |-> ph, observed |-> observed, changed |-> changed, value |-> value]

Nothing == [param |-> NoParam, value |-> 0, slo |-> 0]

\* FetchSLO fails, or there is no parameter, or the grid cannot be built.
CycleFails ==
  /\ result = NoParam
  /\ result' = Outcome("Error", Nothing, NoParam, 0)
  /\ UNCHANGED <<live, active, values, count, best, coolFor, belowSLO, phase, sinceChange, unsaved>>

CyclePaused ==
  /\ result = NoParam
  /\ result' = Outcome("Paused", Nothing, NoParam, 0)
  /\ UNCHANGED <<live, active, values, count, best, coolFor, belowSLO, phase, sinceChange, unsaved>>

\* The SLO as the observations are compared.
Adjusted(slo) == IF Minimise THEN -slo ELSE slo

Better(old, new) == IF old = NoSLO \/ new > old THEN new ELSE old

Counts(o) == IF o.param = NoParam THEN count ELSE [count EXCEPT ![o.param] = @ + 1]
Seen(o) == IF o.param = NoParam THEN best
           ELSE [best EXCEPT ![o.param][o.value] = Better(@, Adjusted(o.slo))]

\* One cycle.  The converged result and the one of a failed apply carry no
\* observation: it is lost.  An apply that fails may have changed the value
\* ("late"), as AppTuner does when only the restart fails.
RunCycle(slo, applies) ==
  LET o == IF active = NoParam THEN Nothing
           ELSE [param |-> active, value |-> values[active], slo |-> slo]
  IN  /\ result = NoParam
      /\ active # NoParam => count[active] < MaxObs
      /\ \/ /\ ~CanChange
            /\ result' = Outcome("Observing", o, NoParam, 0)
            /\ UNCHANGED <<live, sinceChange, unsaved>>
         \/ /\ CanChange /\ isConverged(Counts(o))
            /\ result' = Outcome("Converged", Nothing, NoParam, 0)
            /\ UNCHANGED <<live, sinceChange, unsaved>>
         \/ /\ CanChange /\ ~isConverged(Counts(o))
            /\ \E p \in NextParameterToTune(Counts(o)) :
                 LET pick == SelectOptimal(p, Seen(o))
                     new  == IF WithinChangeBounds(Params[p], values[p], pick) THEN pick
                             ELSE clampToMaxChange(Params[p], values[p], pick)
                     reached == new # values[p] /\ applies # "fails"
                 IN  /\ live' = IF reached THEN [live EXCEPT ![p] = new] ELSE live
                     /\ sinceChange' = IF reached THEN 0 ELSE sinceChange
                     /\ unsaved' = (unsaved \/ (reached /\ applies = "late"))
                     /\ result' = IF new = values[p] THEN Outcome("Exploring", o, NoParam, 0)
                                  ELSE IF applies = "ok" THEN Outcome("Exploring", o, p, new)
                                  ELSE Outcome("Error", Nothing, NoParam, 0)
      /\ UNCHANGED <<active, values, count, best, coolFor, belowSLO, phase>>

\* The caller stores the result; the cooldown counts from the cycle that made
\* the change.  A result without a new cooldown leaves the old
\* one in place, or clears it (which cuts a pause short); the best SLO that the
\* caller keeps decides belowSLO.
Persist(clear, below) ==
  /\ result # NoParam
  /\ phase' = result.phase
  /\ count' = Counts(result.observed)
  /\ best' = Seen(result.observed)
  /\ values' = IF result.changed = NoParam THEN values
               ELSE [values EXCEPT ![result.changed] = result.value]
  /\ active' = IF result.changed = NoParam THEN active ELSE result.changed
  /\ coolFor' = IF result.changed # NoParam THEN Cooldown - sinceChange ELSE IF clear THEN 0 ELSE coolFor
  /\ unsaved' = (unsaved \/ (result.changed = NoParam /\ clear /\ coolFor > 0))
  /\ belowSLO' = below
  /\ result' = NoParam
  /\ UNCHANGED <<live, sinceChange>>

\* A conflict, or the caller crashes: the status stays as it was.
LoseResult ==
  /\ result # NoParam
  /\ unsaved' = (unsaved \/ result.changed # NoParam)
  /\ result' = NoParam
  /\ UNCHANGED <<live, active, values, count, best, coolFor, belowSLO, phase, sinceChange>>

PassTuningTime ==
  /\ sinceChange < Cooldown
  /\ coolFor' = IF coolFor > 0 THEN coolFor - 1 ELSE 0
  /\ sinceChange' = sinceChange + 1
  /\ UNCHANGED <<live, active, values, count, best, belowSLO, phase, result, unsaved>>

TuningNext ==
  \/ CycleFails
  \/ CyclePaused
  \/ \E slo \in SLOs, applies \in {"ok", "fails", "late"} : RunCycle(slo, applies)
  \/ \E clear, below \in BOOLEAN : Persist(clear, below)
  \/ LoseResult
  \/ PassTuningTime

TuningTypeOK ==
  /\ {live[p] : p \in Param} \cup {values[p] : p \in Param} \subseteq Value \cup {NoDefault}
  /\ active \in Param \cup {NoParam}
  /\ \A p \in Param : count[p] \in 0 .. MaxObs
  /\ coolFor \in 0 .. Cooldown
  /\ phase \in {"Idle", "Error", "Paused", "Observing", "Converged", "Exploring"}

\* As long as every change is reported and persisted and no pause is cut short:
\* the status tells the live values; a change takes a value no farther out of its
\* parameter's bounds than it was, and no value inside out of them; it comes no
\* earlier than a cooldown after the last; and it is at most MaxChange percent,
\* rounded, for a number other than 0.  Without a default the first change may go
\* anywhere between the bounds (RunCycle, clampToMaxChange).
TuningBounded ==
  [][~unsaved =>
       \A p \in Param : live'[p] # live[p] =>
         /\ values[p] = live[p]
         /\ live'[p] \in Reach(Params[p], live[p])
         /\ sinceChange >= Cooldown
         /\ \/ Params[p].type = "string"
            \/ live[p] \in {0, NoDefault}
            \/ 200 * Magnitude(live'[p] - live[p]) <= 2 * Limit * live[p] + 100]_tuningVars
=============================================================================
