----------------------------- MODULE Background -----------------------------
(***************************************************************************)
(* The parts that work beside the optimizer loop and share no state with   *)
(* it or with each other: the tenant manager, the noisy-neighbour          *)
(* detector, the fair-share computation, the parameter tuner, the          *)
(* ConfigMap tuner, the NodePool actuator, the Prometheus client's cache,  *)
(* and the forecast client.  A behaviour is one of any of them; the others *)
(* keep an initial state.                                                  *)
(***************************************************************************)
EXTENDS TenantManager, NoisyNeighbor, FairShare, Tuning, AppTuner, ForecastClient,
        PromCache, NodeActuator

CONSTANTS IdleInputs, IdleData   \* initial states of the parts that do not move

VARIABLE worker   \* the part that moves

bgVars == <<worker, managerVars, detectorVars, shareVars, tuningVars, tunerVars, forecastVars,
            cacheVars, nodeVars>>

Init ==
  /\ worker \in {"manager", "detector", "shares", "tuning", "tuner", "forecast",
                "cache", "nodes"}
  /\ ManagerInit
  /\ DetectorInit
  /\ ShareInit
  /\ worker # "shares" => inputs = IdleInputs
  /\ TuningInit
  /\ TunerInit
  /\ worker # "tuner" => data = IdleData
  /\ ForecastInit
  /\ CacheInit
  /\ NodeInit
  /\ worker # "nodes" => pool = NoPool

Manages ==
  /\ worker = "manager"
  /\ ManagerNext
  /\ UNCHANGED <<worker, detectorVars, shareVars, tuningVars, tunerVars, forecastVars, cacheVars, nodeVars>>

Detects ==
  /\ worker = "detector"
  /\ DetectorNext
  /\ UNCHANGED <<worker, managerVars, shareVars, tuningVars, tunerVars, forecastVars, cacheVars, nodeVars>>

Shares ==
  /\ worker = "shares"
  /\ capAndReclaim
  /\ UNCHANGED <<worker, managerVars, detectorVars, tuningVars, tunerVars, forecastVars, cacheVars, nodeVars>>

Tunes ==
  /\ worker = "tuning"
  /\ TuningNext
  /\ UNCHANGED <<worker, managerVars, detectorVars, shareVars, tunerVars, forecastVars, cacheVars, nodeVars>>

Configures ==
  /\ worker = "tuner"
  /\ TunerNext
  /\ UNCHANGED <<worker, managerVars, detectorVars, shareVars, tuningVars, forecastVars, cacheVars, nodeVars>>

Forecasts ==
  /\ worker = "forecast"
  /\ ForecastNext
  /\ UNCHANGED <<worker, managerVars, detectorVars, shareVars, tuningVars, tunerVars, cacheVars, nodeVars>>

Caches ==
  /\ worker = "cache"
  /\ CacheNext
  /\ UNCHANGED <<worker, managerVars, detectorVars, shareVars, tuningVars, tunerVars, forecastVars, nodeVars>>

Provisions ==
  /\ worker = "nodes"
  /\ NodeNext
  /\ UNCHANGED <<worker, managerVars, detectorVars, shareVars, tuningVars, tunerVars, forecastVars, cacheVars>>

Next == Manages \/ Detects \/ Shares \/ Tunes \/ Configures \/ Forecasts \/ Caches \/ Provisions

Spec == Init /\ [][Next]_bgVars

\* Every part keeps to its types and bounds: among them, that the detector and
\* the tracker trim what they keep and that the breaker's list of errors stays
\* below its limit.
TypeOK ==
  /\ ManagerTypeOK
  /\ DetectorTypeOK
  /\ TuningTypeOK
  /\ ForecastTypeOK
  /\ CacheTypeOK

\* A rollback brings back what was there before the last Apply, in the ConfigMap
\* and in the NodePool, under the conditions that TunerRestores and NodeRestores
\* give (Rollback of AppTuner and of NodeActuator).
PatchesUndone == [][TunerRestores /\ NodeRestores]_bgVars
=============================================================================
