----------------------------- MODULE SafetyGuard -----------------------------
(***************************************************************************)
(* The SafetyGuard of internal/actuator/safety.go: the state it keeps per  *)
(* service and the operations on it.  Each operation takes the guard's     *)
(* mutex for its whole body, so each is one atomic step; the module that   *)
(* extends this one interleaves them.                                      *)
(*                                                                         *)
(* Time.  The code stores instants and compares them with nowFn().  Here   *)
(* an instant in the past is its age in clock units, and the end of a      *)
(* pause is the time left until it.  Ages saturate at Horizon, a bound no  *)
(* smaller than any duration the code compares with, so a saturated age    *)
(* answers every comparison the way the exact age would.  A service with   *)
(* no entry in the cooldowns map has age Horizon (both let it through) and *)
(* a service with no entry in the circuits map has noCircuit.              *)
(***************************************************************************)
EXTENDS Integers

CONSTANTS
  Service,        \* the "namespace/name" keys
  MaxStrikes,     \* circuitBreakerMaxStrikes (3 in the code)
  PauseDuration,  \* circuitBreakerPauseDuration (15 minutes in the code)
  Horizon         \* bound: the age from which two instants are not told apart

ASSUME MaxStrikesAssumption == MaxStrikes \in Nat \ {0}
ASSUME DurationAssumption ==
  /\ PauseDuration \in Nat \ {0}
  /\ Horizon \in Nat
  /\ PauseDuration <= Horizon

VARIABLES
  cooldowns,  \* cooldowns[s]: age of cooldownEntry.lastActuated
  circuits    \* circuits[s]: circuitEntry

guardVars == <<cooldowns, circuits>>

Age == 0 .. Horizon

noCircuit == [consecutiveStrikes |-> 0, pauseLeft |-> 0]

CircuitEntry == [consecutiveStrikes : Nat, pauseLeft : 0 .. PauseDuration]

GuardTypeOK ==
  /\ cooldowns \in [Service -> Age]
  /\ circuits \in [Service -> CircuitEntry]

NewSafetyGuard ==
  /\ cooldowns = [s \in Service |-> Horizon]
  /\ circuits = [s \in Service |-> noCircuit]

-----------------------------------------------------------------------------
(* The passing of time, as the guard sees it through nowFn. *)

Older(age) == IF age < Horizon THEN age + 1 ELSE Horizon

GuardTick ==
  /\ cooldowns' = [s \in Service |-> Older(cooldowns[s])]
  /\ circuits' = [s \in Service |->
       [circuits[s] EXCEPT !.pauseLeft = IF @ > 0 THEN @ - 1 ELSE 0]]

-----------------------------------------------------------------------------
(* Rate limiter. *)

CooldownActive(s, cooldownSeconds) ==
  /\ cooldownSeconds > 0
  /\ cooldowns[s] < cooldownSeconds

\* Mutant: only the first actuation is stamped.
RecordActuationOnce(s) ==
  cooldowns' = IF cooldowns[s] = Horizon THEN [cooldowns EXCEPT ![s] = 0] ELSE cooldowns

RecordActuation(s) == cooldowns' = [cooldowns EXCEPT ![s] = 0]

-----------------------------------------------------------------------------
(* Circuit breaker. *)

Tripped(s) == circuits[s].consecutiveStrikes >= MaxStrikes

\* Mutant: the end of the pause is never looked at.
CircuitOpenForever(s) == Tripped(s)

\* What makes CheckCircuit return ErrCircuitOpen.
CircuitOpen(s) == Tripped(s) /\ circuits[s].pauseLeft > 0

\* The whole of CheckCircuit's effect on the map: looking at a tripped breaker
\* whose pause has run out deletes its entry.
CheckCircuit(s) ==
  circuits' = IF Tripped(s) /\ ~CircuitOpen(s)
              THEN [circuits EXCEPT ![s] = noCircuit]
              ELSE circuits

RecordImproved(s) == circuits' = [circuits EXCEPT ![s] = noCircuit]

\* Mutant: the pause starts one strike late.
RecordDegradedLate(s) ==
  LET strikes == circuits[s].consecutiveStrikes + 1
  IN  circuits' = [circuits EXCEPT ![s] =
        [consecutiveStrikes |-> strikes,
         pauseLeft |-> IF strikes > MaxStrikes THEN PauseDuration ELSE @.pauseLeft]]

\* Mutant: the pause grows with the strikes.
RecordDegradedBackoff(s) ==
  LET strikes == circuits[s].consecutiveStrikes + 1
  IN  circuits' = [circuits EXCEPT ![s] =
        [consecutiveStrikes |-> strikes, pauseLeft |-> strikes * PauseDuration]]

RecordDegraded(s) ==
  LET strikes == circuits[s].consecutiveStrikes + 1
  IN  circuits' = [circuits EXCEPT ![s] =
        [consecutiveStrikes |-> strikes,
         pauseLeft |-> IF strikes >= MaxStrikes THEN PauseDuration ELSE @.pauseLeft]]
=============================================================================
