------------------------------ MODULE PromCache ------------------------------
(***************************************************************************)
(* internal/metrics/prometheus_client.go: Query keeps the answer of an     *)
(* instant query for a time-to-live.  The lock covers the look-up and the  *)
(* store, not the request between them, so callers that find nothing ask   *)
(* at the same time and store in the order in which they return.           *)
(*                                                                         *)
(* One query stands for all.  What an answer says does not matter, only    *)
(* its age: the ticks since Prometheus evaluated it.                       *)
(***************************************************************************)
EXTENDS Integers, FiniteSets, FiniteSetsExt

CONSTANTS
  Asker,           \* goroutines that call Query
  TTL, Timeout,    \* in ticks; the HTTP client gives up after Timeout
  NoAnswer, Idle

ASSUME CacheAssumption == TTL \in Nat /\ Timeout \in Nat /\ NoAnswer \notin Nat

VARIABLES
  cached,     \* the cache entry: [age, left], or NoAnswer
  request,    \* per goroutine: Idle, or [sent, age] of its request
  youngest,   \* history: age of the youngest answer given to a caller
  crossed     \* history: the last request began while another was under way

cacheVars == <<cached, request, youngest, crossed>>

Oldest == TTL + Timeout + 1
Ageing(age) == IF age = NoAnswer THEN NoAnswer ELSE Min({age + 1, Oldest})

CacheInit ==
  /\ cached = NoAnswer
  /\ request = [a \in Asker |-> Idle]
  /\ youngest = Oldest
  /\ crossed = FALSE

Hit == cached # NoAnswer /\ cached.left > 0

\* Mutant: a hit prolongs the life of the entry.
UseCachedRenews ==
  /\ Hit
  /\ cached' = [cached EXCEPT !.left = TTL]
  /\ youngest' = Min({youngest, cached.age})
  /\ UNCHANGED <<request, crossed>>

UseCached ==
  /\ Hit
  /\ youngest' = Min({youngest, cached.age})
  /\ UNCHANGED <<cached, request, crossed>>

Ask(a) ==
  /\ request[a] = Idle
  /\ ~Hit
  /\ request' = [request EXCEPT ![a] = [sent |-> 0, age |-> NoAnswer]]
  /\ crossed' = (\E b \in Asker : request[b] # Idle)
  /\ UNCHANGED <<cached, youngest>>

\* Prometheus evaluates the query.
Answer(a) ==
  /\ request[a] # Idle
  /\ request[a].age = NoAnswer
  /\ request' = [request EXCEPT ![a].age = 0]
  /\ UNCHANGED <<cached, youngest, crossed>>

\* The answer is read, parsed, stored and returned.
Store(a) ==
  /\ request[a] # Idle
  /\ request[a].age # NoAnswer
  /\ cached' = [age |-> request[a].age, left |-> TTL]
  /\ youngest' = Min({youngest, request[a].age})
  /\ request' = [request EXCEPT ![a] = Idle]
  /\ UNCHANGED crossed

\* No connection, another status than 200, or an answer that does not parse or
\* is not a single sample: nothing is stored.
QueryFails(a) ==
  /\ request[a] # Idle
  /\ request' = [request EXCEPT ![a] = Idle]
  /\ UNCHANGED <<cached, youngest, crossed>>

\* A request does not outlive its timeout.
CacheTick ==
  /\ \A a \in Asker : request[a] # Idle => request[a].sent < Timeout
  /\ cached' = IF cached = NoAnswer THEN NoAnswer
               ELSE [age |-> Ageing(cached.age), left |-> Max({0, cached.left - 1})]
  /\ request' = [a \in Asker |-> IF request[a] = Idle THEN Idle
                                 ELSE [sent |-> request[a].sent + 1, age |-> Ageing(request[a].age)]]
  /\ youngest' = Ageing(youngest)
  /\ UNCHANGED crossed

CacheNext ==
  \/ UseCached
  \/ \E a \in Asker : Ask(a) \/ Answer(a) \/ Store(a) \/ QueryFails(a)
  \/ CacheTick

CacheTypeOK ==
  /\ cached # NoAnswer => cached.age \in 0 .. Oldest /\ cached.left \in 0 .. TTL
  /\ \A a \in Asker : request[a] # Idle => request[a].sent \in 0 .. Timeout
  /\ youngest \in 0 .. Oldest

\* What the cache hands out was evaluated at most a time-to-live and a request's
\* timeout ago; and it is no older than what any caller got before, unless the
\* last two requests overlapped, when the slower one may put an older answer over
\* a newer one (Query checks and stores in two critical sections).
CacheFresh ==
  Hit => /\ cached.age + cached.left <= TTL + Timeout
         /\ ~crossed => cached.age <= youngest
=============================================================================
