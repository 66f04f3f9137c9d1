--------------------------- MODULE HybridProvider ---------------------------
(***************************************************************************)
(* agents/orchestrator/core/go-hybrid-provider.js: derives session keys by *)
(* running an external command. Module-level state is shared by all calls: *)
(* a readiness check that is cached as a promise, a lifecycle that is      *)
(* active or stopped, and a budget of restarts per time window. A call that*)
(* fails in a way worth retrying stops the lifecycle, waits and tries again*)
(*                                                                         *)
(* Between two awaits JavaScript is not interrupted, and everyone who      *)
(* awaits a promise runs on before anything else when it settles, so one   *)
(* step settles a check and resumes all who wait for it.                   *)
(***************************************************************************)
EXTENDS Integers, FiniteSets

CONSTANTS
  Calls,            \* calls of deriveSession
  Probes,           \* calls of healthCheckProviderLifecycle
  Checks,           \* readiness checks that may be running at one time
  MaxRetries, BudgetMax, BudgetWindow,      \* SAPM_HYBRID_KEX_... environment
  MaxStops,         \* bound: calls of stopProviderLifecycle from outside
  MaxTime,          \* bound: reading of the clock
  None              \* no promise; window not started

Times == 1 .. MaxTime
Outcomes == {"session", "execution_failed", "timeout", "invalid_json_response",
             "invalid_payload"}

ASSUME ConstantsAssumption ==
  /\ Calls \cap Probes = {}
  /\ IsFiniteSet(Calls)
  /\ {MaxRetries, BudgetMax, BudgetWindow, MaxStops} \subseteq Nat
  /\ MaxTime \in Nat \ {0}
  /\ None \notin Checks \cup Nat

VARIABLES
  check,            \* per check: unused, pending or ok
  cached,           \* readinessState.promise
  readiness,        \* readinessState.status
  active, lastHealthStatus,                               \* lifecycleState
  restartWindowStartedAt, restartsInWindow, restartBudgetExceeded,
  deriveCalls, deriveAttempts, recoveryAttempts,          \* runtimeState
  pc, awaits, attempt,   \* per call and probe: where it is, the check it awaits
                         \* and the retries it has made
  clock, stops,
  checkedSinceStop, \* history: a check succeeded after the last stop
  restarts          \* history: the restarts let through, whose and when

readinessVars == <<check, cached, readiness>>
lifecycleVars == <<active, lastHealthStatus>>
budgetVars == <<restartWindowStartedAt, restartsInWindow, restartBudgetExceeded>>
runtimeVars == <<deriveCalls, deriveAttempts, recoveryAttempts>>
callVars == <<pc, awaits, attempt>>
vars == <<readinessVars, lifecycleVars, budgetVars, runtimeVars, callVars, clock,
          stops, checkedSinceStop, restarts>>

Init ==
  /\ check = [k \in Checks |-> "unused"]
  /\ cached = None
  /\ readiness = "none"
  /\ active = FALSE
  /\ lastHealthStatus = "unknown"
  /\ restartWindowStartedAt = None
  /\ restartsInWindow = 0
  /\ restartBudgetExceeded = FALSE
  /\ deriveCalls = 0 /\ deriveAttempts = 0 /\ recoveryAttempts = 0
  /\ pc = [c \in Calls \cup Probes |-> "new"]
  /\ awaits = [c \in Calls \cup Probes |-> None]
  /\ attempt = [c \in Calls |-> 0]
  /\ clock = 1
  /\ stops = 0
  /\ checkedSinceStop = FALSE
  /\ restarts = {}

Waiting(k) == {c \in Calls \cup Probes : awaits[c] = k}
Moved(cs, place) == [c \in Calls \cup Probes |-> IF c \in cs THEN place ELSE pc[c]]

-----------------------------------------------------------------------------
(* ensureProviderReady: p awaits the cached check, or begins one.           *)

AwaitReady(p) ==
  \/ /\ cached # None
     /\ check[cached] = "pending"
     /\ awaits' = [awaits EXCEPT ![p] = cached]
     /\ UNCHANGED readinessVars
  \/ /\ cached = None
     /\ \E k \in Checks :
          /\ check[k] = "unused"
          /\ awaits' = [awaits EXCEPT ![p] = k]
          /\ check' = [check EXCEPT ![k] = "pending"]
          /\ cached' = k
     /\ UNCHANGED readiness

KnownReady == cached # None /\ check[cached] = "ok"

\* A turn of deriveSession's loop: startProviderLifecycle, then the command.
Try(c) ==
  /\ deriveAttempts' = deriveAttempts + 1
  /\ IF active \/ KnownReady
       THEN /\ pc' = Moved({c}, "executing")
            /\ active' = TRUE
            /\ lastHealthStatus' = IF active THEN lastHealthStatus ELSE "healthy"
            /\ restartBudgetExceeded' = (active /\ restartBudgetExceeded)
            /\ UNCHANGED <<readinessVars, awaits>>
       ELSE /\ pc' = Moved({c}, "checking")
            /\ AwaitReady(c)
            /\ UNCHANGED <<lifecycleVars, restartBudgetExceeded>>

DeriveSession(c) ==
  /\ pc[c] = "new"
  /\ deriveCalls' = deriveCalls + 1
  /\ Try(c)
  /\ UNCHANGED <<restartWindowStartedAt, restartsInWindow, recoveryAttempts,
                 attempt, clock, stops, checkedSinceStop, restarts>>

Retry(c) ==
  /\ pc[c] = "backoff"
  /\ attempt' = [attempt EXCEPT ![c] = @ + 1]
  /\ Try(c)
  /\ UNCHANGED <<restartWindowStartedAt, restartsInWindow, deriveCalls,
                 recoveryAttempts, clock, stops, checkedSinceStop, restarts>>

HealthCheck(p) ==
  /\ pc[p] = "new"
  /\ IF KnownReady
       THEN /\ pc' = Moved({p}, "done")
            /\ lastHealthStatus' = "healthy"
            /\ UNCHANGED <<readinessVars, awaits>>
       ELSE /\ pc' = Moved({p}, "checking")
            /\ AwaitReady(p)
            /\ UNCHANGED lastHealthStatus
  /\ UNCHANGED <<active, budgetVars, runtimeVars, attempt, clock, stops,
                 checkedSinceStop, restarts>>

-----------------------------------------------------------------------------
(* stopProviderLifecycle, and what a failed attempt of the calls cs does.   *)

\* Mutant: stopping keeps the cached check.
StopKeepsCache == cached
CachedAfterStop == None

\* A check that is neither running nor cached is garbage.
Dropped(ks) == [k \in Checks |-> IF k \in ks THEN "unused" ELSE check[k]]
CachedOk == {k \in Checks : k = cached /\ check[k] = "ok"}

WindowOver ==
  \/ restartWindowStartedAt = None
  \/ clock - restartWindowStartedAt > BudgetWindow

\* Mutants: the counter restarts with every restart, and one restart too many.
UsedNever == 0
RoomPlusOne(used) == IF used <= BudgetMax THEN BudgetMax + 1 - used ELSE 0
Used == IF WindowOver THEN 0 ELSE restartsInWindow
Room(used) == IF used < BudgetMax THEN BudgetMax - used ELSE 0

\* Mutant: the limit of retries counts one attempt less.
OneMoreRetry(c) == attempt[c] <= MaxRetries
MayRetry(c) == attempt[c] < MaxRetries

Restarts(cs) == {[call |-> c, retry |-> attempt[c] + 1, at |-> clock] : c \in cs}

\* Every call of cs that may retry takes a restart from the budget, in the order
\* the calls run on; those let through stop the lifecycle and back off, the
\* others fail. ends is where everyone else goes, cache and status are what is
\* left of readinessState when nothing is stopped.
FailAttempts(cs, retryable, ends, cache, status) ==
  LET asking == {c \in cs : retryable /\ MayRetry(c)}
      room == Room(Used)
  IN
  \E granted \in SUBSET asking :
    /\ Cardinality(granted) =
         IF Cardinality(asking) < room THEN Cardinality(asking) ELSE room
    /\ pc' = [c \in Calls \cup Probes |->
                IF c \in granted THEN "backoff"
                ELSE IF c \in cs THEN "failed" ELSE ends[c]]
    /\ IF asking = {}
         THEN UNCHANGED budgetVars
         ELSE /\ restartWindowStartedAt' =
                   IF WindowOver THEN clock ELSE restartWindowStartedAt
              /\ restartsInWindow' = Used + Cardinality(asking)
              /\ restartBudgetExceeded' =
                   (restartBudgetExceeded \/ Cardinality(asking) > room)
    /\ recoveryAttempts' = recoveryAttempts + Cardinality(granted)
    /\ restarts' = restarts \cup Restarts(granted)
    /\ active' = (active /\ granted = {})
    /\ checkedSinceStop' = (checkedSinceStop /\ granted = {})
    /\ readiness' = IF granted = {} THEN status ELSE "none"
    /\ cached' = IF granted = {} THEN cache ELSE CachedAfterStop
    /\ UNCHANGED <<deriveCalls, deriveAttempts, attempt, clock, stops>>

CommandEnds(c, outcome) ==
  /\ pc[c] = "executing"
  /\ IF outcome = "session"
       THEN /\ pc' = Moved({c}, "derived")
            /\ UNCHANGED <<readinessVars, lifecycleVars, budgetVars, runtimeVars,
                           awaits, attempt, clock, stops, checkedSinceStop, restarts>>
       ELSE /\ FailAttempts({c}, outcome \in {"execution_failed", "timeout"}, pc,
                            cached, readiness)
            /\ check' = Dropped(CachedOk \ {cached'})
            /\ UNCHANGED <<awaits, lastHealthStatus>>

\* The success is noted in whatever readinessState is now there.
CheckSucceeds(k) ==
  /\ check[k] = "pending"
  /\ check' = [check EXCEPT ![k] = IF cached = k THEN "ok" ELSE "unused"]
  /\ readiness' = "ok"
  /\ checkedSinceStop' = TRUE
  /\ pc' = [c \in Calls \cup Probes |->
              IF c \notin Waiting(k) THEN pc[c]
              ELSE IF c \in Calls THEN "executing" ELSE "done"]
  /\ awaits' = [c \in Calls \cup Probes |-> IF c \in Waiting(k) THEN None ELSE awaits[c]]
  /\ active' = (active \/ Waiting(k) \cap Calls # {})
  /\ lastHealthStatus' = IF Waiting(k) = {} THEN lastHealthStatus ELSE "healthy"
  /\ restartBudgetExceeded' = (restartBudgetExceeded /\ Waiting(k) \cap Calls = {})
  /\ UNCHANGED <<cached, restartWindowStartedAt, restartsInWindow, runtimeVars,
                 attempt, clock, stops, restarts>>

\* Mutants: a failed check stays cached; only those who await the cached check
\* learn that it failed.
KeepsFailed(k) == cached
Evicted(k) == None
AwaitCached(k) == IF cached = k THEN Waiting(k) ELSE {}
Rejected(k) == Waiting(k)

\* The failure of any check, also of one that is no longer cached, empties the
\* cache.
CheckFails(k) ==
  /\ check[k] = "pending"
  /\ awaits' = [c \in Calls \cup Probes |-> IF c \in Rejected(k) THEN None ELSE awaits[c]]
  /\ FailAttempts(Rejected(k) \cap Calls, TRUE,
                  Moved(Rejected(k) \cap Probes, "done"), Evicted(k), "failed")
  /\ check' = Dropped({k} \cup (CachedOk \ {cached'}))
  /\ lastHealthStatus' =
       IF Rejected(k) \cap Probes = {} THEN lastHealthStatus ELSE "unhealthy"

StopProviderLifecycle ==
  /\ stops < MaxStops
  /\ stops' = stops + 1
  /\ active' = FALSE
  /\ readiness' = "none"
  /\ cached' = CachedAfterStop
  /\ check' = Dropped(CachedOk \ {cached'})
  /\ checkedSinceStop' = FALSE
  /\ UNCHANGED <<lastHealthStatus, budgetVars, runtimeVars, callVars, clock, restarts>>

Tick ==
  /\ clock < MaxTime
  /\ clock' = clock + 1
  /\ UNCHANGED <<readinessVars, lifecycleVars, budgetVars, runtimeVars, callVars,
                 stops, checkedSinceStop, restarts>>

-----------------------------------------------------------------------------
Next ==
  \/ \E c \in Calls :
       \/ DeriveSession(c)
       \/ Retry(c)
       \/ \E outcome \in Outcomes : CommandEnds(c, outcome)
  \/ \E p \in Probes : HealthCheck(p)
  \/ \E k \in Checks : CheckSucceeds(k) \/ CheckFails(k)
  \/ StopProviderLifecycle
  \/ Tick

\* The command has a timeout, the checks end (they run go version, which, or
\* look at a file) and the timer of a back-off fires; nobody has to make calls.
Fairness ==
  /\ \A c \in Calls :
       /\ WF_vars(Retry(c))
       /\ WF_vars(\E outcome \in Outcomes : CommandEnds(c, outcome))
  /\ \A k \in Checks : WF_vars(CheckSucceeds(k) \/ CheckFails(k))

Spec == Init /\ [][Next]_vars /\ Fairness

-----------------------------------------------------------------------------
\* Types, and the counters of getProviderRuntimeState: each call makes one
\* attempt, and one more for each recovery that is past its back-off; a recovery
\* is a restart that was let through.
TypeOK ==
  /\ check \in [Checks -> {"unused", "pending", "ok"}]
  /\ cached \in Checks \cup {None}
  /\ readiness \in {"none", "ok", "failed"}
  /\ active \in BOOLEAN
  /\ lastHealthStatus \in {"unknown", "healthy", "unhealthy"}
  /\ restartWindowStartedAt \in Times \cup {None}
  /\ restartsInWindow \in Nat
  /\ restartBudgetExceeded \in BOOLEAN
  /\ deriveCalls \in Nat /\ deriveAttempts \in Nat /\ recoveryAttempts \in Nat
  /\ deriveAttempts + Cardinality({c \in Calls : pc[c] = "backoff"})
       = deriveCalls + recoveryAttempts
  /\ pc \in [Calls \cup Probes -> {"new", "checking", "executing", "backoff",
                                   "derived", "failed", "done"}]
  /\ awaits \in [Calls \cup Probes -> Checks \cup {None}]
  /\ attempt \in [Calls -> 0 .. MaxRetries]
  /\ clock \in Times
  /\ stops \in 0 .. MaxStops
  /\ checkedSinceStop \in BOOLEAN
  /\ restarts \subseteq [call : Calls, retry : 1 .. MaxRetries, at : Times]
  /\ Cardinality(restarts) = recoveryAttempts

\* An active lifecycle rests on a readiness check that succeeded after the last
\* stop, whoever stopped it and whoever asked for the check.
ActiveWasChecked == active => checkedSinceStop

\* The cache never holds a check that has failed, and a check that is awaited
\* is still running: nobody is answered with an old failure or waits for a
\* check that has ended.
CacheIsAlive ==
  /\ cached # None => check[cached] # "unused"
  /\ \A c \in Calls \cup Probes :
       (pc[c] = "checking") <=> (awaits[c] # None /\ check[awaits[c]] = "pending")

\* Nobody relies on an outdated check, although calls share checks, stop each
\* other and are overtaken by late check results.
ChecksAreCurrent == ActiveWasChecked /\ CacheIsAlive

\* The budget limits restarts by all calls together: within any period as long
\* as the window no more than twice the budget are let through (twice, because
\* the window is not a sliding one: it starts with a restart).
RestartsBounded ==
  \A t \in Times :
    Cardinality({r \in restarts : r.at \in t .. t + BudgetWindow}) <= 2 * BudgetMax

\* Every call of deriveSession and every health check ends, although they wait
\* for checks that were begun by others, evicted from the cache, or stopped.
EveryCallEnds ==
  \A c \in Calls \cup Probes :
    pc[c] # "new" ~> pc[c] \in {"derived", "failed", "done"}

=============================================================================
