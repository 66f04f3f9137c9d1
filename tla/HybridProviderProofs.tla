------------------------ MODULE HybridProviderProofs ------------------------
(***************************************************************************)
(* Proofs about HybridProvider, for any number of calls, probes, checks,   *)
(* retries and stops, any budget of restarts and any window.               *)
(***************************************************************************)
EXTENDS HybridProvider, FiniteSetTheorems, TLAPS

Everyone == Calls \cup Probes
Places == {"new", "checking", "executing", "backoff", "derived", "failed", "done"}
BackingOff == {c \in Calls : pc[c] = "backoff"}

\* TypeOK, the counters apart.
Types ==
  /\ check \in [Checks -> {"unused", "pending", "ok"}]
  /\ cached \in Checks \cup {None}
  /\ readiness \in {"none", "ok", "failed"}
  /\ active \in BOOLEAN
  /\ lastHealthStatus \in {"unknown", "healthy", "unhealthy"}
  /\ restartWindowStartedAt \in Times \cup {None}
  /\ restartsInWindow \in Nat
  /\ restartBudgetExceeded \in BOOLEAN
  /\ deriveCalls \in Nat /\ deriveAttempts \in Nat /\ recoveryAttempts \in Nat
  /\ pc \in [Everyone -> Places]
  /\ awaits \in [Everyone -> Checks \cup {None}]
  /\ attempt \in [Calls -> 0 .. MaxRetries]
  /\ clock \in Times
  /\ stops \in 0 .. MaxStops
  /\ checkedSinceStop \in BOOLEAN
  /\ restarts \subseteq [call : Calls, retry : 1 .. MaxRetries, at : Times]
Tally ==
  /\ deriveAttempts + Cardinality(BackingOff) = deriveCalls + recoveryAttempts
  /\ Cardinality(restarts) = recoveryAttempts

LEMMA TypeParts == TypeOK <=> Types /\ Tally
BY DEF TypeOK, Types, Tally, Everyone, Places, BackingOff

\* A call that backs off has a retry left.
RetryLeft == \A c \in Calls : pc[c] = "backoff" => attempt[c] < MaxRetries

\* A call or probe that is at a check awaits it, and it is still running.
WaitersAwait ==
  \A c \in Everyone :
    /\ pc[c] = "checking" <=> awaits[c] # None
    /\ awaits[c] # None => check[awaits[c]] = "pending"

\* The cache holds a check that runs, or one that succeeded after the last stop.
CacheIsCurrent ==
  cached # None => /\ check[cached] # "unused"
                   /\ check[cached] = "ok" => checkedSinceStop

\* A call takes one restart for each of its retries.
OncePerRetry ==
  \A r \in restarts :
    \/ r.retry <= attempt[r.call]
    \/ r.retry = attempt[r.call] + 1 /\ pc[r.call] = "backoff"

\* The restarts since the window began, and those of one window's length before.
InWindow == {r \in restarts : r.at >= restartWindowStartedAt}
JustBefore ==
  {r \in restarts : r.at < restartWindowStartedAt
                    /\ r.at >= restartWindowStartedAt - BudgetWindow}

\* Each of the two is within the budget, and the counter counts the first.
WindowsWithinBudget ==
  /\ IsFiniteSet(restarts)
  /\ \A r \in restarts : r.at <= clock
  /\ restartWindowStartedAt = None => restarts = {}
  /\ restartWindowStartedAt # None =>
       /\ restartWindowStartedAt <= clock
       /\ \A r \in restarts : r.at <= restartWindowStartedAt + BudgetWindow
       /\ Cardinality(InWindow) <= restartsInWindow
       /\ Cardinality(InWindow) <= BudgetMax
       /\ Cardinality(JustBefore) <= BudgetMax

CallInv == Types /\ RetryLeft /\ WaitersAwait /\ CacheIsCurrent /\ ActiveWasChecked
BudgetInv == Tally /\ OncePerRetry /\ WindowsWithinBudget /\ RestartsBounded

-----------------------------------------------------------------------------
(* What the actions do, without LET and with one place at a time.           *)

LEMMA MovedOne ==
  ASSUME Types, NEW c \in Everyone, NEW place
  PROVE  Moved({c}, place) = [pc EXCEPT ![c] = place]
BY DEF Types, Moved, Everyone

LEMMA AwaitReadyMoves ==
  ASSUME Types, CacheIsCurrent, NEW p \in Everyone, AwaitReady(p)
  PROVE  \E k \in Checks : /\ check[k] \in {"unused", "pending"}
                           /\ check' = [check EXCEPT ![k] = "pending"]
                           /\ cached' = k
                           /\ awaits' = [awaits EXCEPT ![p] = k]
                           /\ UNCHANGED readiness
<1>1. CASE cached # None /\ check[cached] = "pending"
  BY <1>1 DEF AwaitReady, readinessVars, Types
<1>2. CASE cached = None
  BY <1>2 DEF AwaitReady
<1> QED
  BY <1>1, <1>2 DEF AwaitReady

\* A call that takes another turn executes the command, or waits for a check.
LEMMA TryMoves ==
  ASSUME Types, NEW c \in Calls, Try(c)
  PROVE  /\ deriveAttempts' = deriveAttempts + 1
         /\ \/ /\ pc' = [pc EXCEPT ![c] = "executing"]
               /\ active \/ KnownReady
               /\ active' = TRUE
               /\ lastHealthStatus' \in {lastHealthStatus, "healthy"}
               /\ restartBudgetExceeded' \in BOOLEAN
               /\ UNCHANGED <<readinessVars, awaits>>
            \/ /\ pc' = [pc EXCEPT ![c] = "checking"]
               /\ AwaitReady(c)
               /\ UNCHANGED <<lifecycleVars, restartBudgetExceeded>>
<1>1. c \in Everyone
  BY DEF Everyone
<1>2. CASE active \/ KnownReady
  BY <1>1, <1>2, MovedOne DEF Try, Types
<1>3. CASE ~(active \/ KnownReady)
  BY <1>1, <1>3, MovedOne DEF Try
<1> QED
  BY <1>2, <1>3 DEF Try

LEMMA RetriesBegun ==
  ASSUME CallInv, NEW c \in Calls, pc[c] \in {"new", "backoff"}, Try(c),
         deriveCalls' \in Nat, attempt' \in [Calls -> 0 .. MaxRetries],
         \A d \in Calls \ {c} : attempt'[d] = attempt[d],
         UNCHANGED <<restartWindowStartedAt, restartsInWindow, recoveryAttempts, clock, stops,
                     checkedSinceStop, restarts>>
  PROVE  CallInv'
<1> USE DEF CallInv
<1>1. c \in Everyone /\ awaits[c] = None
  BY DEF Everyone, WaitersAwait
<1>2. deriveAttempts' \in Nat
  <2>1. deriveAttempts \in Nat
    BY DEF Types
  <2>2. deriveAttempts' = deriveAttempts + 1
    BY TryMoves
  <2> QED
    BY <2>1, <2>2
<1>3. CASE /\ pc' = [pc EXCEPT ![c] = "executing"]
           /\ active \/ KnownReady
           /\ active' = TRUE
           /\ lastHealthStatus' \in {lastHealthStatus, "healthy"}
           /\ restartBudgetExceeded' \in BOOLEAN
           /\ UNCHANGED <<readinessVars, awaits>>
  <2>1. Types'
    BY <1>1, <1>2, <1>3 DEF Types, Places, readinessVars
  <2>2. RetryLeft'
    BY <1>1, <1>3 DEF RetryLeft, Types
  <2>3. WaitersAwait'
    BY <1>1, <1>3 DEF WaitersAwait, Types, readinessVars
  <2>4. CacheIsCurrent' /\ ActiveWasChecked'
    BY <1>3 DEF CacheIsCurrent, ActiveWasChecked, KnownReady, readinessVars
  <2> QED
    BY <2>1, <2>2, <2>3, <2>4
<1>4. CASE /\ pc' = [pc EXCEPT ![c] = "checking"]
           /\ AwaitReady(c)
           /\ UNCHANGED <<lifecycleVars, restartBudgetExceeded>>
  <2>1. PICK k \in Checks : /\ check[k] \in {"unused", "pending"}
                            /\ check' = [check EXCEPT ![k] = "pending"]
                            /\ cached' = k
                            /\ awaits' = [awaits EXCEPT ![c] = k]
                            /\ UNCHANGED readiness
    BY <1>1, <1>4, AwaitReadyMoves
  <2>2. Types'
    BY <1>1, <1>2, <1>4, <2>1 DEF Types, Places, lifecycleVars
  <2>3. RetryLeft'
    BY <1>1, <1>4 DEF RetryLeft, Types
  <2>4. WaitersAwait'
    BY <1>1, <1>4, <2>1, ConstantsAssumption DEF WaitersAwait, Types
  <2>5. CacheIsCurrent' /\ ActiveWasChecked'
    BY <1>4, <2>1 DEF CacheIsCurrent, ActiveWasChecked, lifecycleVars, Types
  <2> QED
    BY <2>2, <2>3, <2>4, <2>5
<1> QED
  BY <1>3, <1>4, TryMoves

LEMMA DeriveSessionCall ==
  ASSUME CallInv, NEW c \in Calls, DeriveSession(c)
  PROVE  CallInv'
<1>1. deriveCalls' \in Nat /\ attempt' \in [Calls -> 0 .. MaxRetries]
  BY DEF DeriveSession, CallInv, Types
<1> QED
  BY <1>1, RetriesBegun DEF DeriveSession

LEMMA RetryCall ==
  ASSUME CallInv, NEW c \in Calls, Retry(c)
  PROVE  CallInv'
<1>1. attempt[c] \in 0 .. MaxRetries /\ attempt[c] < MaxRetries /\ MaxRetries \in Nat
  BY ConstantsAssumption DEF Retry, CallInv, Types, RetryLeft
<1>2. attempt' \in [Calls -> 0 .. MaxRetries]
  BY <1>1 DEF Retry, CallInv, Types
<1>3. \A d \in Calls \ {c} : attempt'[d] = attempt[d]
  BY DEF Retry, CallInv, Types
<1> QED
  BY <1>2, <1>3, RetriesBegun DEF Retry, CallInv, Types

LEMMA HealthCheckCall ==
  ASSUME CallInv, NEW p \in Probes, HealthCheck(p)
  PROVE  CallInv'
<1> USE DEF CallInv
<1>1. p \in Everyone /\ awaits[p] = None /\ p \notin Calls
  BY ConstantsAssumption DEF Everyone, WaitersAwait, HealthCheck
<1>2. CASE KnownReady
  <2>1. pc' = [pc EXCEPT ![p] = "done"] /\ UNCHANGED <<readinessVars, awaits>>
    BY <1>1, <1>2, MovedOne DEF HealthCheck
  <2>2. Types'
    BY <1>2, <2>1 DEF Types, Places, HealthCheck, readinessVars, budgetVars, runtimeVars
  <2>3. RetryLeft' /\ CacheIsCurrent' /\ ActiveWasChecked'
    BY <1>1, <2>1 DEF RetryLeft, CacheIsCurrent, ActiveWasChecked, HealthCheck, Types, readinessVars
  <2>4. WaitersAwait'
    BY <1>1, <2>1 DEF WaitersAwait, Types, readinessVars
  <2> QED
    BY <2>2, <2>3, <2>4
<1>3. CASE ~KnownReady
  <2>1. pc' = [pc EXCEPT ![p] = "checking"] /\ UNCHANGED lastHealthStatus
    BY <1>1, <1>3, MovedOne DEF HealthCheck
  <2>2. PICK k \in Checks : /\ check[k] \in {"unused", "pending"}
                            /\ check' = [check EXCEPT ![k] = "pending"]
                            /\ cached' = k
                            /\ awaits' = [awaits EXCEPT ![p] = k]
                            /\ UNCHANGED readiness
    BY <1>1, <1>3, AwaitReadyMoves DEF HealthCheck
  <2>3. Types'
    BY <2>1, <2>2 DEF Types, Places, HealthCheck, budgetVars, runtimeVars
  <2>4. RetryLeft'
    BY <1>1, <2>1 DEF RetryLeft, HealthCheck, Types
  <2>5. WaitersAwait'
    BY <1>1, <2>1, <2>2, ConstantsAssumption DEF WaitersAwait, Types
  <2>6. CacheIsCurrent' /\ ActiveWasChecked'
    BY <2>2 DEF CacheIsCurrent, ActiveWasChecked, HealthCheck, Types
  <2> QED
    BY <2>3, <2>4, <2>5, <2>6
<1> QED
  BY <1>2, <1>3

-----------------------------------------------------------------------------
\* The calls cs, whose attempt fails: those asking for a restart are granted it
\* and stop the life cycle as far as the budget allows, the others fail.
FailureOutcome(cs, ends, cache, status, granted, asking) ==
  /\ granted \subseteq asking
  /\ \A c \in asking : MayRetry(c)
  /\ Cardinality(granted) <= Room(Used)
  /\ pc' = [c \in Everyone |-> IF c \in granted THEN "backoff"
                               ELSE IF c \in cs THEN "failed" ELSE ends[c]]
  /\ IF asking = {}
       THEN UNCHANGED budgetVars
       ELSE /\ restartWindowStartedAt' =
                 IF WindowOver THEN clock ELSE restartWindowStartedAt
            /\ restartsInWindow' = Used + Cardinality(asking)
            /\ restartBudgetExceeded' \in BOOLEAN
  /\ recoveryAttempts' = recoveryAttempts + Cardinality(granted)
  /\ restarts' = restarts \cup Restarts(granted)
  /\ active' = (active /\ granted = {})
  /\ checkedSinceStop' = (checkedSinceStop /\ granted = {})
  /\ readiness' = IF granted = {} THEN status ELSE "none"
  /\ cached' = IF granted = {} THEN cache ELSE None
  /\ UNCHANGED <<deriveCalls, deriveAttempts, attempt, clock, stops>>

LEMMA FailAttemptsMoves ==
  ASSUME Types, NEW cs \in SUBSET Calls, NEW retryable \in BOOLEAN,
         NEW ends, NEW cache, NEW status, FailAttempts(cs, retryable, ends, cache, status)
  PROVE  \E granted \in SUBSET cs, asking \in SUBSET cs :
           FailureOutcome(cs, ends, cache, status, granted, asking)
<1> DEFINE asking == {c \in cs : retryable /\ MayRetry(c)}
           room == Room(Used)
<1>1. PICK granted \in SUBSET asking :
        /\ Cardinality(granted) =
             IF Cardinality(asking) < room THEN Cardinality(asking) ELSE room
        /\ pc' = [c \in Calls \cup Probes |->
                    IF c \in granted THEN "backoff"
                    ELSE IF c \in cs THEN "failed" ELSE ends[c]]
        /\ IF asking = {}
             THEN UNCHANGED budgetVars
             ELSE /\ restartWindowStartedAt' =
                       IF WindowOver THEN clock ELSE restartWindowStartedAt
                  /\ restartsInWindow' = Used + Cardinality(asking)
                  /\ restartBudgetExceeded' =
                       (restartBudgetExceeded \/ Cardinality(asking) > room)
        /\ recoveryAttempts' = recoveryAttempts + Cardinality(granted)
        /\ restarts' = restarts \cup Restarts(granted)
        /\ active' = (active /\ granted = {})
        /\ checkedSinceStop' = (checkedSinceStop /\ granted = {})
        /\ readiness' = IF granted = {} THEN status ELSE "none"
        /\ cached' = IF granted = {} THEN cache ELSE CachedAfterStop
        /\ UNCHANGED <<deriveCalls, deriveAttempts, attempt, clock, stops>>
  BY DEF FailAttempts
<1>2. Cardinality(granted) <= room
  <2>1. IsFiniteSet(asking)
    BY ConstantsAssumption, FS_Subset
  <2>2. Cardinality(asking) \in Nat
    BY <2>1, FS_CardinalityType
  <2>3. room \in Nat
    BY ConstantsAssumption DEF Room, Used, Types
  <2> HIDE DEF asking, room
  <2> QED
    BY <1>1, <2>2, <2>3
<1>3. asking # {} => restartBudgetExceeded' \in BOOLEAN
  BY <1>1 DEF Types
<1>4. /\ granted \in SUBSET cs /\ asking \in SUBSET cs
      /\ granted \subseteq asking /\ \A c \in asking : MayRetry(c)
  BY <1>1
<1> HIDE DEF asking, room
<1>5. asking \in SUBSET cs
  BY <1>4
<1> QED
  BY <1>1, <1>2, <1>3, <1>4, <1>5 DEF Everyone, CachedAfterStop, room, FailureOutcome

\* What of its types FailAttempts keeps by itself.
LEMMA FailedTypes ==
  ASSUME Types, NEW cs \in SUBSET Calls, NEW retryable \in BOOLEAN,
         NEW ends \in [Everyone -> Places], NEW cache \in Checks \cup {None},
         NEW status \in {"none", "ok", "failed"},
         FailAttempts(cs, retryable, ends, cache, status),
         check' \in [Checks -> {"unused", "pending", "ok"}],
         awaits' \in [Everyone -> Checks \cup {None}],
         lastHealthStatus' \in {"unknown", "healthy", "unhealthy"}
  PROVE  Types'
<1> PICK granted \in SUBSET cs, asking \in SUBSET cs :
           FailureOutcome(cs, ends, cache, status, granted, asking)
  BY FailAttemptsMoves
<1> USE DEF FailureOutcome
<1>1. Cardinality(granted) \in Nat /\ Cardinality(asking) \in Nat
  BY ConstantsAssumption, FS_Subset, FS_CardinalityType
<1>2. pc' \in [Everyone -> Places]
  BY DEF Places
<1>3. restarts' \subseteq [call : Calls, retry : 1 .. MaxRetries, at : Times]
  <2> SUFFICES ASSUME NEW c \in granted
               PROVE  [call |-> c, retry |-> attempt[c] + 1, at |-> clock]
                        \in [call : Calls, retry : 1 .. MaxRetries, at : Times]
    BY DEF Restarts, Types
  <2>1. attempt[c] \in 0 .. MaxRetries /\ attempt[c] < MaxRetries /\ MaxRetries \in Nat
    BY ConstantsAssumption DEF Types, MayRetry
  <2> QED
    BY <2>1 DEF Types
<1>4. /\ restartWindowStartedAt' \in Times \cup {None} /\ restartsInWindow' \in Nat
      /\ restartBudgetExceeded' \in BOOLEAN
  <2>1. Used \in Nat
    BY DEF Used, Types
  <2> QED
    BY <1>1, <2>1 DEF Types, budgetVars
<1>5. recoveryAttempts' \in Nat
  BY <1>1 DEF Types
<1> QED
  BY <1>2, <1>3, <1>4, <1>5 DEF Types

\* Checks that run are not dropped with the cached one that succeeded.
LEMMA DroppedKeepsPending ==
  ASSUME Types, NEW ks, NEW k \in Checks, check[k] = "pending", k \notin ks
  PROVE  Dropped(ks \cup (CachedOk \ {cached'}))[k] = "pending"
BY DEF Dropped, CachedOk

LEMMA DroppedTypes ==
  ASSUME Types, NEW ks
  PROVE  Dropped(ks) \in [Checks -> {"unused", "pending", "ok"}]
BY DEF Types, Dropped

LEMMA CommandEndsCall ==
  ASSUME CallInv, NEW c \in Calls, NEW outcome \in Outcomes, CommandEnds(c, outcome)
  PROVE  CallInv'
<1> USE DEF CallInv
<1>1. c \in Everyone /\ awaits[c] = None
  BY DEF Everyone, WaitersAwait, CommandEnds
<1>2. CASE outcome = "session"
  <2>1. /\ pc' = [pc EXCEPT ![c] = "derived"]
        /\ UNCHANGED <<readinessVars, lifecycleVars, budgetVars, runtimeVars,
                       awaits, attempt, clock, stops, checkedSinceStop, restarts>>
    BY <1>1, <1>2, MovedOne DEF CommandEnds
  <2>2. Types'
    BY <2>1 DEF Types, Places, readinessVars, lifecycleVars, budgetVars, runtimeVars
  <2>3. RetryLeft' /\ CacheIsCurrent' /\ ActiveWasChecked'
    BY <2>1 DEF RetryLeft, CacheIsCurrent, ActiveWasChecked, Types, readinessVars, lifecycleVars
  <2>4. WaitersAwait'
    BY <1>1, <2>1 DEF WaitersAwait, Types, readinessVars
  <2> QED
    BY <2>2, <2>3, <2>4
<1>3. CASE outcome # "session"
  <2> DEFINE retryable == outcome \in {"execution_failed", "timeout"}
  <2>1. /\ FailAttempts({c}, retryable, pc, cached, readiness)
        /\ check' = Dropped(CachedOk \ {cached'})
        /\ UNCHANGED <<awaits, lastHealthStatus>>
    BY <1>3 DEF CommandEnds
  <2>2. retryable \in BOOLEAN /\ {c} \in SUBSET Calls
    OBVIOUS
  <2> HIDE DEF retryable
  <2>3. check' \in [Checks -> {"unused", "pending", "ok"}]
    BY <2>1, DroppedTypes
  <2>4. Types'
    <3>1. /\ pc \in [Everyone -> Places] /\ cached \in Checks \cup {None}
          /\ readiness \in {"none", "ok", "failed"}
          /\ awaits' \in [Everyone -> Checks \cup {None}]
          /\ lastHealthStatus' \in {"unknown", "healthy", "unhealthy"}
      BY <2>1 DEF Types
    <3>2. Types
      OBVIOUS
    <3> QED
      BY <2>1, <2>2, <2>3, <3>1, <3>2, FailedTypes
  <2>5. PICK granted \in SUBSET {c}, asking \in SUBSET {c} :
           FailureOutcome({c}, pc, cached, readiness, granted, asking)
    BY <2>1, <2>2, FailAttemptsMoves
  <2>6. RetryLeft'
    BY <1>1, <2>5, ConstantsAssumption DEF RetryLeft, FailureOutcome, MayRetry, Everyone, Types
  <2>7. WaitersAwait'
    <3>1. \A k \in Checks : check[k] = "pending" => check'[k] = "pending"
      BY <2>1 DEF Dropped, CachedOk
    <3>2. \A d \in Everyone : d # c => pc'[d] = pc[d]
      BY <2>5 DEF FailureOutcome
    <3>3. pc'[c] # "checking"
      BY <1>1, <2>5 DEF FailureOutcome
    <3>4. \A d \in Everyone : awaits[d] # None => awaits[d] \in Checks
      BY DEF Types
    <3> QED
      BY <1>1, <2>1, <3>1, <3>2, <3>3, <3>4 DEF WaitersAwait
  <2>8. CacheIsCurrent'
    BY <2>1, <2>5 DEF CacheIsCurrent, FailureOutcome, Dropped, CachedOk, Types
  <2>9. ActiveWasChecked'
    BY <2>5 DEF ActiveWasChecked, FailureOutcome
  <2> QED
    BY <2>4, <2>6, <2>7, <2>8, <2>9
<1> QED
  BY <1>2, <1>3

LEMMA CheckSucceedsCall ==
  ASSUME CallInv, NEW k \in Checks, CheckSucceeds(k)
  PROVE  CallInv'
<1> USE DEF CallInv
<1>1. /\ pc' = [c \in Everyone |-> IF c \notin Waiting(k) THEN pc[c]
                                   ELSE IF c \in Calls THEN "executing" ELSE "done"]
      /\ awaits' = [c \in Everyone |-> IF c \in Waiting(k) THEN None ELSE awaits[c]]
      /\ check' = [check EXCEPT ![k] = IF cached = k THEN "ok" ELSE "unused"]
      /\ Waiting(k) = {c \in Everyone : awaits[c] = k}
      /\ UNCHANGED <<cached, restartWindowStartedAt, restartsInWindow, runtimeVars,
                     attempt, clock, stops, restarts>>
  BY DEF CheckSucceeds, Everyone, Waiting
<1>2. Types'
  <2>1. pc' \in [Everyone -> Places] /\ awaits' \in [Everyone -> Checks \cup {None}]
    BY <1>1 DEF Types, Places
  <2>2. check' \in [Checks -> {"unused", "pending", "ok"}]
    BY <1>1 DEF Types
  <2>3. /\ active' \in BOOLEAN /\ restartBudgetExceeded' \in BOOLEAN
        /\ lastHealthStatus' \in {"unknown", "healthy", "unhealthy"}
        /\ readiness' = "ok" /\ checkedSinceStop' = TRUE
    BY DEF CheckSucceeds, Types
  <2> QED
    BY <1>1, <2>1, <2>2, <2>3 DEF Types, runtimeVars
<1>3. RetryLeft'
  BY <1>1 DEF RetryLeft, Everyone
<1>4. WaitersAwait'
  BY <1>1, ConstantsAssumption DEF WaitersAwait, Types
<1>5. CacheIsCurrent' /\ ActiveWasChecked'
  BY <1>1 DEF CacheIsCurrent, ActiveWasChecked, CheckSucceeds, Types
<1> QED
  BY <1>2, <1>3, <1>4, <1>5

LEMMA CheckFailsCall ==
  ASSUME CallInv, NEW k \in Checks, CheckFails(k)
  PROVE  CallInv'
<1> USE DEF CallInv
<1> DEFINE waiting == Waiting(k)
           failing == waiting \cap Calls
           ends == Moved(waiting \cap Probes, "done")
<1>1. /\ awaits' = [c \in Everyone |-> IF c \in waiting THEN None ELSE awaits[c]]
      /\ FailAttempts(failing, TRUE, ends, None, "failed")
      /\ check' = Dropped({k} \cup (CachedOk \ {cached'}))
      /\ lastHealthStatus' \in {lastHealthStatus, "unhealthy"}
      /\ waiting = {c \in Everyone : awaits[c] = k}
  BY DEF CheckFails, Everyone, Waiting, Rejected, Evicted
<1>2. ends \in [Everyone -> Places] /\ failing \in SUBSET Calls
  BY DEF Moved, Types, Everyone, Places
<1>3. \A c \in Everyone : ends[c] = IF c \in waiting \cap Probes THEN "done" ELSE pc[c]
  BY DEF Moved, Everyone
<1> HIDE DEF waiting, ends
<1>4. awaits' \in [Everyone -> Checks \cup {None}]
  BY <1>1 DEF Types
<1>5. Types'
  <2>1. check' \in [Checks -> {"unused", "pending", "ok"}]
    BY <1>1, DroppedTypes
  <2>2. lastHealthStatus' \in {"unknown", "healthy", "unhealthy"}
    BY <1>1 DEF Types
  <2> HIDE DEF failing
  <2> QED
    BY <1>1, <1>2, <1>4, <2>1, <2>2, FailedTypes
<1>6. PICK granted \in SUBSET failing, asking \in SUBSET failing :
         FailureOutcome(failing, ends, None, "failed", granted, asking)
  <2> HIDE DEF failing
  <2> QED
    BY <1>1, <1>2, FailAttemptsMoves
<1>7. RetryLeft'
  <2> SUFFICES ASSUME NEW c \in Calls, pc'[c] = "backoff"
               PROVE  attempt'[c] < MaxRetries
    BY DEF RetryLeft
  <2>1. c \in Everyone
    BY DEF Everyone
  <2>2. c \in granted \/ pc[c] = "backoff"
    BY <1>3, <1>6, <2>1 DEF FailureOutcome
  <2> QED
    BY <1>6, <2>2 DEF FailureOutcome, RetryLeft, MayRetry
<1>8. WaitersAwait'
  <2> SUFFICES ASSUME NEW c \in Everyone
               PROVE  /\ pc'[c] = "checking" <=> awaits'[c] # None
                      /\ awaits'[c] # None => check'[awaits'[c]] = "pending"
    BY DEF WaitersAwait
  <2>1. CASE c \in waiting
    <3>1. c \in failing \/ c \in waiting \cap Probes
      BY <1>1, <2>1 DEF Everyone
    <3>2. pc'[c] # "checking"
      BY <1>3, <1>6, <3>1 DEF FailureOutcome
    <3> QED
      BY <1>1, <2>1, <3>2
  <2>2. CASE c \notin waiting
    <3>1. pc'[c] = pc[c] /\ awaits'[c] = awaits[c] /\ awaits[c] # k
      BY <1>1, <1>3, <1>6, <2>2 DEF FailureOutcome
    <3>2. awaits[c] # None => check'[awaits[c]] = "pending"
      <4> HAVE awaits[c] # None
      <4>1. awaits[c] \in Checks /\ check[awaits[c]] = "pending" /\ awaits[c] \notin {k}
        BY <3>1 DEF WaitersAwait, Types
      <4> QED
        BY <1>1, <4>1, DroppedKeepsPending
    <3> QED
      BY <3>1, <3>2 DEF WaitersAwait
  <2> QED
    BY <2>1, <2>2
<1>9. CacheIsCurrent' /\ ActiveWasChecked'
  BY <1>6 DEF CacheIsCurrent, ActiveWasChecked, FailureOutcome
<1> QED
  BY <1>5, <1>7, <1>8, <1>9

LEMMA StopCall ==
  ASSUME CallInv, StopProviderLifecycle
  PROVE  CallInv'
<1> USE DEF CallInv
<1>1. \A k \in Checks : check[k] = "pending" => check'[k] = "pending"
  BY DEF StopProviderLifecycle, Dropped, CachedOk
<1>2. Types'
  <2>1. check' \in [Checks -> {"unused", "pending", "ok"}]
    BY DroppedTypes DEF StopProviderLifecycle
  <2>2. stops' \in 0 .. MaxStops
    BY ConstantsAssumption DEF Types, StopProviderLifecycle
  <2> QED
    BY <2>1, <2>2 DEF Types, StopProviderLifecycle, CachedAfterStop, budgetVars, runtimeVars,
       callVars
<1>3. WaitersAwait'
  <2>1. \A d \in Everyone : awaits[d] # None => awaits[d] \in Checks
    BY DEF Types
  <2> QED
    BY <1>1, <2>1 DEF WaitersAwait, StopProviderLifecycle, callVars
<1> QED
  BY <1>2, <1>3 DEF StopProviderLifecycle, CachedAfterStop, RetryLeft, CacheIsCurrent,
     ActiveWasChecked, callVars

LEMMA TickCall == CallInv /\ Tick => CallInv'
BY ConstantsAssumption
   DEF CallInv, Tick, Types, RetryLeft, WaitersAwait, CacheIsCurrent, ActiveWasChecked, Times,
       readinessVars, lifecycleVars, budgetVars, runtimeVars, callVars

LEMMA CallsPreserved == CallInv /\ [Next]_vars => CallInv'
<1> SUFFICES ASSUME CallInv, [Next]_vars
             PROVE  CallInv'
  OBVIOUS
<1>1. CASE UNCHANGED vars
  BY <1>1 DEF vars, CallInv, Types, RetryLeft, WaitersAwait, CacheIsCurrent, ActiveWasChecked,
     readinessVars, lifecycleVars, budgetVars, runtimeVars, callVars
<1> QED
  BY <1>1, DeriveSessionCall, RetryCall, CommandEndsCall, HealthCheckCall, CheckSucceedsCall,
     CheckFailsCall, StopCall, TickCall DEF Next

-----------------------------------------------------------------------------
(* The budget of restarts.                                                  *)

WindowVars == <<restartWindowStartedAt, restartsInWindow, restarts>>

LEMMA UnionBound ==
  ASSUME NEW S, NEW T, IsFiniteSet(S), IsFiniteSet(T)
  PROVE  /\ IsFiniteSet(S \cup T) /\ Cardinality(S \cup T) \in Nat
         /\ Cardinality(S) \in Nat /\ Cardinality(T) \in Nat
         /\ Cardinality(S \cup T) <= Cardinality(S) + Cardinality(T)
         /\ S \cap T = {} => Cardinality(S \cup T) = Cardinality(S) + Cardinality(T)
<1>1. IsFiniteSet(S \cap T)
  BY FS_Intersection
<1>2. /\ Cardinality(S \cap T) \in Nat /\ Cardinality(S \cup T) \in Nat
      /\ Cardinality(S) \in Nat /\ Cardinality(T) \in Nat
  BY <1>1, FS_Union, FS_CardinalityType
<1>3. /\ IsFiniteSet(S \cup T)
      /\ Cardinality(S \cup T) = Cardinality(S) + Cardinality(T) - Cardinality(S \cap T)
  BY FS_Union
<1>4. S \cap T = {} => Cardinality(S \cap T) = 0
  BY FS_EmptySet
<1> QED
  BY <1>2, <1>3, <1>4

LEMMA BackingOffFinite ==
  Types => IsFiniteSet(BackingOff) /\ Cardinality(BackingOff) \in Nat
BY ConstantsAssumption, FS_Subset, FS_CardinalityType DEF BackingOff

\* A step in which nobody asks for a restart.
LEMMA NobodyAsks ==
  ASSUME Types, BudgetInv, UNCHANGED WindowVars, clock' \in Times, clock' >= clock
  PROVE  WindowsWithinBudget' /\ RestartsBounded'
<1>1. InWindow' = InWindow /\ JustBefore' = JustBefore
  BY DEF InWindow, JustBefore, WindowVars
<1>2. \A r \in restarts : r.at <= clock /\ r.at \in Nat
  BY DEF BudgetInv, WindowsWithinBudget, Types, Times
<1>3. clock \in Nat /\ clock' \in Nat
  BY DEF Types, Times
<1>4. restartWindowStartedAt # None => restartWindowStartedAt \in Nat
  BY DEF Types, Times
<1>5. WindowsWithinBudget'
  <2>1. \A r \in restarts : r.at <= clock'
    BY <1>2, <1>3
  <2>2. restartWindowStartedAt # None => restartWindowStartedAt <= clock'
    BY <1>3, <1>4 DEF BudgetInv, WindowsWithinBudget
  <2> QED
    BY <1>1, <2>1, <2>2 DEF BudgetInv, WindowsWithinBudget, WindowVars
<1>6. RestartsBounded'
  BY DEF BudgetInv, RestartsBounded, WindowVars
<1> QED
  BY <1>5, <1>6

LEMMA BudgetFrame ==
  ASSUME CallInv, BudgetInv, UNCHANGED <<WindowVars, recoveryAttempts, attempt>>,
         clock' \in Times, clock' >= clock, BackingOff' = BackingOff,
         \/ UNCHANGED <<deriveAttempts, deriveCalls>>
         \/ deriveAttempts' = deriveAttempts + 1 /\ deriveCalls' = deriveCalls + 1
  PROVE  BudgetInv'
<1>1. WindowsWithinBudget' /\ RestartsBounded'
  BY NobodyAsks DEF CallInv
<1>2. Tally'
  <2>1. Cardinality(BackingOff) \in Nat /\ deriveAttempts \in Nat /\ deriveCalls \in Nat
        /\ recoveryAttempts \in Nat
    BY BackingOffFinite DEF CallInv, Types
  <2>2. UNCHANGED <<restarts, recoveryAttempts>>
    BY DEF WindowVars
  <2>3. Tally
    BY DEF BudgetInv
  <2>4. deriveAttempts + Cardinality(BackingOff) = deriveCalls + recoveryAttempts
        /\ Cardinality(restarts) = recoveryAttempts
    BY <2>3 DEF Tally
  <2>5. deriveAttempts' + Cardinality(BackingOff) = deriveCalls' + recoveryAttempts
    BY <2>1, <2>4
  <2> QED
    BY <2>2, <2>4, <2>5 DEF Tally
<1>3. OncePerRetry'
  BY DEF BudgetInv, OncePerRetry, WindowVars, BackingOff, CallInv, Types
<1> QED
  BY <1>1, <1>2, <1>3 DEF BudgetInv

\* A restart is noted once for each call that is granted it.
LEMMA RestartsCounted ==
  ASSUME Types, NEW granted \in SUBSET Calls
  PROVE  /\ IsFiniteSet(granted) /\ IsFiniteSet(Restarts(granted))
         /\ Cardinality(granted) \in Nat
         /\ Cardinality(Restarts(granted)) = Cardinality(granted)
<1> DEFINE f == [c \in granted |-> [call |-> c, retry |-> attempt[c] + 1, at |-> clock]]
<1>1. IsFiniteSet(granted)
  BY ConstantsAssumption, FS_Subset
<1>2. f \in [granted -> Restarts(granted)]
  BY DEF Restarts
<1>3. \A a, b \in granted : f[a] = f[b] => a = b
  <2> TAKE a, b \in granted
  <2>1. f[a].call = a /\ f[b].call = b
    OBVIOUS
  <2> QED
    BY <2>1
<1>4. \A r \in Restarts(granted) : \E c \in granted : f[c] = r
  BY DEF Restarts
<1> HIDE DEF f
<1>5. f \in Bijection(granted, Restarts(granted))
  BY <1>2, <1>3, <1>4 DEF Bijection, Injection, Surjection, IsInjective
<1> QED
  BY <1>1, <1>5, FS_Bijection, FS_CardinalityType DEF ExistsBijection

\* The restarts granted at one moment keep every window within the budget: what
\* was granted in a window that is over lies just before the next one.
LEMMA GrantsWithinBudget ==
  ASSUME Types, BudgetInv, NEW granted \in SUBSET Calls, NEW asking \in Nat,
         Cardinality(granted) <= asking, Cardinality(granted) <= Room(Used),
         restartWindowStartedAt' = IF WindowOver THEN clock ELSE restartWindowStartedAt,
         restartsInWindow' = Used + asking,
         restarts' = restarts \cup Restarts(granted),
         UNCHANGED clock
  PROVE  WindowsWithinBudget' /\ RestartsBounded'
<1> DEFINE W == restartWindowStartedAt
           new == Restarts(granted)
<1>1. /\ clock \in Nat /\ BudgetWindow \in Nat /\ BudgetMax \in Nat
      /\ restartsInWindow \in Nat
      /\ W # None => W \in Nat
      /\ \A r \in restarts : r.at \in Nat /\ r.at <= clock
  BY ConstantsAssumption DEF BudgetInv, WindowsWithinBudget, Types, Times
<1>2. IsFiniteSet(new) /\ Cardinality(new) = Cardinality(granted) /\ Cardinality(new) \in Nat
  BY RestartsCounted
<1>3. \A r \in new : r.at = clock
  BY DEF Restarts
<1>4. IsFiniteSet(restarts) /\ IsFiniteSet(restarts')
  BY <1>2, FS_Union DEF BudgetInv, WindowsWithinBudget
<1>5. W' \in Nat /\ W' <= clock /\ clock <= W' + BudgetWindow /\ clock \in Times /\ W' # None
  <2>1. CASE WindowOver
    BY <1>1, <2>1, ConstantsAssumption DEF Types
  <2>2. CASE ~WindowOver
    BY <1>1, <2>2, ConstantsAssumption DEF WindowOver, Types, BudgetInv, WindowsWithinBudget
  <2> QED
    BY <2>1, <2>2
<1>6. /\ Cardinality(InWindow') \in Nat
      /\ Cardinality(InWindow') <= BudgetMax /\ Cardinality(InWindow') <= restartsInWindow'
  <2>1. CASE WindowOver
    <3>1. \A r \in restarts : r.at < clock
      BY <1>1, <2>1 DEF WindowOver, BudgetInv, WindowsWithinBudget
    <3>2. W' = clock
      BY <2>1
    <3>3. InWindow' = new
      BY <1>1, <1>3, <3>1, <3>2 DEF InWindow
    <3>4. Used = 0
      BY <2>1 DEF Used
    <3>5. Room(0) <= BudgetMax /\ Room(0) \in Nat
      BY <1>1 DEF Room
    <3> QED
      BY <1>1, <1>2, <3>3, <3>4, <3>5
  <2>2. CASE ~WindowOver
    <3>1. W' = W /\ W # None /\ W <= clock /\ Used = restartsInWindow
      BY <2>2 DEF WindowOver, Used, BudgetInv, WindowsWithinBudget
    <3>2. InWindow' = InWindow \cup new
      BY <1>3, <3>1 DEF InWindow
    <3>3. IsFiniteSet(InWindow) /\ Cardinality(InWindow) \in Nat
      BY <1>4, FS_Subset, FS_CardinalityType DEF InWindow
    <3>4. IsFiniteSet(InWindow \cup new)
          /\ Cardinality(InWindow \cup new) <= Cardinality(InWindow) + Cardinality(new)
          /\ Cardinality(InWindow \cup new) \in Nat
      BY <1>2, <3>3, UnionBound
    <3>5. Cardinality(InWindow) <= restartsInWindow /\ Cardinality(InWindow) <= BudgetMax
      BY <3>1 DEF BudgetInv, WindowsWithinBudget
    <3>6. Room(Used) = IF restartsInWindow < BudgetMax THEN BudgetMax - restartsInWindow ELSE 0
      BY <3>1 DEF Room
    <3>7. Cardinality(InWindow \cup new) <= BudgetMax
      BY <1>1, <1>2, <3>3, <3>4, <3>5, <3>6
    <3>8. Cardinality(InWindow \cup new) <= restartsInWindow'
      BY <1>1, <1>2, <3>1, <3>3, <3>4, <3>5
    <3> QED
      BY <3>2, <3>4, <3>7, <3>8
  <2> QED
    BY <2>1, <2>2
<1>7. Cardinality(JustBefore') \in Nat /\ Cardinality(JustBefore') <= BudgetMax
  <2>0. IsFiniteSet(JustBefore') /\ IsFiniteSet(JustBefore) /\ IsFiniteSet(InWindow)
    BY <1>4, FS_Subset DEF JustBefore, InWindow
  <2>1. CASE W = None
    <3>1. restarts = {} /\ W' = clock
      BY <2>1 DEF BudgetInv, WindowsWithinBudget, WindowOver
    <3>2. JustBefore' = {}
      BY <1>1, <1>3, <3>1 DEF JustBefore
    <3> QED
      BY <1>1, <3>2, FS_EmptySet
  <2>2. CASE W # None /\ WindowOver
    <3>1. W' = clock /\ clock - W > BudgetWindow
      BY <2>2 DEF WindowOver
    <3>2. JustBefore' \subseteq InWindow
      BY <1>1, <1>3, <2>2, <3>1 DEF JustBefore, InWindow
    <3>3. Cardinality(InWindow) <= BudgetMax
      BY <2>2 DEF BudgetInv, WindowsWithinBudget
    <3> QED
      BY <1>1, <2>0, <3>2, <3>3, FS_Subset, FS_CardinalityType
  <2>3. CASE W # None /\ ~WindowOver
    <3>1. W' = W /\ W <= clock
      BY <2>3 DEF BudgetInv, WindowsWithinBudget
    <3>2. JustBefore' = JustBefore
      BY <1>1, <1>3, <2>3, <3>1 DEF JustBefore
    <3>3. Cardinality(JustBefore) <= BudgetMax
      BY <2>3 DEF BudgetInv, WindowsWithinBudget
    <3> QED
      BY <2>0, <3>2, <3>3, FS_CardinalityType
  <2> QED
    BY <2>1, <2>2, <2>3
<1>8. WindowsWithinBudget'
  <2>1. \A r \in restarts' : r.at <= clock'
    BY <1>1, <1>3
  <2>2. \A r \in restarts' : r.at <= W' + BudgetWindow
    BY <1>1, <1>3, <1>5
  <2> QED
    BY <1>4, <1>5, <1>6, <1>7, <2>1, <2>2 DEF WindowsWithinBudget
<1>9. RestartsBounded'
  <2> SUFFICES ASSUME NEW t \in Times
               PROVE  Cardinality({r \in restarts' : r.at \in t .. t + BudgetWindow})
                        <= 2 * BudgetMax
    BY DEF RestartsBounded
  <2> DEFINE S == {r \in restarts' : r.at \in t .. t + BudgetWindow}
  <2>1. t \in Nat
    BY DEF Times
  <2>2. CASE clock \in t .. t + BudgetWindow
    <3>1. S \subseteq InWindow' \cup JustBefore'
      BY <1>1, <1>3, <1>5, <2>1, <2>2 DEF InWindow, JustBefore
    <3>2. IsFiniteSet(InWindow') /\ IsFiniteSet(JustBefore')
      BY <1>4, FS_Subset DEF JustBefore, InWindow
    <3>3. IsFiniteSet(InWindow' \cup JustBefore') /\ Cardinality(InWindow' \cup JustBefore') \in Nat
          /\ Cardinality(InWindow' \cup JustBefore') <= Cardinality(InWindow') + Cardinality(JustBefore')
      BY <3>2, UnionBound
    <3>4. Cardinality(S) \in Nat /\ Cardinality(S) <= Cardinality(InWindow' \cup JustBefore')
      BY <3>1, <3>3, FS_Subset, FS_CardinalityType
    <3> QED
      BY <1>1, <1>6, <1>7, <3>3, <3>4
  <2>3. CASE clock \notin t .. t + BudgetWindow
    <3>1. S = {r \in restarts : r.at \in t .. t + BudgetWindow}
      BY <1>3, <2>3
    <3> QED
      BY <3>1 DEF BudgetInv, RestartsBounded
  <2> QED
    BY <2>2, <2>3
<1> QED
  BY <1>8, <1>9

LEMMA TryBudget ==
  ASSUME CallInv, NEW c \in Calls, Try(c)
  PROVE  /\ deriveAttempts' = deriveAttempts + 1
         /\ BackingOff' = BackingOff \ {c}
<1>1. deriveAttempts \in Nat /\ deriveAttempts' = deriveAttempts + 1
  BY TryMoves DEF CallInv, Types
<1>2. pc' \in {[pc EXCEPT ![c] = "executing"], [pc EXCEPT ![c] = "checking"]}
  BY TryMoves DEF CallInv
<1>3. BackingOff' = BackingOff \ {c}
  BY <1>2 DEF BackingOff, CallInv, Types, Everyone
<1> QED
  BY <1>1, <1>3

LEMMA DeriveSessionBudget ==
  ASSUME CallInv, BudgetInv, NEW c \in Calls, DeriveSession(c)
  PROVE  BudgetInv'
<1>1. Try(c) /\ pc[c] = "new" /\ deriveCalls' = deriveCalls + 1
      /\ UNCHANGED <<restartWindowStartedAt, restartsInWindow, recoveryAttempts,
                     attempt, clock, stops, checkedSinceStop, restarts>>
  BY DEF DeriveSession
<1>2. BackingOff' = BackingOff
  BY <1>1, TryBudget DEF BackingOff
<1>3. /\ deriveAttempts' = deriveAttempts + 1 /\ deriveAttempts \in Nat /\ deriveCalls \in Nat
      /\ clock \in Times /\ clock \in Nat
  BY <1>1, TryBudget DEF CallInv, Types, Times
<1> QED
  BY <1>1, <1>2, <1>3, BudgetFrame DEF WindowVars

LEMMA RetryBudget ==
  ASSUME CallInv, BudgetInv, NEW c \in Calls, Retry(c)
  PROVE  BudgetInv'
<1>1. /\ Try(c) /\ pc[c] = "backoff" /\ attempt' = [attempt EXCEPT ![c] = @ + 1]
      /\ UNCHANGED <<restartWindowStartedAt, restartsInWindow, deriveCalls,
                     recoveryAttempts, clock, stops, checkedSinceStop, restarts>>
  BY DEF Retry
<1>2. /\ deriveAttempts' = deriveAttempts + 1 /\ BackingOff' = BackingOff \ {c}
      /\ c \in BackingOff
  BY <1>1, TryBudget DEF BackingOff
<1>3. /\ deriveAttempts \in Nat /\ deriveCalls \in Nat /\ recoveryAttempts \in Nat
      /\ clock \in Times /\ clock \in Nat /\ Types
  BY DEF CallInv, Types, Times
<1>4. WindowsWithinBudget' /\ RestartsBounded'
  BY <1>1, <1>3, NobodyAsks DEF WindowVars
<1>5. Tally'
  <2>1. IsFiniteSet(BackingOff) /\ Cardinality(BackingOff) \in Nat
    BY <1>3, BackingOffFinite
  <2>2. Cardinality(BackingOff') = Cardinality(BackingOff) - 1
    BY <1>2, <2>1, FS_RemoveElement
  <2> QED
    BY <1>1, <1>2, <1>3, <2>1, <2>2 DEF BudgetInv, Tally
<1>6. OncePerRetry'
  <2> SUFFICES ASSUME NEW r \in restarts
               PROVE  r.retry <= attempt'[r.call]
                        \/ (r.retry = attempt'[r.call] + 1 /\ pc'[r.call] = "backoff")
    BY <1>1 DEF OncePerRetry
  <2>1. r.call \in Calls /\ r.retry \in Nat
    BY <1>3 DEF Types
  <2>2. attempt[r.call] \in Nat
    BY <1>3, <2>1, ConstantsAssumption DEF Types
  <2>3. r.retry <= attempt[r.call] \/ (r.retry = attempt[r.call] + 1 /\ pc[r.call] = "backoff")
    BY DEF BudgetInv, OncePerRetry
  <2>4. CASE r.call = c
    <3>1. attempt'[r.call] = attempt[r.call] + 1
      BY <1>1, <1>3, <2>1, <2>4 DEF Types
    <3> QED
      BY <2>1, <2>2, <2>3, <3>1
  <2>5. CASE r.call # c
    <3>1. attempt'[r.call] = attempt[r.call]
      BY <1>1, <1>3, <2>1, <2>5 DEF Types
    <3>2. pc[r.call] = "backoff" => pc'[r.call] = "backoff"
      BY <1>2, <2>1, <2>5 DEF BackingOff
    <3> QED
      BY <2>3, <3>1, <3>2
  <2> QED
    BY <2>4, <2>5
<1> QED
  BY <1>4, <1>5, <1>6 DEF BudgetInv

\* The failing calls were not backing off; the granted ones now are.
LEMMA FailuresBudget ==
  ASSUME CallInv, BudgetInv, NEW cs \in SUBSET Calls, \A c \in cs : pc[c] # "backoff",
         NEW ends, \A c \in Calls \ cs : ends[c] = pc[c],
         NEW cache, NEW status, NEW granted \in SUBSET cs, NEW asking \in SUBSET cs,
         FailureOutcome(cs, ends, cache, status, granted, asking)
  PROVE  BudgetInv'
<1> USE DEF FailureOutcome
<1>1. Types /\ granted \in SUBSET Calls
  BY DEF CallInv
<1>2. /\ IsFiniteSet(granted) /\ IsFiniteSet(Restarts(granted))
      /\ Cardinality(granted) \in Nat
      /\ Cardinality(Restarts(granted)) = Cardinality(granted)
  BY <1>1, RestartsCounted
<1>3. IsFiniteSet(asking) /\ Cardinality(asking) \in Nat /\ Cardinality(granted) <= Cardinality(asking)
  <2>1. IsFiniteSet(asking)
    BY ConstantsAssumption, FS_Subset
  <2> QED
    BY <2>1, FS_Subset, FS_CardinalityType
<1>4. clock \in Times /\ clock \in Nat
  BY <1>1 DEF Types, Times
<1>5. WindowsWithinBudget' /\ RestartsBounded'
  <2>1. CASE asking = {}
    <3>1. UNCHANGED WindowVars
      BY <2>1 DEF Restarts, WindowVars, budgetVars
    <3> QED
      BY <1>1, <1>4, <3>1, NobodyAsks
  <2>2. CASE asking # {}
    BY <1>1, <1>3, <2>2, GrantsWithinBudget
  <2> QED
    BY <2>1, <2>2
<1>6. \A c \in Calls : pc'[c] = IF c \in granted THEN "backoff"
                                ELSE IF c \in cs THEN "failed" ELSE pc[c]
  BY DEF Everyone
<1>7. BackingOff' = BackingOff \cup granted /\ BackingOff \cap granted = {}
  BY <1>6 DEF BackingOff
<1>8. OncePerRetry'
  <2> SUFFICES ASSUME NEW r \in restarts'
               PROVE  r.retry <= attempt[r.call]
                        \/ (r.retry = attempt[r.call] + 1 /\ pc'[r.call] = "backoff")
    BY DEF OncePerRetry
  <2>1. CASE r \in restarts
    <3>1. r.call \in Calls
      BY <1>1, <2>1 DEF Types
    <3> QED
      BY <1>7, <2>1, <3>1 DEF BudgetInv, OncePerRetry, BackingOff
  <2>2. CASE r \in Restarts(granted)
    <3>1. r.call \in granted /\ r.retry = attempt[r.call] + 1
      BY <2>2 DEF Restarts
    <3> QED
      BY <1>6, <3>1
  <2> QED
    BY <2>1, <2>2
<1>9. Tally'
  <2>1. restarts \cap Restarts(granted) = {}
    <3> SUFFICES ASSUME NEW r \in restarts, r \in Restarts(granted)
                 PROVE  FALSE
      OBVIOUS
    <3>1. r.call \in granted /\ r.retry = attempt[r.call] + 1 /\ attempt[r.call] \in Nat
      BY <1>1, ConstantsAssumption DEF Restarts, Types
    <3>2. pc[r.call] # "backoff"
      BY <3>1
    <3> QED
      BY <3>1, <3>2 DEF BudgetInv, OncePerRetry
  <2>2. Cardinality(restarts') = Cardinality(restarts) + Cardinality(granted)
    BY <1>2, <2>1, UnionBound DEF BudgetInv, WindowsWithinBudget
  <2>3. /\ Cardinality(BackingOff') = Cardinality(BackingOff) + Cardinality(granted)
        /\ Cardinality(BackingOff) \in Nat
    BY <1>1, <1>2, <1>7, BackingOffFinite, UnionBound
  <2>4. deriveAttempts \in Nat /\ deriveCalls \in Nat /\ recoveryAttempts \in Nat
    BY <1>1 DEF Types
  <2> QED
    BY <1>2, <2>2, <2>3, <2>4 DEF BudgetInv, Tally
<1> QED
  BY <1>5, <1>8, <1>9 DEF BudgetInv

LEMMA CommandEndsBudget ==
  ASSUME CallInv, BudgetInv, NEW c \in Calls, NEW outcome \in Outcomes, CommandEnds(c, outcome)
  PROVE  BudgetInv'
<1>1. pc[c] = "executing" /\ c \in Everyone /\ Types
  BY DEF CommandEnds, Everyone, CallInv
<1>2. CASE outcome = "session"
  <2>1. /\ pc' = [pc EXCEPT ![c] = "derived"]
        /\ UNCHANGED <<budgetVars, runtimeVars, attempt, clock, restarts>>
    BY <1>1, <1>2, MovedOne DEF CommandEnds
  <2>2. BackingOff' = BackingOff
    BY <1>1, <2>1 DEF BackingOff, Types
  <2>3. clock \in Times /\ clock \in Nat /\ deriveAttempts \in Nat /\ deriveCalls \in Nat
    BY <1>1 DEF Types, Times
  <2> QED
    BY <2>1, <2>2, <2>3, BudgetFrame DEF WindowVars, budgetVars, runtimeVars
<1>3. CASE outcome # "session"
  <2> DEFINE retryable == outcome \in {"execution_failed", "timeout"}
  <2>1. FailAttempts({c}, retryable, pc, cached, readiness)
    BY <1>3 DEF CommandEnds
  <2>2. retryable \in BOOLEAN /\ {c} \in SUBSET Calls
    OBVIOUS
  <2> HIDE DEF retryable
  <2>3. PICK granted \in SUBSET {c}, asking \in SUBSET {c} :
           FailureOutcome({c}, pc, cached, readiness, granted, asking)
    BY <1>1, <2>1, <2>2, FailAttemptsMoves
  <2> QED
    BY <1>1, <2>2, <2>3, FailuresBudget
<1> QED
  BY <1>2, <1>3

LEMMA CheckFailsBudget ==
  ASSUME CallInv, BudgetInv, NEW k \in Checks, CheckFails(k)
  PROVE  BudgetInv'
<1> DEFINE failing == Waiting(k) \cap Calls
           ends == Moved(Waiting(k) \cap Probes, "done")
<1>1. FailAttempts(failing, TRUE, ends, None, "failed")
  BY DEF CheckFails, Rejected, Evicted
<1>2. \A c \in failing : pc[c] # "backoff"
  BY ConstantsAssumption DEF CallInv, WaitersAwait, Waiting, Everyone
<1>3. \A c \in Calls \ failing : ends[c] = pc[c]
  BY ConstantsAssumption DEF Moved
<1>4. failing \in SUBSET Calls
  OBVIOUS
<1> HIDE DEF failing, ends
<1>5. PICK granted \in SUBSET failing, asking \in SUBSET failing :
         FailureOutcome(failing, ends, None, "failed", granted, asking)
  BY <1>1, <1>4, FailAttemptsMoves DEF CallInv
<1> QED
  BY <1>2, <1>3, <1>4, <1>5, FailuresBudget

\* The other actions neither ask for a restart nor end a back-off.
LEMMA OthersBudget ==
  ASSUME CallInv, BudgetInv,
         \/ \E p \in Probes : HealthCheck(p)
         \/ \E k \in Checks : CheckSucceeds(k)
         \/ StopProviderLifecycle \/ Tick \/ UNCHANGED vars
  PROVE  BudgetInv'
<1>1. Types /\ clock \in Times /\ clock \in Nat /\ deriveAttempts \in Nat /\ deriveCalls \in Nat
  BY DEF CallInv, Types, Times
<1>2. ASSUME NEW p \in Probes, HealthCheck(p)
      PROVE  BackingOff' = BackingOff /\ UNCHANGED <<budgetVars, runtimeVars, attempt, clock, restarts>>
  <2>1. pc' \in {[pc EXCEPT ![p] = "done"], [pc EXCEPT ![p] = "checking"]} /\ p \notin Calls
    BY <1>1, <1>2, MovedOne, ConstantsAssumption DEF HealthCheck, Everyone
  <2> QED
    BY <1>1, <1>2, <2>1 DEF HealthCheck, BackingOff, Types, Everyone
<1>3. ASSUME NEW k \in Checks, CheckSucceeds(k)
      PROVE  /\ BackingOff' = BackingOff
             /\ UNCHANGED <<restartWindowStartedAt, restartsInWindow, runtimeVars, attempt, clock,
                            restarts>>
  <2>1. \A c \in Waiting(k) : pc[c] # "backoff"
    BY ConstantsAssumption DEF CallInv, WaitersAwait, Waiting, Everyone
  <2> QED
    BY <1>3, <2>1 DEF CheckSucceeds, BackingOff
<1>4. CASE StopProviderLifecycle \/ UNCHANGED vars
  BY <1>1, <1>4, BudgetFrame
     DEF StopProviderLifecycle, vars, WindowVars, budgetVars, runtimeVars, callVars, BackingOff
<1>5. CASE Tick
  <2>1. clock' \in Times /\ clock' >= clock
    BY <1>1, <1>5, ConstantsAssumption DEF Tick, Times
  <2> QED
    BY <1>1, <1>5, <2>1, BudgetFrame DEF Tick, WindowVars, budgetVars, runtimeVars, callVars, BackingOff
<1> QED
  BY <1>1, <1>2, <1>3, <1>4, <1>5, BudgetFrame DEF WindowVars, budgetVars, runtimeVars

LEMMA BudgetPreserved == CallInv /\ BudgetInv /\ [Next]_vars => BudgetInv'
BY DeriveSessionBudget, RetryBudget, CommandEndsBudget, CheckFailsBudget, OthersBudget DEF Next

LEMMA InvInitially == Init => CallInv /\ BudgetInv
<1> SUFFICES ASSUME Init
             PROVE  CallInv /\ BudgetInv
  OBVIOUS
<1>1. Types
  <2>1. /\ MaxTime \in Nat \ {0} /\ MaxStops \in Nat /\ MaxRetries \in Nat
    BY ConstantsAssumption
  <2> QED
    <3>1. /\ check \in [Checks -> {"unused", "pending", "ok"}]
          /\ pc \in [Everyone -> Places]
          /\ awaits \in [Everyone -> Checks \cup {None}]
      BY DEF Init, Everyone, Places
    <3>2. attempt \in [Calls -> 0 .. MaxRetries] /\ clock \in Times /\ stops \in 0 .. MaxStops
      BY <2>1 DEF Init, Times
    <3> QED
      BY <3>1, <3>2 DEF Init, Types
<1>2. RetryLeft /\ WaitersAwait /\ CacheIsCurrent /\ ActiveWasChecked
  BY DEF Init, RetryLeft, WaitersAwait, CacheIsCurrent, ActiveWasChecked, Everyone
<1>3. BackingOff = {} /\ restarts = {}
  BY DEF Init, BackingOff
<1>4. Tally /\ OncePerRetry /\ WindowsWithinBudget
  BY <1>3, FS_EmptySet DEF Init, Tally, OncePerRetry, WindowsWithinBudget
<1>5. RestartsBounded
  <2>1. BudgetMax \in Nat
    BY ConstantsAssumption
  <2>2. \A t \in Times : {r \in restarts : r.at \in t .. t + BudgetWindow} = {}
    BY <1>3
  <2>3. 0 <= 2 * BudgetMax /\ Cardinality({}) = 0
    BY <2>1, FS_EmptySet
  <2> QED
    BY <2>2, <2>3 DEF RestartsBounded
<1> QED
  BY <1>1, <1>2, <1>4, <1>5 DEF CallInv, BudgetInv

LEMMA InvHolds == Init /\ [][Next]_vars => [](CallInv /\ BudgetInv)
BY InvInitially, CallsPreserved, BudgetPreserved, PTL

\* Every field has its type, and the counters that getProviderRuntimeState
\* reports agree: attempts are calls and the retries that are past their
\* back-off, and every recovery is a restart that was let through once.
THEOREM TypeCorrect == Spec => []TypeOK
<1>1. CallInv /\ BudgetInv => TypeOK
  BY TypeParts DEF CallInv, BudgetInv
<1> QED
  BY <1>1, InvHolds, PTL DEF Spec

\* An active life cycle rests on a check that succeeded after the last stop, and
\* nobody awaits a check that has ended or is answered from one that failed.
THEOREM ChecksCorrect == Spec => []ChecksAreCurrent
<1>1. CallInv => ChecksAreCurrent
  BY ConstantsAssumption
     DEF CallInv, ChecksAreCurrent, CacheIsAlive, CacheIsCurrent, WaitersAwait, Everyone
<1> QED
  BY <1>1, InvHolds, PTL DEF Spec

\* In no period as long as the window are more than twice the budget of restarts
\* let through, although the window only starts with a restart.
THEOREM BudgetCorrect == Spec => []RestartsBounded
<1>1. BudgetInv => RestartsBounded
  BY DEF BudgetInv
<1> QED
  BY <1>1, InvHolds, PTL DEF Spec

=============================================================================
