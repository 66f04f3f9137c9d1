--------------------------- MODULE CircuitBreaker ---------------------------
(***************************************************************************)
(* frontend/src/lib/circuit-breaker.ts: the breaker that sui-integration.ts*)
(* puts around its calls of the model service and of the wallet. A call is *)
(* admitted or refused at once, runs for as long as its action takes, and  *)
(* then reports its result to the breaker, whatever state that has reached *)
(* meanwhile: a call admitted before an opening may report after it.       *)
(***************************************************************************)
EXTENDS Integers, FiniteSets

CONSTANTS
  Calls,            \* calls of execute
  FailureThreshold, ResetTimeout, HalfOpenMaxCalls,      \* CircuitBreakerOptions
  MaxTime           \* bound: reading of the clock

ASSUME ConstantsAssumption ==
  /\ IsFiniteSet(Calls)
  /\ {FailureThreshold, ResetTimeout, HalfOpenMaxCalls} \subseteq Nat \ {0}
  /\ MaxTime \in Nat

VARIABLES
  state, failureCount, openedAt, halfOpenCalls,      \* the breaker's fields
  pc,               \* per call: new, running, refused, succeeded or failed
  clock,
  episode,          \* history: times the breaker became half-open
  trialOf,          \* history, per call: the episode that admitted it as a
                    \* trial, or 0
  recovered         \* history: a call succeeded since the last opening

breakerVars == <<state, failureCount, openedAt, halfOpenCalls>>
vars == <<breakerVars, pc, clock, episode, trialOf, recovered>>

Init ==
  /\ state = "closed"
  /\ failureCount = 0
  /\ openedAt = 0
  /\ halfOpenCalls = 0
  /\ pc = [c \in Calls |-> "new"]
  /\ clock = 0
  /\ episode = 0
  /\ trialOf = [c \in Calls |-> 0]
  /\ recovered = TRUE

-----------------------------------------------------------------------------
\* Mutant: an open breaker is tried at once.
OpenIsTried == state = "open"
Due == state = "open" /\ clock - openedAt >= ResetTimeout

\* Mutant: one trial too many.
OneMoreTrial(used) == used <= HalfOpenMaxCalls
MayTry(used) == used < HalfOpenMaxCalls

\* execute up to its await of the action, maybeTransitionToHalfOpen included.
Execute(c) ==
  LET now == IF Due THEN "half-open" ELSE state
      used == IF Due THEN 0 ELSE halfOpenCalls
      trial == now = "half-open" /\ MayTry(used)
  IN
  /\ pc[c] = "new"
  /\ state' = now
  /\ pc' = [pc EXCEPT ![c] = IF now = "closed" \/ trial THEN "running" ELSE "refused"]
  /\ halfOpenCalls' = IF trial THEN used + 1 ELSE used
  /\ episode' = IF Due THEN episode + 1 ELSE episode
  /\ trialOf' = [trialOf EXCEPT ![c] = IF trial THEN episode' ELSE 0]
  /\ UNCHANGED <<failureCount, openedAt, clock, recovered>>

\* Mutant: the slots of trials that still run survive a success.
SlotsKept == halfOpenCalls
SlotsAfterSuccess == 0

RecordSuccess(c) ==
  /\ pc[c] = "running"
  /\ pc' = [pc EXCEPT ![c] = "succeeded"]
  /\ failureCount' = 0
  /\ halfOpenCalls' = SlotsAfterSuccess
  /\ state' = "closed"
  /\ recovered' = TRUE
  /\ UNCHANGED <<openedAt, clock, episode, trialOf>>

\* Mutants: the threshold counts one failure less; a half-open breaker ignores
\* failures.
Beyond(count) == count > FailureThreshold
ClosedOnly(count) == count >= FailureThreshold /\ state = "closed"
Opens(count) == count >= FailureThreshold \/ state = "half-open"

RecordFailure(c) ==
  LET opens == Opens(failureCount + 1)
  IN
  /\ pc[c] = "running"
  /\ pc' = [pc EXCEPT ![c] = "failed"]
  /\ failureCount' = failureCount + 1
  /\ state' = IF opens THEN "open" ELSE state
  /\ openedAt' = IF opens THEN clock ELSE openedAt
  /\ halfOpenCalls' = IF opens THEN 0 ELSE halfOpenCalls
  /\ recovered' = (recovered /\ ~opens)
  /\ UNCHANGED <<clock, episode, trialOf>>

Tick ==
  /\ clock < MaxTime
  /\ clock' = clock + 1
  /\ UNCHANGED <<breakerVars, pc, episode, trialOf, recovered>>

Next ==
  \/ \E c \in Calls : Execute(c) \/ RecordSuccess(c) \/ RecordFailure(c)
  \/ Tick

\* predictOutcome aborts its fetch after a timeout, so an admitted call of the
\* model service ends; nobody has to make calls. (A wallet may leave the user's
\* confirmation open for ever.)
Fairness == \A c \in Calls : WF_vars(RecordSuccess(c) \/ RecordFailure(c))

Spec == Init /\ [][Next]_vars /\ Fairness

-----------------------------------------------------------------------------
TypeOK ==
  /\ state \in {"closed", "open", "half-open"}
  /\ failureCount \in Nat
  /\ openedAt \in 0 .. clock
  /\ halfOpenCalls \in 0 .. HalfOpenMaxCalls
  /\ pc \in [Calls -> {"new", "running", "refused", "succeeded", "failed"}]
  /\ clock \in 0 .. MaxTime
  /\ episode \in Nat
  /\ trialOf \in [Calls -> 0 .. episode]
  /\ recovered \in BOOLEAN

\* The breaker is closed exactly while fewer calls than the threshold have
\* failed since the last success, although results of calls that were admitted
\* in an earlier state keep coming. (So the second branch of recordFailure,
\* for a half-open breaker below the threshold, is never taken.)
ClosedBelowThreshold == (state = "closed") <=> (failureCount < FailureThreshold)

\* A half-open breaker counts exactly the trials of this half-open period that
\* still run, and there is one: no slot is taken by a call that has ended, or
\* that belongs to an earlier period, and none is given twice.
Trials == {c \in Calls : pc[c] = "running" /\ trialOf[c] = episode}
SlotsAreTrials ==
  IF state = "half-open"
    THEN halfOpenCalls = Cardinality(Trials) /\ halfOpenCalls > 0
    ELSE halfOpenCalls = 0

\* After an opening no call is admitted before the reset timeout has passed or
\* a call has succeeded.
AdmissionEarned ==
  [][\A c \in Calls :
       pc[c] = "new" /\ pc'[c] = "running"
         => recovered \/ clock - openedAt >= ResetTimeout]_vars

\* A half-open breaker, which may be refusing every call, is decided.
HalfOpenIsDecided == state = "half-open" ~> state # "half-open"

=============================================================================
