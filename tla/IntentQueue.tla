---------------------------- MODULE IntentQueue ----------------------------
(***************************************************************************)
(* frontend/src/services/a2ui-intent-queue.ts: intents of agents are       *)
(* checked, limited per user in a sliding window, put into a queue that is *)
(* sorted by priority, and handled. The check of the signature and the     *)
(* handling are awaited, so that calls of enqueue overlap.                 *)
(***************************************************************************)
EXTENDS Integers, FiniteSets, Sequences, SequencesExt

CONSTANTS
  Intents,
  FirstIntents,      \* the intents of higher priority
  Users,
  RateWindow, MaxPerWindow,      \* rateLimitWindowMs, rateLimitMaxPerWindow
  EndOfTime          \* bound: reading of the clock

ASSUME IntentConstantsAssumption ==
  /\ FirstIntents \subseteq Intents /\ IsFiniteSet(Intents)
  /\ {RateWindow, MaxPerWindow, EndOfTime} \subseteq Nat

VARIABLES
  intentState,       \* per intent: new, verifying, refused, queued, handling, handled
  userOf,            \* per intent, the user it came from
  intentQueue,       \* queue
  rateState,         \* per user, the intents whose time is in the user's history
  acceptedAt,        \* per intent, the time it passed the rate limit, if it did
  today

intentVars == <<intentState, userOf, intentQueue, rateState, acceptedAt, today>>

IntentInit ==
  /\ intentState = [i \in Intents |-> "new"]
  /\ userOf \in [Intents -> Users]
  /\ intentQueue = <<>>
  /\ rateState = [u \in Users |-> {}]
  /\ acceptedAt = [i \in Intents |-> 0]
  /\ today = 0

-----------------------------------------------------------------------------
\* enqueue up to the await of the signature, the other checks included.
enqueue(i) ==
  /\ intentState[i] = "new"
  /\ \E outcome \in {"verifying", "refused"} :
       intentState' = [intentState EXCEPT ![i] = outcome]
  /\ UNCHANGED <<userOf, intentQueue, rateState, acceptedAt, today>>

SignatureFails(i) ==
  /\ intentState[i] = "verifying"
  /\ intentState' = [intentState EXCEPT ![i] = "refused"]
  /\ UNCHANGED <<userOf, intentQueue, rateState, acceptedAt, today>>

\* The stable sort of the queue, which is always sorted, and intent i.
Sorted(q, i) ==
  LET ahead == IF i \in FirstIntents
                 THEN Cardinality({k \in DOMAIN q : q[k] \in FirstIntents})
                 ELSE Len(q)
  IN InsertAt(q, ahead + 1, i)

\* processNext, in the states of the intents s with the queue q: one intent is
\* taken; the flag "processing" is down again before it is handled.
processNext(s, q) ==
  IF q = <<>>
    THEN intentState' = s /\ intentQueue' = q
    ELSE /\ intentState' = [s EXCEPT ![Head(q)] = "handling"]
         /\ intentQueue' = Tail(q)

\* Mutant: the edge of the window is outside.
WithinOpen(i) == today - acceptedAt[i] < RateWindow
WithinWindow(i) == today - acceptedAt[i] <= RateWindow

\* enqueue after the await: checkRateLimit, the queue, processNext.
SignatureVerified(i) ==
  LET u == userOf[i]
      fresh == {j \in rateState[u] : WithinWindow(j)}
      limited == Cardinality(fresh) >= MaxPerWindow
  IN
  /\ intentState[i] = "verifying"
  /\ rateState' = [rateState EXCEPT ![u] = IF limited THEN fresh ELSE fresh \union {i}]
  /\ acceptedAt' = [acceptedAt EXCEPT ![i] = IF limited THEN @ ELSE today]
  /\ IF limited
       THEN intentState' = [intentState EXCEPT ![i] = "refused"] /\ UNCHANGED intentQueue
       ELSE processNext([intentState EXCEPT ![i] = "queued"], Sorted(intentQueue, i))
  /\ UNCHANGED <<userOf, today>>

\* handleIntent ends, and its processNext goes on.
Handled(i) ==
  /\ intentState[i] = "handling"
  /\ processNext([intentState EXCEPT ![i] = "handled"], intentQueue)
  /\ UNCHANGED <<userOf, rateState, acceptedAt, today>>

IntentTick ==
  /\ today < EndOfTime
  /\ today' = today + 1
  /\ UNCHANGED <<intentState, userOf, intentQueue, rateState, acceptedAt>>

IntentNext ==
  \/ \E i \in Intents : enqueue(i) \/ SignatureFails(i) \/ SignatureVerified(i) \/ Handled(i)
  \/ IntentTick

IntentSpec == IntentInit /\ [][IntentNext]_intentVars

-----------------------------------------------------------------------------
IntentTypeOK ==
  /\ intentState \in [Intents -> {"new", "verifying", "refused", "queued", "handling", "handled"}]
  /\ userOf \in [Intents -> Users]
  /\ intentQueue \in Seq(Intents)
  /\ rateState \in [Users -> SUBSET Intents]
  /\ acceptedAt \in [Intents -> 0 .. EndOfTime]
  /\ today \in 0 .. EndOfTime

\* In no stretch of time as long as the window are more intents of a user
\* accepted than the limit, in whatever order their signatures are verified and
\* although the history of a user forgets. And an accepted intent never waits
\* in the queue: each call takes one intent at once, while others are being
\* handled, so that the priority decides nothing.
Accepted == {i \in Intents : intentState[i] \in {"queued", "handling", "handled"}}
IntentsLimited ==
  /\ \A u \in Users, t \in 0 .. EndOfTime :
       Cardinality({i \in Accepted : userOf[i] = u /\ acceptedAt[i] \in t .. t + RateWindow})
         <= MaxPerWindow
  /\ intentQueue = <<>>

=============================================================================
