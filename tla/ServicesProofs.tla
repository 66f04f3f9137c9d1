--------------------------- MODULE ServicesProofs ---------------------------
(***************************************************************************)
(* Proofs about the small services, each from its own specification and    *)
(* for every value of its constants; and about all of them together.       *)
(***************************************************************************)
EXTENDS MCServices, SumTheorems, SequenceTheorems

-----------------------------------------------------------------------------
(* CircuitBreaker                                                           *)

\* AdmissionEarned needs to know why a breaker that is not open stopped being
\* open: a call succeeded, or the timeout passed.
OpeningIsOver ==
  /\ state = "closed" => recovered
  /\ state = "half-open" => recovered \/ clock - openedAt >= ResetTimeout

CallsInv == TypeOK /\ ClosedBelowThreshold /\ SlotsAreTrials /\ OpeningIsOver

LEMMA CallsInvInit == Init => CallsInv
<1> SUFFICES ASSUME Init PROVE CallsInv
  OBVIOUS
<1> USE ConstantsAssumption DEF Init
<1>1. TypeOK
  BY DEF TypeOK
<1>2. ClosedBelowThreshold /\ SlotsAreTrials /\ OpeningIsOver
  BY DEF ClosedBelowThreshold, SlotsAreTrials, OpeningIsOver
<1> QED
  BY <1>1, <1>2 DEF CallsInv

\* A call that is not yet running joins the trials.
LEMMA OneMore ==
  ASSUME NEW S, IsFiniteSet(S), NEW T, NEW c, c \notin S, T = S \cup {c}
  PROVE  Cardinality(T) = Cardinality(S) + 1
BY FS_AddElement

LEMMA TrialsFinite == IsFiniteSet(Trials)
<1>1. Trials \subseteq Calls
  BY DEF Trials
<1> QED
  BY <1>1, FS_Subset, ConstantsAssumption

LEMMA ExecuteStep == ASSUME CallsInv, NEW c \in Calls, Execute(c) PROVE CallsInv'
<1> USE ConstantsAssumption DEF CallsInv
<1> DEFINE reached == IF Due THEN "half-open" ELSE state
           used == IF Due THEN 0 ELSE halfOpenCalls
           trial == reached = "half-open" /\ MayTry(used)
<1>1. /\ pc[c] = "new" /\ state' = reached
      /\ pc' = [pc EXCEPT ![c] = IF reached = "closed" \/ trial THEN "running" ELSE "refused"]
      /\ halfOpenCalls' = IF trial THEN used + 1 ELSE used
      /\ episode' = IF Due THEN episode + 1 ELSE episode
      /\ trialOf' = [trialOf EXCEPT ![c] = IF trial THEN episode' ELSE 0]
      /\ UNCHANGED <<failureCount, openedAt, clock, recovered>>
  BY DEF Execute
<1>2. used \in Nat /\ used <= HalfOpenMaxCalls
  BY DEF TypeOK
<1>3. trial => used + 1 <= HalfOpenMaxCalls
  BY <1>2 DEF MayTry
<1>4. trialOf' \in [Calls -> 0 .. episode']
  <2>1. \A d \in Calls : trialOf'[d] = trialOf[d] \/ trialOf'[d] = episode' \/ trialOf'[d] = 0
    BY <1>1 DEF TypeOK
  <2>2. episode' \in Nat /\ episode <= episode'
    BY <1>1 DEF TypeOK
  <2>3. DOMAIN trialOf' = Calls /\ trialOf' = [d \in Calls |-> trialOf'[d]]
    BY <1>1 DEF TypeOK
  <2> QED
    BY <2>1, <2>2, <2>3 DEF TypeOK
<1>5. TypeOK'
  BY <1>1, <1>2, <1>3, <1>4 DEF TypeOK
<1>6. ClosedBelowThreshold'
  BY <1>1 DEF ClosedBelowThreshold, Due
<1>7. SlotsAreTrials'
  <2>1. CASE Due
    <3>1. trial /\ used = 0 /\ state' = "half-open" /\ halfOpenCalls' = 1
      BY <1>1, <2>1 DEF MayTry
    <3>2. Trials' = {c}
      BY <1>1, <2>1, <3>1 DEF Trials, TypeOK
    <3> QED
      BY <3>1, <3>2, FS_Singleton DEF SlotsAreTrials
  <2>2. CASE ~Due /\ trial
    <3>1. state = "half-open" /\ state' = "half-open"
          /\ halfOpenCalls' = halfOpenCalls + 1 /\ episode' = episode
      BY <1>1, <2>2
    <3>2. c \notin Trials
      BY <1>1 DEF Trials
    <3>3. Trials' = Trials \cup {c}
      BY <1>1, <2>2, <3>1 DEF Trials, TypeOK
    <3>4. Cardinality(Trials') = Cardinality(Trials) + 1
      BY <3>2, <3>3, TrialsFinite, OneMore
    <3> QED
      BY <3>1, <3>4 DEF SlotsAreTrials, TypeOK
  <2>3. CASE ~Due /\ ~trial
    <3>1. state' = state /\ halfOpenCalls' = halfOpenCalls /\ episode' = episode
      BY <1>1, <2>3
    <3>2. state = "half-open" => pc'[c] = "refused"
      BY <1>1, <2>3 DEF TypeOK
    <3>3. state = "half-open" => Trials' = Trials
      BY <1>1, <3>1, <3>2 DEF Trials, TypeOK
    <3> QED
      BY <3>1, <3>3 DEF SlotsAreTrials
  <2> QED
    BY <2>1, <2>2, <2>3
<1>8. OpeningIsOver'
  BY <1>1 DEF OpeningIsOver, Due
<1> QED
  BY <1>5, <1>6, <1>7, <1>8

LEMMA SuccessStep == ASSUME CallsInv, NEW c \in Calls, RecordSuccess(c) PROVE CallsInv'
<1> USE ConstantsAssumption DEF CallsInv, RecordSuccess, SlotsAfterSuccess
<1>1. TypeOK'
  BY DEF TypeOK
<1>2. ClosedBelowThreshold' /\ SlotsAreTrials' /\ OpeningIsOver'
  BY DEF ClosedBelowThreshold, SlotsAreTrials, OpeningIsOver
<1> QED
  BY <1>1, <1>2

LEMMA FailureStep == ASSUME CallsInv, NEW c \in Calls, RecordFailure(c) PROVE CallsInv'
<1> USE ConstantsAssumption DEF CallsInv, RecordFailure, Opens
<1>1. TypeOK'
  BY DEF TypeOK
<1>2. state = "half-open" => failureCount >= FailureThreshold
  BY DEF ClosedBelowThreshold, TypeOK
<1>3. ClosedBelowThreshold'
  BY <1>2 DEF ClosedBelowThreshold, TypeOK
<1>4. state' # "half-open"
  BY DEF TypeOK
<1>5. SlotsAreTrials' /\ OpeningIsOver'
  BY <1>4 DEF SlotsAreTrials, OpeningIsOver, TypeOK
<1> QED
  BY <1>1, <1>3, <1>5

LEMMA ClockStep == ASSUME CallsInv, Tick PROVE CallsInv'
<1> USE ConstantsAssumption DEF CallsInv, Tick, breakerVars
<1>1. TypeOK'
  BY DEF TypeOK
<1>2. Trials' = Trials
  BY DEF Trials
<1>3. ClosedBelowThreshold' /\ SlotsAreTrials' /\ OpeningIsOver'
  BY <1>2 DEF ClosedBelowThreshold, SlotsAreTrials, OpeningIsOver, TypeOK
<1> QED
  BY <1>1, <1>3

LEMMA CallsInvStep == CallsInv /\ [Next]_vars => CallsInv'
<1> SUFFICES ASSUME CallsInv, [Next]_vars PROVE CallsInv'
  OBVIOUS
<1>1. ASSUME NEW c \in Calls, Execute(c) PROVE CallsInv'
  BY <1>1, ExecuteStep
<1>2. ASSUME NEW c \in Calls, RecordSuccess(c) PROVE CallsInv'
  BY <1>2, SuccessStep
<1>3. ASSUME NEW c \in Calls, RecordFailure(c) PROVE CallsInv'
  BY <1>3, FailureStep
<1>4. CASE Tick
  BY <1>4, ClockStep
<1>5. CASE UNCHANGED vars
  <2>1. Trials' = Trials
    BY <1>5 DEF vars, Trials
  <2> QED
    BY <1>5, <2>1 DEF vars, breakerVars, CallsInv, TypeOK, ClosedBelowThreshold,
                      SlotsAreTrials, OpeningIsOver
<1> QED
  BY <1>1, <1>2, <1>3, <1>4, <1>5 DEF Next

LEMMA CallsInvHolds == Spec => []CallsInv
<1> QED
  BY CallsInvInit, CallsInvStep, PTL DEF Spec

\* The breaker's fields and the calls keep their types; in particular no more
\* trials than HalfOpenMaxCalls are ever counted.
THEOREM CallsTyped == Spec => []TypeOK
<1>1. CallsInv => TypeOK
  BY DEF CallsInv
<1> QED
  BY <1>1, CallsInvHolds, PTL

\* The breaker is closed exactly while fewer calls than the threshold failed
\* since the last success.
THEOREM ClosedIffBelow == Spec => []ClosedBelowThreshold
<1>1. CallsInv => ClosedBelowThreshold
  BY DEF CallsInv
<1> QED
  BY <1>1, CallsInvHolds, PTL

\* The slots a half-open breaker counts are its own running trials.
THEOREM NoSlotLeaks == Spec => []SlotsAreTrials
<1>1. CallsInv => SlotsAreTrials
  BY DEF CallsInv
<1> QED
  BY <1>1, CallsInvHolds, PTL

LEMMA AdmissionStep ==
  ASSUME CallsInv, [Next]_vars, NEW c \in Calls, pc[c] = "new", pc'[c] = "running"
  PROVE  recovered \/ clock - openedAt >= ResetTimeout
<1>1. ASSUME NEW d \in Calls, Execute(d)
      PROVE  recovered \/ clock - openedAt >= ResetTimeout
  <2>1. d = c
    BY <1>1 DEF Execute, CallsInv, TypeOK
  <2>2. Due \/ state = "closed" \/ state = "half-open"
    BY <1>1, <2>1 DEF Execute, CallsInv, TypeOK
  <2> QED
    BY <2>2 DEF Due, CallsInv, OpeningIsOver
<1>2. ASSUME NEW d \in Calls, RecordSuccess(d) \/ RecordFailure(d) PROVE FALSE
  BY <1>2 DEF RecordSuccess, RecordFailure, CallsInv, TypeOK
<1>3. Tick \/ UNCHANGED vars => FALSE
  BY DEF Tick, vars
<1> QED
  BY <1>1, <1>2, <1>3 DEF Next

\* No call is admitted after an opening before the timeout has passed or a call
\* has succeeded.
THEOREM AdmissionsAreEarned == Spec => AdmissionEarned
<1>1. CallsInv /\ [Next]_vars =>
        [\A c \in Calls :
           pc[c] = "new" /\ pc'[c] = "running"
             => recovered \/ clock - openedAt >= ResetTimeout]_vars
  BY AdmissionStep
<1> QED
  BY <1>1, CallsInvHolds, PTL DEF Spec, AdmissionEarned

-----------------------------------------------------------------------------
(* RiskControls: the breaker that is open has either a cooldown, or one     *)
(* that is over.                                                            *)

BreakerInv ==
  /\ RiskTypeOK
  /\ isCooldown => ~breakerActive
  /\ lastTriggerTime <= moment /\ askedAt <= moment
  /\ ~breakerActive /\ ~isCooldown => moment - lastTriggerTime >= CooldownPeriod
  /\ AlarmPassedOver

LEMMA RiskConstants == CooldownPeriod \in Nat /\ MaxTriggers \in Nat /\ LastMoment \in Nat
BY RiskConstantsAssumption

\* RiskTypeOK, the flags apart.
Flags == breakerActive \in BOOLEAN /\ isCooldown \in BOOLEAN /\ alarming \in BOOLEAN
Readings ==
  /\ lastTriggerTime \in 0 .. LastMoment /\ askedAt \in 0 .. LastMoment
  /\ triggerCount \in Nat /\ openings \in 0 .. MaxTriggers
  /\ moment \in 0 .. LastMoment
  /\ answer \in {"none", "null", "COOLDOWN", "triggered"}

LEMMA RiskTypeParts == RiskTypeOK <=> Flags /\ Readings
BY DEF RiskTypeOK, Flags, Readings

LEMMA RiskTypePartsPrimed == RiskTypeOK' <=> Flags' /\ Readings'
BY DEF RiskTypeOK, Flags, Readings

LEMMA BreakerInvInit == RiskInit => BreakerInv
<1> SUFFICES ASSUME RiskInit
             PROVE  BreakerInv
  OBVIOUS
<1>1. Flags
  BY DEF RiskInit, Flags
<1>2. Readings
  BY RiskConstants DEF RiskInit, Readings
<1>3. AlarmPassedOver
  BY DEF RiskInit, AlarmPassedOver
<1> QED
  BY <1>1, <1>2, <1>3, RiskTypeParts DEF RiskInit, BreakerInv

LEMMA MarketChecked ==
  ASSUME BreakerInv, NEW price \in BOOLEAN, NEW anomaly \in BOOLEAN, checkMarket(price, anomaly)
  PROVE  BreakerInv'
<1> DEFINE opens == ~isInCooldown /\ breakerActive /\ (price \/ anomaly)
<1> USE RiskConstants
<1>1. Flags /\ Readings
  BY RiskTypeParts DEF BreakerInv
<1>2. Flags'
  BY <1>1 DEF checkMarket, Flags
<1>3. Readings'
  BY <1>1 DEF checkMarket, Readings
<1>4. moment' = moment /\ askedAt' = moment /\ alarming' = (price \/ anomaly)
  BY DEF checkMarket
<1>5. CASE isInCooldown
  <2>1. answer' = "COOLDOWN" /\ lastTriggerTime' = lastTriggerTime /\ triggerCount' = triggerCount
    BY <1>5 DEF checkMarket
  <2>2. ~breakerActive /\ ~breakerActive' /\ isCooldown'
    BY <1>1, <1>5 DEF checkMarket, isInCooldown, BreakerInv, Flags
  <2>3. moment - lastTriggerTime < CooldownPeriod
    BY <1>5 DEF isInCooldown
  <2>4. AlarmPassedOver'
    BY <1>4, <2>1, <2>2, <2>3 DEF AlarmPassedOver, BreakerInv
  <2> QED
    BY <1>2, <1>3, <1>4, <2>1, <2>2, <2>4, RiskTypePartsPrimed DEF BreakerInv, Readings
<1>6. CASE opens
  <2>1. answer' = "triggered" /\ lastTriggerTime' = moment /\ triggerCount' = triggerCount + 1
    BY <1>6 DEF checkMarket
  <2>2. breakerActive /\ ~breakerActive' /\ isCooldown'
    BY <1>1, <1>6 DEF checkMarket, Flags
  <2>3. AlarmPassedOver'
    BY <2>1, <2>2 DEF AlarmPassedOver, BreakerInv
  <2> QED
    BY <1>1, <1>2, <1>3, <1>4, <2>1, <2>2, <2>3, RiskTypePartsPrimed DEF BreakerInv, Readings
<1>7. CASE ~isInCooldown /\ ~opens
  <2>1. answer' = "null" /\ lastTriggerTime' = lastTriggerTime /\ triggerCount' = triggerCount
    BY <1>7 DEF checkMarket
  <2>2. ~isCooldown' /\ (breakerActive' <=> breakerActive)
    BY <1>1, <1>7 DEF checkMarket, Flags
  <2>3. ~breakerActive => moment - lastTriggerTime >= CooldownPeriod
    <3>1. CASE isCooldown
      BY <1>1, <1>7, <3>1 DEF isInCooldown, Readings
    <3>2. CASE ~isCooldown
      BY <3>2 DEF BreakerInv
    <3> QED
      BY <3>1, <3>2
  <2>4. alarming' => ~breakerActive
    BY <1>4, <1>7
  <2>5. AlarmPassedOver'
    BY <1>4, <2>1, <2>2, <2>3, <2>4 DEF AlarmPassedOver, BreakerInv
  <2> QED
    BY <1>1, <1>2, <1>3, <1>4, <2>1, <2>2, <2>3, <2>5, RiskTypePartsPrimed DEF BreakerInv, Readings
<1> QED
  BY <1>5, <1>6, <1>7

LEMMA BreakerReset == BreakerInv /\ reset => BreakerInv'
<1> SUFFICES ASSUME BreakerInv, reset
             PROVE  BreakerInv'
  OBVIOUS
<1>1. Flags /\ Readings
  BY RiskTypeParts DEF BreakerInv
<1>2. Flags'
  BY <1>1 DEF reset, Flags
<1>3. Readings'
  BY <1>1, RiskConstants DEF reset, Readings
<1>4. lastTriggerTime' <= moment' /\ askedAt' <= moment'
  BY <1>1 DEF reset, Readings, BreakerInv
<1>5. AlarmPassedOver'
  BY DEF reset, AlarmPassedOver
<1> QED
  BY <1>2, <1>3, <1>4, <1>5, RiskTypePartsPrimed DEF reset, BreakerInv

LEMMA BreakerInvStep == BreakerInv /\ [RiskNext]_riskVars => BreakerInv'
<1> SUFFICES ASSUME BreakerInv, [RiskNext]_riskVars
             PROVE  BreakerInv'
  OBVIOUS
<1>1. CASE \E price, anomaly \in BOOLEAN : checkMarket(price, anomaly)
  BY <1>1, MarketChecked
<1>2. CASE reset
  BY <1>2, BreakerReset
<1>3. CASE RiskTick
  BY <1>3, RiskConstants DEF RiskTick, BreakerInv, RiskTypeOK, AlarmPassedOver
<1>4. CASE UNCHANGED riskVars
  BY <1>4 DEF riskVars, BreakerInv, RiskTypeOK, AlarmPassedOver
<1> QED
  BY <1>1, <1>2, <1>3, <1>4 DEF RiskNext

\* An alarming market is passed over only after an opening whose cooldown is
\* over, and COOLDOWN is answered within it, whatever the sequence of checks,
\* resets and the clock, and for every length of the cooldown.
THEOREM BreakerCorrect == RiskSpec => [](RiskTypeOK /\ AlarmPassedOver)
<1>1. BreakerInv => RiskTypeOK /\ AlarmPassedOver
  BY DEF BreakerInv
<1> QED
  BY <1>1, BreakerInvInit, BreakerInvStep, PTL DEF RiskSpec

-----------------------------------------------------------------------------
(* TtlCache                                                                 *)

CacheInv == CacheTypeOK /\ CacheAccounted

\* What CacheAccounted says of one entry.
EntryAccounted(k) ==
  /\ accessTime[k] = IF lastRead[k] > 0 THEN lastRead[k] ELSE lastSet[k]
  /\ expiresAt[k] \in IF lastRead[k] > 0
                        THEN {lastRead[k] + ReadTTL}
                        ELSE {lastSet[k] + ShortTTL, lastSet[k] + LongTTL}

LEMMA CacheParts ==
  CacheAccounted <=> /\ Cardinality(cache) <= MaxCacheSize
                     /\ accessHistory = cache
                     /\ \A k \in cache : EntryAccounted(k)
BY DEF CacheAccounted, EntryAccounted

LEMMA CachePartsPrimed ==
  CacheAccounted' <=> /\ Cardinality(cache') <= MaxCacheSize
                      /\ accessHistory' = cache'
                      /\ \A k \in cache' : EntryAccounted(k)'
BY DEF CacheAccounted, EntryAccounted

LEMMA CacheConstants ==
  /\ ShortTTL \in Nat \ {0} /\ LongTTL \in Nat \ {0} /\ ReadTTL \in Nat \ {0}
  /\ MaxCacheSize \in Nat \ {0} /\ Horizon \in Nat \ {0}
BY CacheConstantsAssumption

LEMMA CacheFinite ==
  ASSUME CacheTypeOK
  PROVE  IsFiniteSet(cache) /\ Cardinality(cache) \in Nat
BY CacheConstantsAssumption, FS_Subset, FS_CardinalityType DEF CacheTypeOK

\* Entries are removed from both maps.
LEMMA EntriesRemoved ==
  ASSUME CacheInv, NEW ks, RemoveEntries(ks)
  PROVE  CacheInv'
<1>1. IsFiniteSet(cache) /\ Cardinality(cache) \in Nat
  BY CacheFinite DEF CacheInv
<1>2. cache' \subseteq cache /\ cache' = cache \ ks
  BY DEF RemoveEntries
<1>3. Cardinality(cache') <= Cardinality(cache) /\ Cardinality(cache') \in Nat
  BY <1>1, <1>2, FS_Subset, FS_CardinalityType
<1>4. Cardinality(cache') <= MaxCacheSize
  BY <1>1, <1>3, CacheConstants DEF CacheInv, CacheAccounted
<1>5. CacheTypeOK'
  BY DEF RemoveEntries, CacheInv, CacheTypeOK
<1> QED
  BY <1>2, <1>4, <1>5 DEF RemoveEntries, CacheInv, CacheAccounted

\* A full cache has a key that was accessed longest ago.
LEMMA EntrySet ==
  ASSUME CacheInv, NEW k \in Keys, NEW ttl \in {ShortTTL, LongTTL}, setEntry(k, ttl)
  PROVE  CacheInv'
<1> USE CacheConstants
<1>1. IsFiniteSet(cache) /\ Cardinality(cache) \in Nat
  BY CacheFinite DEF CacheInv
<1>2. PICK evicted \in IF Full THEN {{j} : j \in Oldest} ELSE {{}} :
        /\ cache' = (cache \ evicted) \cup {k}
        /\ accessHistory' = (accessHistory \ evicted) \cup {k}
  BY DEF setEntry
<1>3. Cardinality(cache') <= MaxCacheSize
  <2>1. CASE Full
    <3>1. PICK j \in Oldest : evicted = {j}
      BY <1>2, <2>1
    <3>2. j \in cache
      BY <3>1 DEF Oldest, CacheInv, CacheAccounted
    <3>3. IsFiniteSet(cache \ {j}) /\ Cardinality(cache \ {j}) = Cardinality(cache) - 1
      BY <1>1, <3>2, FS_RemoveElement
    <3>4. cache' = (cache \ {j}) \cup {k}
      BY <1>2, <3>1
    <3>5. \/ Cardinality(cache') = Cardinality(cache \ {j})
          \/ Cardinality(cache') = Cardinality(cache \ {j}) + 1
      BY <3>3, <3>4, FS_AddElement
    <3>6. Cardinality(cache) <= MaxCacheSize
      BY DEF CacheInv, CacheAccounted
    <3> QED
      BY <1>1, <3>3, <3>5, <3>6
  <2>2. CASE ~Full
    <3>1. cache' = cache \cup {k}
      BY <1>2, <2>2
    <3>2. \/ Cardinality(cache') = Cardinality(cache)
          \/ Cardinality(cache') = Cardinality(cache) + 1
      BY <1>1, <3>1, FS_AddElement
    <3>3. Cardinality(cache) + 1 <= MaxCacheSize
      BY <1>1, <2>2 DEF Full
    <3> QED
      BY <1>1, <3>2, <3>3
  <2> QED
    BY <2>1, <2>2
<1>4. cache' \subseteq cache \cup {k} /\ accessHistory' = cache'
  BY <1>2 DEF CacheInv, CacheAccounted
<1>5. /\ expiresAt' = [expiresAt EXCEPT ![k] = hour + ttl]
      /\ accessTime' = [accessTime EXCEPT ![k] = hour]
      /\ lastSet' = [lastSet EXCEPT ![k] = hour]
      /\ lastRead' = [lastRead EXCEPT ![k] = 0]
      /\ UNCHANGED hour
  BY DEF setEntry
<1>6. CacheTypeOK'
  BY <1>4, <1>5 DEF CacheInv, CacheTypeOK
<1>7. EntryAccounted(k)'
  BY <1>5 DEF EntryAccounted, CacheInv, CacheTypeOK
<1>8. ASSUME NEW j \in cache' \ {k}
      PROVE  EntryAccounted(j)'
  <2>1. j \in cache /\ EntryAccounted(j)
    BY <1>4, <1>8, CacheParts DEF CacheInv
  <2> QED
    BY <2>1, <1>5, <1>8 DEF EntryAccounted, CacheInv, CacheTypeOK
<1> QED
  BY <1>3, <1>4, <1>6, <1>7, <1>8, CachePartsPrimed DEF CacheInv

LEMMA EntryRead ==
  ASSUME CacheInv, NEW k \in Keys, getEntry(k)
  PROVE  CacheInv'
<1> USE CacheConstants
<1>1. CASE Expired(k)
  BY <1>1, EntriesRemoved DEF getEntry
<1>2. CASE ~Expired(k)
  <2>1. /\ expiresAt' = [expiresAt EXCEPT ![k] = hour + ReadTTL]
        /\ accessHistory' = accessHistory \cup {k}
        /\ accessTime' = [accessTime EXCEPT ![k] = hour]
        /\ lastRead' = [lastRead EXCEPT ![k] = hour]
        /\ UNCHANGED <<cache, hour, lastSet>>
        /\ k \in cache
    BY <1>2 DEF getEntry
  <2>2. CacheTypeOK'
    BY <2>1 DEF CacheInv, CacheTypeOK
  <2>3. EntryAccounted(k)'
    BY <2>1 DEF EntryAccounted, CacheInv, CacheTypeOK
  <2>4. ASSUME NEW j \in cache \ {k}
        PROVE  EntryAccounted(j)'
    <3>1. EntryAccounted(j)
      BY <2>4, CacheParts DEF CacheInv
    <3> QED
      BY <2>1, <2>4, <3>1 DEF EntryAccounted, CacheInv, CacheTypeOK
  <2>5. Cardinality(cache') <= MaxCacheSize /\ accessHistory' = cache'
    BY <2>1 DEF CacheInv, CacheAccounted
  <2> QED
    BY <2>1, <2>2, <2>3, <2>4, <2>5, CachePartsPrimed DEF CacheInv
<1> QED
  BY <1>1, <1>2

LEMMA CacheInvInit == CacheInit => CacheInv
<1> SUFFICES ASSUME CacheInit
             PROVE  CacheInv
  OBVIOUS
<1>1. Cardinality(cache) <= MaxCacheSize
  BY FS_EmptySet, CacheConstants DEF CacheInit
<1> QED
  BY <1>1, CacheConstants DEF CacheInit, CacheInv, CacheTypeOK, CacheAccounted

LEMMA CacheInvStep == CacheInv /\ [CacheNext]_cacheVars => CacheInv'
<1> SUFFICES ASSUME CacheInv, [CacheNext]_cacheVars
             PROVE  CacheInv'
  OBVIOUS
<1>1. CASE \E k \in Keys, ttl \in {ShortTTL, LongTTL} : setEntry(k, ttl)
  BY <1>1, EntrySet
<1>2. CASE \E k \in Keys : getEntry(k)
  BY <1>2, EntryRead
<1>3. CASE \E k \in Keys : invalidate(k)
  BY <1>3, EntriesRemoved DEF invalidate
<1>4. CASE cleanupExpired \/ clear
  BY <1>4, EntriesRemoved DEF cleanupExpired, clear
<1>5. CASE CacheTick
  <2>1. CacheTypeOK'
    BY <1>5, CacheConstants DEF CacheTick, CacheInv, CacheTypeOK
  <2> QED
    BY <1>5, <2>1 DEF CacheTick, CacheInv, CacheAccounted
<1>6. CASE UNCHANGED cacheVars
  BY <1>6 DEF cacheVars, CacheInv, CacheTypeOK, CacheAccounted
<1> QED
  BY <1>1, <1>2, <1>3, <1>4, <1>5, <1>6 DEF CacheNext

\* The cache never outgrows its size, its two maps have the same keys, and an
\* entry that was read has the time to live of a read instead of its own: for
\* any keys, times to live and size, and any sequence of calls and the clock.
THEOREM CacheCorrect == CacheSpec => [](CacheTypeOK /\ CacheAccounted)
<1>1. CacheInv => CacheTypeOK /\ CacheAccounted
  BY DEF CacheInv
<1> QED
  BY <1>1, CacheInvInit, CacheInvStep, PTL DEF CacheSpec

-----------------------------------------------------------------------------
(* Boot: what is measured, attested and proven, at each step and in each    *)
(* state.                                                                   *)

Measured == tpmMeasurement \in Digests
Attested == Measured /\ attestationData = tpmMeasurement
Keyed == Attested /\ sessionKeys = tpmMeasurement /\ attestationDigest = tpmMeasurement

RunningAt ==
  /\ bootStep = "measure" => bootState = "UNINITIALIZED"
  /\ bootStep = "attest" => bootState = "UNINITIALIZED" /\ Measured
  /\ bootStep \in {"reach", "peer", "derive"} => bootState = "ATTESTED"
  /\ bootStep = "resources" => bootState = "KEY_ESTABLISHED"
  /\ bootState = "OPERATIONAL" => bootStep = "up"
  /\ bootStep # "exited" => exitCode = 0

EstablishedIn ==
  /\ bootState = "UNINITIALIZED" => attestationData = NoDigest /\ sessionKeys = NoDigest
  /\ bootState = "ATTESTED" => Attested /\ sessionKeys = NoDigest
  /\ bootState \in {"KEY_ESTABLISHED", "OPERATIONAL"} => Keyed

ExitTells ==
  /\ exitCode = 101 => bootState = "UNINITIALIZED"
  /\ exitCode = 102 => bootState = "ATTESTED"
  /\ exitCode = 103 => bootState = "KEY_ESTABLISHED"

BootInv == BootTypeOK /\ RunningAt /\ EstablishedIn /\ ExitTells

LEMMA BootInvImplies == BootInv => KeysBoundToMeasurement
BY DEF BootInv, BootTypeOK, RunningAt, EstablishedIn, ExitTells, Keyed, Attested, Measured,
       KeysBoundToMeasurement

LEMMA BootInvInit == BootInit => BootInv
<1> SUFFICES ASSUME BootInit
             PROVE  BootInv
  OBVIOUS
<1>1. BootTypeOK
  BY DEF BootInit, BootTypeOK
<1> QED
  BY <1>1 DEF BootInit, BootInv, RunningAt, EstablishedIn, ExitTells

\* The process exits with the code of the transition that failed.
LEMMA ProcessExits ==
  ASSUME BootInv, NEW code \in {101, 102, 103}, Exit(code),
         code = 101 => bootState = "UNINITIALIZED",
         code = 102 => bootState = "ATTESTED",
         code = 103 => bootState = "KEY_ESTABLISHED"
  PROVE  BootInv'
<1>1. BootTypeOK'
  BY DEF BootInv, BootTypeOK, Exit
<1>2. RunningAt'
  BY DEF RunningAt, Exit
<1>3. EstablishedIn'
  BY DEF BootInv, EstablishedIn, Exit, Keyed, Attested, Measured
<1>4. ExitTells'
  BY DEF ExitTells, Exit
<1> QED
  BY <1>1, <1>2, <1>3, <1>4 DEF BootInv

LEMMA Measures ==
  ASSUME BootInv, NEW teeRuntime \in BOOLEAN, NEW allowMock \in BOOLEAN, NEW fixture,
         NEW tpm \in BOOLEAN, NEW digest \in Digests,
         readTPM(teeRuntime, allowMock, fixture, tpm, digest)
  PROVE  BootInv'
<1>1. bootStep = "measure" /\ bootState = "UNINITIALIZED" /\ exitCode = 0
  BY DEF readTPM, BootInv, RunningAt
<1>2. \/ Exit(101)
      \/ /\ bootStep' = "attest"
         /\ tpmMeasurement' = digest
         /\ UNCHANGED <<bootState, exitCode, attestationData, attestationDigest, sessionKeys>>
  BY DEF readTPM
<1>3. CASE Exit(101)
  BY <1>1, <1>3, ProcessExits
<1>4. CASE /\ bootStep' = "attest"
           /\ tpmMeasurement' = digest
           /\ UNCHANGED <<bootState, exitCode, attestationData, attestationDigest, sessionKeys>>
  <2>1. BootTypeOK'
    BY <1>4 DEF BootInv, BootTypeOK
  <2> QED
    BY <1>1, <1>4, <2>1 DEF BootInv, RunningAt, EstablishedIn, ExitTells, Measured
<1> QED
  BY <1>2, <1>3, <1>4

LEMMA Attests ==
  ASSUME BootInv, NEW certs \in Chains, NEW pinned, NEW trusted,
         transitionToS1(certs, pinned, trusted)
  PROVE  BootInv'
<1>1. bootStep = "attest" /\ bootState = "UNINITIALIZED" /\ Measured /\ exitCode = 0
  BY DEF transitionToS1, BootInv, RunningAt
<1>2. CASE ~verifyCertChain(certs, pinned, trusted)
  BY <1>1, <1>2, ProcessExits DEF transitionToS1
<1>3. CASE verifyCertChain(certs, pinned, trusted)
  <2>1. /\ bootStep' = "reach"
        /\ bootState' = "ATTESTED"
        /\ attestationData' = tpmMeasurement
        /\ UNCHANGED <<exitCode, attestationDigest, sessionKeys, tpmMeasurement>>
    BY <1>3 DEF transitionToS1
  <2>2. BootTypeOK'
    BY <2>1 DEF BootInv, BootTypeOK
  <2> QED
    BY <1>1, <2>1, <2>2 DEF BootInv, RunningAt, EstablishedIn, ExitTells, Attested, Measured
<1> QED
  BY <1>2, <1>3

LEMMA Reaches ==
  ASSUME BootInv, NEW reachable \in BOOLEAN, isReachable(reachable)
  PROVE  BootInv'
<1>1. bootStep = "reach" /\ bootState = "ATTESTED" /\ exitCode = 0
  BY DEF isReachable, BootInv, RunningAt
<1>2. CASE ~reachable
  BY <1>1, <1>2, ProcessExits DEF isReachable
<1>3. CASE reachable
  <2>1. /\ bootStep' = "peer"
        /\ UNCHANGED <<bootState, exitCode, attestationData, attestationDigest,
                       sessionKeys, tpmMeasurement>>
    BY <1>3 DEF isReachable
  <2>2. BootTypeOK'
    BY <2>1 DEF BootInv, BootTypeOK
  <2> QED
    BY <1>1, <2>1, <2>2 DEF BootInv, RunningAt, EstablishedIn, ExitTells, Attested, Measured
<1> QED
  BY <1>2, <1>3

LEMMA Introduces ==
  ASSUME BootInv, NEW endpoint \in BOOLEAN, NEW requireSigned \in BOOLEAN,
         NEW reply \in {"configured", "signed", "unsigned", "none"},
         fetchPeerPublicKey(endpoint, requireSigned, reply)
  PROVE  BootInv'
<1>1. bootStep = "peer" /\ bootState = "ATTESTED" /\ exitCode = 0
  BY DEF fetchPeerPublicKey, BootInv, RunningAt
<1>2. \/ Exit(102)
      \/ /\ bootStep' = "derive"
         /\ UNCHANGED <<bootState, exitCode, attestationData, attestationDigest,
                        sessionKeys, tpmMeasurement>>
  BY DEF fetchPeerPublicKey
<1>3. CASE Exit(102)
  BY <1>1, <1>3, ProcessExits
<1>4. CASE /\ bootStep' = "derive"
           /\ UNCHANGED <<bootState, exitCode, attestationData, attestationDigest,
                          sessionKeys, tpmMeasurement>>
  <2>1. BootTypeOK'
    BY <1>4 DEF BootInv, BootTypeOK
  <2> QED
    BY <1>1, <1>4, <2>1 DEF BootInv, RunningAt, EstablishedIn, ExitTells, Attested, Measured
<1> QED
  BY <1>2, <1>3, <1>4

\* Whatever digest was configured and whatever the provider's proof is over,
\* only a proof over the digest recorded as attested leads to keys.
LEMMA Derives ==
  ASSUME BootInv, NEW reply, NEW proofOver, transitionToS2(reply, proofOver)
  PROVE  BootInv'
<1>1. /\ bootStep = "derive" /\ bootState = "ATTESTED" /\ exitCode = 0
      /\ Attested
  BY DEF transitionToS2, BootInv, RunningAt, EstablishedIn
<1>2. \/ Exit(102)
      \/ /\ bootStep' = "resources"
         /\ bootState' = "KEY_ESTABLISHED"
         /\ attestationDigest' = attestationData
         /\ sessionKeys' = attestationData
         /\ UNCHANGED <<exitCode, attestationData, tpmMeasurement>>
  BY DEF transitionToS2, DigestToVerify
<1>3. CASE Exit(102)
  BY <1>1, <1>3, ProcessExits
<1>4. CASE /\ bootStep' = "resources"
           /\ bootState' = "KEY_ESTABLISHED"
           /\ attestationDigest' = attestationData
           /\ sessionKeys' = attestationData
           /\ UNCHANGED <<exitCode, attestationData, tpmMeasurement>>
  <2>1. BootTypeOK'
    BY <1>4 DEF BootInv, BootTypeOK
  <2>2. Keyed'
    BY <1>1, <1>4 DEF Keyed, Attested, Measured
  <2> QED
    BY <1>1, <1>4, <2>1, <2>2 DEF BootInv, RunningAt, EstablishedIn, ExitTells
<1> QED
  BY <1>2, <1>3, <1>4

LEMMA Operates ==
  ASSUME BootInv, NEW hugepages \in BOOLEAN, NEW pinned \in BOOLEAN,
         transitionToS3(hugepages, pinned)
  PROVE  BootInv'
<1>1. bootStep = "resources" /\ bootState = "KEY_ESTABLISHED" /\ exitCode = 0
  BY DEF transitionToS3, BootInv, RunningAt
<1>2. CASE ~(hugepages /\ pinned)
  BY <1>1, <1>2, ProcessExits DEF transitionToS3
<1>3. CASE hugepages /\ pinned
  <2>1. /\ bootStep' = "up"
        /\ bootState' = "OPERATIONAL"
        /\ UNCHANGED <<exitCode, attestationData, attestationDigest, sessionKeys,
                       tpmMeasurement>>
    BY <1>3 DEF transitionToS3
  <2>2. BootTypeOK'
    BY <2>1 DEF BootInv, BootTypeOK
  <2>3. Keyed'
    BY <1>1, <2>1 DEF BootInv, EstablishedIn, Keyed, Attested, Measured
  <2> QED
    BY <1>1, <2>1, <2>2, <2>3 DEF BootInv, RunningAt, EstablishedIn, ExitTells
<1> QED
  BY <1>2, <1>3

LEMMA BootInvStep == BootInv /\ [BootNext]_bootVars => BootInv'
<1> SUFFICES ASSUME BootInv, [BootNext]_bootVars
             PROVE  BootInv'
  OBVIOUS
<1>1. CASE UNCHANGED bootVars
  <2>1. BootTypeOK'
    BY <1>1 DEF bootVars, BootInv, BootTypeOK
  <2> QED
    BY <1>1, <2>1 DEF bootVars, BootInv, RunningAt, EstablishedIn, ExitTells, Keyed, Attested,
                      Measured
<1>2. CASE BootNext
  <2>1. ASSUME NEW hugepages \in BOOLEAN, NEW readable \in BOOLEAN, NEW pinning \in BOOLEAN,
               NEW requirePinning \in BOOLEAN,
               transitionToS3(hugepages, checkCPUPinning(readable, pinning, requirePinning))
        PROVE  BootInv'
    BY <2>1, Operates DEF checkCPUPinning
  <2> QED
    BY <1>2, <2>1, Measures, Attests, Reaches, Introduces, Derives DEF BootNext
<1> QED
  BY <1>1, <1>2

\* A node whose keys are established has keys proven over the digest that it
\* measured in this boot, whatever digest it was configured with and whatever
\* the host, the network and the provider answer; before, it has neither keys
\* nor an attested digest, and its exit code tells how far it got.
THEOREM BootCorrect == BootSpec => [](BootTypeOK /\ KeysBoundToMeasurement)
<1>1. BootInv => BootTypeOK /\ KeysBoundToMeasurement
  BY BootInvImplies DEF BootInv
<1> QED
  BY <1>1, BootInvInit, BootInvStep, PTL DEF BootSpec

-----------------------------------------------------------------------------
(* Discovery                                                                *)

\* What SessionIsLatest says of one peer.
LatestHeld(p) ==
  \/ latest[p] = NoSession /\ sessions[p] = NoSession
  \/ latest[p] \in Attempts /\ sessions[p] = latest[p] /\ negotiation[latest[p]] # "failed"
  \/ latest[p] \in Attempts /\ sessions[p] = NoSession
                            /\ (negotiation[latest[p]] = "failed" \/ latest[p] \in bereft)

\* The attempt begun last for a peer is one for that peer.
LatestIsOwn == \A p \in Peers : latest[p] \in Attempts => peerOf[latest[p]] = p

DiscoveryInv == DiscoveryTypeOK /\ LatestIsOwn /\ \A p \in Peers : LatestHeld(p)

LEMMA DiscoveryInvImplies == DiscoveryInv => SessionIsLatest
BY DEF DiscoveryInv, SessionIsLatest, LatestHeld

LEMMA DiscoveryInvInit == DiscoveryInit => DiscoveryInv
BY DiscoveryConstantsAssumption
DEF DiscoveryInit, DiscoveryInv, DiscoveryTypeOK, LatestIsOwn, LatestHeld

\* Peers and the clock change, sessions do not.
LEMMA SessionsUnchanged ==
  ASSUME DiscoveryInv, UNCHANGED <<useGo, sessionVars>>,
         peers' \in [Peers -> {"unknown", "discovered", "active"}],
         lastHeartbeat' \in [Peers -> 0 .. LastTime], now' \in 0 .. LastTime
  PROVE  DiscoveryInv'
<1>1. DiscoveryTypeOK'
  BY DEF DiscoveryInv, DiscoveryTypeOK, sessionVars
<1> QED
  BY <1>1 DEF DiscoveryInv, LatestIsOwn, LatestHeld, sessionVars

LEMMA SessionBegins ==
  ASSUME DiscoveryInv, NEW s \in Attempts, establishSession(s)
  PROVE  DiscoveryInv'
<1>1. /\ negotiation[s] = "new"
      /\ negotiation' = [negotiation EXCEPT ![s] = IF useGo THEN "checking" ELSE "deriving"]
      /\ sessions' = [sessions EXCEPT ![peerOf[s]] = s]
      /\ latest' = [latest EXCEPT ![peerOf[s]] = s]
      /\ UNCHANGED <<useGo, peers, lastHeartbeat, peerOf, now, bereft>>
  BY DEF establishSession, SetWhenBegun, peerVars
<1>2. peerOf[s] \in Peers
  BY DEF DiscoveryInv, DiscoveryTypeOK
<1>3. DiscoveryTypeOK'
  BY <1>1, <1>2 DEF DiscoveryInv, DiscoveryTypeOK
<1>4. LatestIsOwn'
  BY <1>1, <1>2 DEF DiscoveryInv, DiscoveryTypeOK, LatestIsOwn
<1>5. negotiation'[s] # "failed"
  BY <1>1 DEF DiscoveryInv, DiscoveryTypeOK
<1>6. ASSUME NEW p \in Peers
      PROVE  LatestHeld(p)'
  <2>1. CASE p = peerOf[s]
    BY <1>1, <1>2, <1>5, <2>1 DEF LatestHeld, DiscoveryInv, DiscoveryTypeOK
  <2>2. CASE p # peerOf[s]
    <3>1. latest'[p] = latest[p] /\ sessions'[p] = sessions[p]
      BY <1>1, <2>2 DEF DiscoveryInv, DiscoveryTypeOK
    <3>2. latest[p] \in Attempts => negotiation'[latest[p]] = negotiation[latest[p]]
      BY <1>1, <2>2 DEF DiscoveryInv, DiscoveryTypeOK, LatestIsOwn
    <3> QED
      BY <1>1, <3>1, <3>2 DEF DiscoveryInv, LatestHeld
  <2> QED
    BY <2>1, <2>2
<1> QED
  BY <1>3, <1>4, <1>6 DEF DiscoveryInv

\* An attempt goes on without an answer for the map.
LEMMA SessionProceeds ==
  ASSUME DiscoveryInv, NEW s \in Attempts, NEW place \in {"deriving", "encrypted"},
         negotiation[s] \in {"checking", "deriving"},
         negotiation' = [negotiation EXCEPT ![s] = place],
         UNCHANGED <<useGo, peerVars, sessions, peerOf, latest, bereft, now>>
  PROVE  DiscoveryInv'
<1>1. DiscoveryTypeOK'
  BY DEF DiscoveryInv, DiscoveryTypeOK, peerVars
<1>2. \A t \in Attempts : negotiation'[t] = "failed" <=> negotiation[t] = "failed"
  BY DEF DiscoveryInv, DiscoveryTypeOK
<1> QED
  BY <1>1, <1>2 DEF DiscoveryInv, LatestIsOwn, LatestHeld

LEMMA SessionFails ==
  ASSUME DiscoveryInv, NEW s \in Attempts, EstablishmentFails(s)
  PROVE  DiscoveryInv'
<1>1. /\ negotiation[s] \in {"checking", "deriving"}
      /\ negotiation' = [negotiation EXCEPT ![s] = "failed"]
      /\ sessions' = [sessions EXCEPT ![peerOf[s]] = NoSession]
      /\ bereft' = bereft \cup ({sessions[peerOf[s]]} \ {s, NoSession})
      /\ UNCHANGED <<useGo, peers, lastHeartbeat, peerOf, latest, now>>
  BY DEF EstablishmentFails, peerVars
<1>2. peerOf[s] \in Peers
  BY DEF DiscoveryInv, DiscoveryTypeOK
<1>3. DiscoveryTypeOK'
  BY <1>1, <1>2 DEF DiscoveryInv, DiscoveryTypeOK
<1>4. ASSUME NEW p \in Peers
      PROVE  LatestHeld(p)'
  <2>1. CASE p = peerOf[s]
    <3>1. sessions'[p] = NoSession
      BY <1>1, <1>2, <2>1 DEF DiscoveryInv, DiscoveryTypeOK
    <3>2. CASE latest[p] = s
      BY <1>1, <3>1, <3>2 DEF LatestHeld, DiscoveryInv, DiscoveryTypeOK
    <3>3. CASE latest[p] \in Attempts \ {s}
      <4>1. negotiation'[latest[p]] = negotiation[latest[p]]
        BY <1>1, <3>3 DEF DiscoveryInv, DiscoveryTypeOK
      <4>2. CASE sessions[p] = latest[p]
        BY <1>1, <2>1, <3>1, <3>3, <4>2, DiscoveryConstantsAssumption DEF LatestHeld
      <4>3. CASE sessions[p] # latest[p]
        BY <1>1, <3>1, <3>3, <4>1, <4>3 DEF LatestHeld, DiscoveryInv
      <4> QED
        BY <4>2, <4>3
    <3>4. CASE latest[p] \notin Attempts
      BY <1>1, <3>1, <3>4 DEF LatestHeld, DiscoveryInv
    <3> QED
      BY <3>2, <3>3, <3>4
  <2>2. CASE p # peerOf[s]
    <3>1. latest'[p] = latest[p] /\ sessions'[p] = sessions[p]
      BY <1>1, <2>2 DEF DiscoveryInv, DiscoveryTypeOK
    <3>2. latest[p] \in Attempts => negotiation'[latest[p]] = negotiation[latest[p]]
      BY <1>1, <2>2 DEF DiscoveryInv, DiscoveryTypeOK, LatestIsOwn
    <3> QED
      BY <1>1, <3>1, <3>2 DEF DiscoveryInv, LatestHeld
  <2> QED
    BY <2>1, <2>2
<1> QED
  BY <1>1, <1>3, <1>4 DEF DiscoveryInv, LatestIsOwn

LEMMA DiscoveryInvStep == DiscoveryInv /\ [DiscoveryNext]_discoveryVars => DiscoveryInv'
<1> SUFFICES ASSUME DiscoveryInv, [DiscoveryNext]_discoveryVars
             PROVE  DiscoveryInv'
  OBVIOUS
<1> USE DiscoveryConstantsAssumption
<1>1. CASE \E p \in Peers : discoverPeer(p)
  BY <1>1, SessionsUnchanged DEF discoverPeer, DiscoveryInv, DiscoveryTypeOK
<1>2. CASE \E p \in Peers, t \in 0 .. LastTime : processHeartbeat(p, t)
  BY <1>2, SessionsUnchanged DEF processHeartbeat, DiscoveryInv, DiscoveryTypeOK
<1>3. CASE cleanupInactivePeers
  BY <1>3, SessionsUnchanged DEF cleanupInactivePeers, DiscoveryInv, DiscoveryTypeOK
<1>4. CASE \E s \in Attempts : establishSession(s)
  BY <1>4, SessionBegins
<1>5. CASE \E s \in Attempts : ProviderHealthy(s)
  BY <1>5, SessionProceeds DEF ProviderHealthy
<1>6. CASE \E s \in Attempts : KeyConfirmed(s)
  BY <1>6, SessionProceeds DEF KeyConfirmed
<1>7. CASE \E s \in Attempts : EstablishmentFails(s)
  BY <1>7, SessionFails
<1>8. CASE DiscoveryTick
  BY <1>8, SessionsUnchanged DEF DiscoveryTick, peerVars, DiscoveryInv, DiscoveryTypeOK
<1>9. CASE UNCHANGED discoveryVars
  BY <1>9, SessionsUnchanged DEF discoveryVars, peerVars, DiscoveryInv, DiscoveryTypeOK
<1> QED
  BY <1>1, <1>2, <1>3, <1>4, <1>5, <1>6, <1>7, <1>8, <1>9 DEF DiscoveryNext

\* However calls of establishSession for a peer overlap and in whatever order
\* they end, the map never holds the session of an older or a failed one, and
\* holds none only after a failure: for any peers, attempts and clock.
THEOREM DiscoveryCorrect == DiscoverySpec => [](DiscoveryTypeOK /\ SessionIsLatest)
<1>1. DiscoveryInv => DiscoveryTypeOK /\ SessionIsLatest
  BY DiscoveryInvImplies DEF DiscoveryInv
<1> QED
  BY <1>1, DiscoveryInvInit, DiscoveryInvStep, PTL DEF DiscoverySpec

-----------------------------------------------------------------------------
(* Registry: the entries are in the order of their additions.               *)

InOrder(q) == \A i, j \in DOMAIN q : i < j => q[i] < q[j]

RegistryInv ==
  /\ RegistryTypeOK
  /\ InOrder(pubkeys)
  /\ \A i \in DOMAIN pubkeys : i <= pubkeys[i] /\ pubkeys[i] <= additions
  /\ \A a \in Administrators : prepared[a].meant <= additions
  /\ OvertakenRemovalHitsYounger

LEMMA RegistryConstants == MaxAdditions \in Nat
BY RegistryConstantsAssumption

\* The entries behind the one removed move up by one.
LEMMA EntryRemoved ==
  ASSUME NEW S, NEW q \in Seq(S), NEW i \in DOMAIN q
  PROVE  /\ RemoveAt(q, i) \in Seq(S)
         /\ Len(RemoveAt(q, i)) = Len(q) - 1
         /\ \A k \in 1 .. Len(q) - 1 : RemoveAt(q, i)[k] = IF k < i THEN q[k] ELSE q[k + 1]
<1> DEFINE front == SubSeq(q, 1, i - 1)
           back == SubSeq(q, i + 1, Len(q))
<1>1. i \in 1 .. Len(q) /\ Len(q) \in Nat
  BY LenProperties
<1>2. front \in Seq(S) /\ Len(front) = i - 1 /\ \A k \in 1 .. i - 1 : front[k] = q[k]
  <2>1. \A k \in 1 .. i - 1 : q[k] \in S
    BY <1>1, ElementOfSeq
  <2>2. IF 1 <= i - 1 THEN Len(front) = i - 1 - 1 + 1 ELSE Len(front) = 0
    BY <1>1, SubSeqProperties
  <2> QED
    BY <1>1, <2>1, <2>2, SubSeqProperties
<1>3. back \in Seq(S) /\ Len(back) = Len(q) - i /\ \A k \in 1 .. Len(q) - i : back[k] = q[i + k]
  BY <1>1, SubSeqProperties
<1>4. RemoveAt(q, i) = front \o back
  BY DEF RemoveAt
<1> HIDE DEF front, back
<1>5. front \o back \in Seq(S) /\ Len(front \o back) = Len(q) - 1
  BY <1>1, <1>2, <1>3, ConcatProperties
<1>6. ASSUME NEW k \in 1 .. Len(q) - 1
      PROVE  (front \o back)[k] = IF k < i THEN q[k] ELSE q[k + 1]
  <2>1. (front \o back)[k] = IF k <= Len(front) THEN front[k] ELSE back[k - Len(front)]
    <3>1. k \in 1 .. Len(front) + Len(back)
      BY <1>1, <1>2, <1>3
    <3> QED
      BY <1>2, <1>3, <3>1, ConcatProperties
  <2>2. CASE k < i
    BY <1>1, <1>2, <2>1, <2>2
  <2>3. CASE ~(k < i)
    <3>1. k - Len(front) \in 1 .. Len(q) - i
      BY <1>1, <1>2, <2>3
    <3>2. back[k - Len(front)] = q[i + (k - Len(front))]
      BY <1>3, <3>1
    <3>3. i + (k - Len(front)) = k + 1
      BY <1>1, <1>2
    <3> QED
      BY <1>1, <1>2, <2>1, <2>3, <3>2, <3>3
  <2> QED
    BY <2>2, <2>3
<1> QED
  BY <1>4, <1>5, <1>6

LEMMA RegistryInvInit == RegistryInit => RegistryInv
BY RegistryConstants
DEF RegistryInit, RegistryInv, RegistryTypeOK, InOrder, OvertakenRemovalHitsYounger, NoRemoval

LEMMA KeysTyped ==
  ASSUME RegistryInv
  PROVE  /\ pubkeys \in Seq(1 .. MaxAdditions)
         /\ Len(pubkeys) \in Nat
         /\ DOMAIN pubkeys = 1 .. Len(pubkeys)
         /\ \A i \in 1 .. Len(pubkeys) : pubkeys[i] \in 1 .. MaxAdditions
         /\ additions \in Nat
         /\ Len(pubkeys) <= additions
<1>1. pubkeys \in Seq(1 .. MaxAdditions) /\ additions \in Nat
  BY RegistryConstants DEF RegistryInv, RegistryTypeOK
<1>2. Len(pubkeys) \in Nat /\ DOMAIN pubkeys = 1 .. Len(pubkeys)
  BY <1>1, LenProperties
<1>3. \A i \in 1 .. Len(pubkeys) : pubkeys[i] \in 1 .. MaxAdditions
  BY <1>1, ElementOfSeq
<1>4. CASE Len(pubkeys) = 0
  BY <1>1, <1>2, <1>3, <1>4
<1>5. CASE Len(pubkeys) # 0
  <2>1. Len(pubkeys) \in DOMAIN pubkeys
    BY <1>2, <1>5
  <2>2. Len(pubkeys) <= pubkeys[Len(pubkeys)] /\ pubkeys[Len(pubkeys)] <= additions
    BY <2>1 DEF RegistryInv
  <2>3. pubkeys[Len(pubkeys)] \in Int
    BY <1>2, <1>3, <2>1
  <2> QED
    BY <1>1, <1>2, <1>3, <2>2, <2>3
<1> QED
  BY <1>4, <1>5

LEMMA KeyAdded == RegistryInv /\ add_key => RegistryInv'
<1> SUFFICES ASSUME RegistryInv, add_key
             PROVE  RegistryInv'
  OBVIOUS
<1> USE RegistryConstants
<1>1. /\ pubkeys \in Seq(1 .. MaxAdditions) /\ Len(pubkeys) \in Nat
      /\ DOMAIN pubkeys = 1 .. Len(pubkeys)
      /\ \A i \in 1 .. Len(pubkeys) : pubkeys[i] \in 1 .. MaxAdditions
      /\ additions \in Nat /\ Len(pubkeys) <= additions
  BY KeysTyped
<1>2. additions < MaxAdditions /\ additions' = additions + 1 /\ prepared' = prepared
      /\ pubkeys' = Append(pubkeys, additions + 1) /\ total_keys' = total_keys + 1
  BY DEF add_key
<1>3. additions + 1 \in 1 .. MaxAdditions
  BY <1>1, <1>2
<1>4. /\ pubkeys' \in Seq(1 .. MaxAdditions)
      /\ Len(pubkeys') = Len(pubkeys) + 1
      /\ \A i \in 1 .. Len(pubkeys) : pubkeys'[i] = pubkeys[i]
      /\ pubkeys'[Len(pubkeys) + 1] = additions + 1
  BY <1>1, <1>2, <1>3, AppendProperties
<1>5. DOMAIN pubkeys' = 1 .. Len(pubkeys) + 1
  BY <1>4, LenProperties
<1>6. RegistryTypeOK'
  BY <1>1, <1>2, <1>3, <1>4 DEF RegistryInv, RegistryTypeOK
<1>7. \A i \in DOMAIN pubkeys' : i <= pubkeys'[i] /\ pubkeys'[i] <= additions'
  BY <1>1, <1>2, <1>4, <1>5 DEF RegistryInv
<1>8. InOrder(pubkeys)'
  <2>1. \A i \in 1 .. Len(pubkeys) : pubkeys[i] <= additions /\ pubkeys[i] \in Int
    BY <1>1 DEF RegistryInv
  <2>2. ASSUME NEW i \in DOMAIN pubkeys', NEW j \in DOMAIN pubkeys', i < j
        PROVE  pubkeys'[i] < pubkeys'[j]
    <3>1. i \in 1 .. Len(pubkeys) /\ pubkeys'[i] = pubkeys[i]
      BY <1>1, <1>4, <1>5, <2>2
    <3>2. CASE j \in 1 .. Len(pubkeys)
      BY <1>1, <1>4, <2>2, <3>1, <3>2 DEF RegistryInv, InOrder
    <3>3. CASE j = Len(pubkeys) + 1
      BY <1>1, <1>4, <2>1, <3>1, <3>3
    <3> QED
      BY <1>1, <1>5, <3>2, <3>3
  <2> QED
    BY <2>2 DEF InOrder
<1>9. \A a \in Administrators : prepared'[a].meant <= additions'
  <2>1. \A a \in Administrators : prepared[a].meant \in Int /\ prepared[a].meant <= additions
    BY DEF RegistryInv, RegistryTypeOK
  <2> QED
    BY <1>1, <1>2, <2>1
<1>10. OvertakenRemovalHitsYounger'
  <2>1. ASSUME NEW a \in Administrators, prepared[a].index \in DOMAIN pubkeys'
        PROVE  pubkeys'[prepared[a].index] >= prepared[a].meant
    <3>1. CASE prepared[a].index \in 1 .. Len(pubkeys)
      BY <1>1, <1>4, <3>1 DEF RegistryInv, OvertakenRemovalHitsYounger
    <3>2. CASE prepared[a].index = Len(pubkeys) + 1
      <4>1. prepared[a].meant \in Int /\ prepared[a].meant <= additions
        BY DEF RegistryInv, RegistryTypeOK
      <4> QED
        BY <1>1, <1>4, <3>2, <4>1
    <3> QED
      BY <1>1, <1>5, <2>1, <3>1, <3>2
  <2> QED
    BY <1>2, <2>1 DEF OvertakenRemovalHitsYounger
<1> QED
  BY <1>6, <1>7, <1>8, <1>9, <1>10 DEF RegistryInv

LEMMA KeyRemoved ==
  ASSUME RegistryInv, NEW a \in Administrators, remove_key(a)
  PROVE  RegistryInv'
<1> USE RegistryConstants
<1> DEFINE r == prepared[a].index
<1>1. /\ pubkeys \in Seq(1 .. MaxAdditions) /\ Len(pubkeys) \in Nat
      /\ DOMAIN pubkeys = 1 .. Len(pubkeys)
      /\ \A i \in 1 .. Len(pubkeys) : pubkeys[i] \in 1 .. MaxAdditions
      /\ additions \in Nat /\ Len(pubkeys) <= additions
  BY KeysTyped
<1>2. /\ r \in 1 .. Len(pubkeys)
      /\ pubkeys' = RemoveAt(pubkeys, r)
      /\ total_keys' = total_keys - 1
      /\ prepared' = [prepared EXCEPT ![a] = NoRemoval]
      /\ additions' = additions
  BY <1>1 DEF remove_key, Removed
<1> HIDE DEF r
<1>3. /\ pubkeys' \in Seq(1 .. MaxAdditions)
      /\ Len(pubkeys') = Len(pubkeys) - 1
      /\ \A k \in 1 .. Len(pubkeys) - 1 :
           pubkeys'[k] = IF k < r THEN pubkeys[k] ELSE pubkeys[k + 1]
  BY <1>1, <1>2, EntryRemoved
<1>4. DOMAIN pubkeys' = 1 .. Len(pubkeys) - 1
  BY <1>3, LenProperties
<1>5. \A i, j \in 1 .. Len(pubkeys) : i < j => pubkeys[i] < pubkeys[j]
  BY <1>1 DEF RegistryInv, InOrder
<1>6. ASSUME NEW k \in 1 .. Len(pubkeys) - 1
      PROVE  \/ k < r /\ pubkeys'[k] = pubkeys[k]
             \/ k >= r /\ pubkeys'[k] = pubkeys[k + 1] /\ pubkeys[k] < pubkeys[k + 1]
  BY <1>1, <1>2, <1>3, <1>5
<1>7. RegistryTypeOK'
  BY <1>1, <1>2, <1>3 DEF RegistryInv, RegistryTypeOK, NoRemoval
<1>8. \A i \in DOMAIN pubkeys' : i <= pubkeys'[i] /\ pubkeys'[i] <= additions'
  <2>1. \A i \in 1 .. Len(pubkeys) :
          i <= pubkeys[i] /\ pubkeys[i] <= additions /\ pubkeys[i] \in Int
    BY <1>1 DEF RegistryInv
  <2>2. ASSUME NEW i \in 1 .. Len(pubkeys) - 1
        PROVE  i <= pubkeys'[i] /\ pubkeys'[i] <= additions
    <3>1. i \in 1 .. Len(pubkeys) /\ i + 1 \in 1 .. Len(pubkeys)
      BY <1>1
    <3>2. i <= pubkeys[i] /\ pubkeys[i] <= additions /\ pubkeys[i] \in Int
      BY <2>1, <3>1
    <3>3. i + 1 <= pubkeys[i + 1] /\ pubkeys[i + 1] <= additions /\ pubkeys[i + 1] \in Int
      BY <2>1, <3>1
    <3> QED
      BY <1>6, <3>2, <3>3
  <2> QED
    BY <1>2, <1>4, <2>2
<1>9. InOrder(pubkeys)'
  <2>1. ASSUME NEW i \in 1 .. Len(pubkeys) - 1, NEW j \in 1 .. Len(pubkeys) - 1, i < j
        PROVE  pubkeys'[i] < pubkeys'[j]
    <3>1. /\ i \in 1 .. Len(pubkeys) /\ i + 1 \in 1 .. Len(pubkeys)
          /\ j \in 1 .. Len(pubkeys) /\ j + 1 \in 1 .. Len(pubkeys)
      BY <1>1
    <3>2. pubkeys[i] < pubkeys[j] /\ pubkeys[i] < pubkeys[j + 1]
          /\ (i + 1 < j => pubkeys[i + 1] < pubkeys[j]) /\ pubkeys[i + 1] < pubkeys[j + 1]
      BY <1>5, <2>1, <3>1
    <3> QED
      BY <1>2, <1>6, <2>1, <3>2
  <2> QED
    BY <1>4, <2>1 DEF InOrder
<1>10. \A b \in Administrators : prepared'[b].meant <= additions'
  <2>1. \A b \in Administrators : prepared'[b] = prepared[b] \/ prepared'[b].meant = 0
    BY <1>2 DEF RegistryInv, RegistryTypeOK, NoRemoval
  <2> QED
    BY <1>1, <1>2, <2>1 DEF RegistryInv
<1>11. OvertakenRemovalHitsYounger'
  <2>1. ASSUME NEW b \in Administrators, prepared'[b].index \in DOMAIN pubkeys'
        PROVE  pubkeys'[prepared'[b].index] >= prepared'[b].meant
    <3>1. prepared'[b] = prepared[b]
      <4>1. prepared'[b] = prepared[b] \/ prepared'[b].index = 0
        BY <1>2 DEF RegistryInv, RegistryTypeOK, NoRemoval
      <4> QED
        BY <1>1, <1>4, <2>1, <4>1
    <3> DEFINE k == prepared[b].index
    <3>2. k \in 1 .. Len(pubkeys) - 1
      BY <1>4, <2>1, <3>1
    <3>3. k \in 1 .. Len(pubkeys) /\ k + 1 \in 1 .. Len(pubkeys)
      BY <1>1, <3>2
    <3>4. pubkeys[k] >= prepared[b].meant
      BY <1>1, <3>3 DEF RegistryInv, OvertakenRemovalHitsYounger
    <3>5. prepared[b].meant \in Int /\ pubkeys[k] \in Int /\ pubkeys[k + 1] \in Int
      BY <1>1, <3>3 DEF RegistryInv, RegistryTypeOK
    <3> HIDE DEF k
    <3>6. pubkeys'[k] >= prepared[b].meant
      BY <1>6, <3>2, <3>4, <3>5
    <3> QED
      BY <3>1, <3>6 DEF k
  <2> QED
    BY <2>1 DEF OvertakenRemovalHitsYounger
<1> QED
  BY <1>7, <1>8, <1>9, <1>10, <1>11 DEF RegistryInv

\* A call is signed or aborts: the entries stay.
LEMMA CallPrepared ==
  ASSUME RegistryInv, NEW a \in Administrators, NEW i \in DOMAIN pubkeys, PrepareRemoval(a, i)
  PROVE  RegistryInv'
<1>1. /\ pubkeys \in Seq(1 .. MaxAdditions) /\ Len(pubkeys) \in Nat
      /\ DOMAIN pubkeys = 1 .. Len(pubkeys)
      /\ \A j \in 1 .. Len(pubkeys) : pubkeys[j] \in 1 .. MaxAdditions
      /\ additions \in 0 .. MaxAdditions /\ Len(pubkeys) <= additions
  BY KeysTyped DEF RegistryInv, RegistryTypeOK
<1>2. /\ prepared' = [prepared EXCEPT ![a] = [index |-> i, meant |-> pubkeys[i]]]
      /\ UNCHANGED <<pubkeys, total_keys, additions>>
  BY DEF PrepareRemoval
<1>3. i \in 0 .. MaxAdditions /\ pubkeys[i] \in 0 .. MaxAdditions /\ pubkeys[i] <= additions
  <2>1. i \in 1 .. Len(pubkeys)
    BY <1>1
  <2>2. pubkeys[i] <= additions
    BY <1>1 DEF RegistryInv
  <2> QED
    BY <1>1, <2>1, <2>2, RegistryConstants
<1>4. RegistryTypeOK'
  BY <1>1, <1>2, <1>3 DEF RegistryInv, RegistryTypeOK
<1>5. \A b \in Administrators :
        IF b = a THEN prepared'[b] = [index |-> i, meant |-> pubkeys[i]]
                 ELSE prepared'[b] = prepared[b]
  BY <1>2 DEF RegistryInv, RegistryTypeOK
<1>6. \A b \in Administrators : prepared'[b].meant <= additions'
  BY <1>2, <1>3, <1>5 DEF RegistryInv
<1>7. OvertakenRemovalHitsYounger'
  BY <1>2, <1>3, <1>5 DEF RegistryInv, OvertakenRemovalHitsYounger
<1> QED
  BY <1>2, <1>4, <1>6, <1>7 DEF RegistryInv, InOrder

LEMMA CallAborted ==
  ASSUME RegistryInv, NEW a \in Administrators, RemovalAborts(a)
  PROVE  RegistryInv'
<1>1. /\ prepared' = [prepared EXCEPT ![a] = NoRemoval]
      /\ UNCHANGED <<pubkeys, total_keys, additions>>
  BY DEF RemovalAborts
<1>2. \A b \in Administrators :
        IF b = a THEN prepared'[b] = NoRemoval ELSE prepared'[b] = prepared[b]
  BY <1>1 DEF RegistryInv, RegistryTypeOK
<1>3. NoRemoval.index = 0 /\ NoRemoval.meant = 0 /\ additions \in Nat /\ 0 \notin DOMAIN pubkeys
  BY KeysTyped DEF NoRemoval
<1>4. RegistryTypeOK'
  BY <1>1, RegistryConstants DEF RegistryInv, RegistryTypeOK, NoRemoval
<1>5. \A b \in Administrators : prepared'[b].meant <= additions'
  BY <1>1, <1>2, <1>3 DEF RegistryInv
<1>6. OvertakenRemovalHitsYounger'
  BY <1>1, <1>2, <1>3 DEF RegistryInv, OvertakenRemovalHitsYounger
<1> QED
  BY <1>1, <1>4, <1>5, <1>6 DEF RegistryInv, InOrder

LEMMA RegistryInvStep == RegistryInv /\ [RegistryNext]_registryVars => RegistryInv'
<1> SUFFICES ASSUME RegistryInv, [RegistryNext]_registryVars
             PROVE  RegistryInv'
  OBVIOUS
<1>1. CASE add_key
  BY <1>1, KeyAdded
<1>2. CASE \E a \in Administrators, i \in DOMAIN pubkeys : PrepareRemoval(a, i)
  BY <1>2, CallPrepared
<1>3. CASE \E a \in Administrators : remove_key(a)
  BY <1>3, KeyRemoved
<1>4. CASE \E a \in Administrators : RemovalAborts(a)
  BY <1>4, CallAborted
<1>5. CASE UNCHANGED registryVars
  <2>1. RegistryTypeOK'
    BY <1>5 DEF registryVars, RegistryInv, RegistryTypeOK
  <2> QED
    BY <1>5, <2>1 DEF registryVars, RegistryInv, InOrder, OvertakenRemovalHitsYounger
<1> QED
  BY <1>1, <1>2, <1>3, <1>4, <1>5 DEF RegistryNext

\* A removal that others overtook never hits an entry older than the one it was
\* meant for, and total_keys counts the entries: for any number of
\* administrators and any number of entries.
THEOREM RegistryCorrect == RegistrySpec => [](RegistryTypeOK /\ OvertakenRemovalHitsYounger)
<1>1. RegistryInv => RegistryTypeOK /\ OvertakenRemovalHitsYounger
  BY DEF RegistryInv
<1> QED
  BY <1>1, RegistryInvInit, RegistryInvStep, PTL DEF RegistrySpec

-----------------------------------------------------------------------------
(* TaskManager                                                              *)

\* Only tasks that were created have a status, and batches are of such tasks.
Created ==
  /\ \A t \in Tasks : taskStatus[t] # "none" => t <= created
  /\ \A b \in batches : b[1] + b[2] - 1 <= created

\* A task that is assigned has an agent.
HasAgent == \A t \in Tasks : taskStatus[t] = "ASSIGNED" => assignedAgent[t] \in TaskAgents

TaskInv == TaskTypeOK /\ Created /\ HasAgent /\ SlotsAreWork

LEMMA TaskInvInit == TaskInit => TaskInv
BY TaskConstantsAssumption
DEF TaskInit, TaskInv, TaskTypeOK, Created, HasAgent, SlotsAreWork, Tasks

\* The agent's data changes, its tasks do not.
LEMMA AgentDataSet ==
  ASSUME TaskInv,
         UNCHANGED <<created, batches, taskStatus, assignedAgent, agentAssignments, handedOver>>,
         agentStatuses' \in [TaskAgents -> {"ONLINE", "OFFLINE"}],
         agentCapacities' \in [TaskAgents -> TaskCapacities \cup {Unset}],
         agentPerformance' \in [TaskAgents -> ExecutionTimes \cup {Unset}]
  PROVE  TaskInv'
BY DEF TaskInv, TaskTypeOK, Created, HasAgent, SlotsAreWork

LEMMA BatchCreated ==
  ASSUME TaskInv, NEW n \in Tasks, createBatch(n)
  PROVE  TaskInv'
<1>1. /\ n \in Nat \ {0} /\ created \in Nat /\ NumTasks \in Nat /\ created + n <= NumTasks
      /\ created' = created + n
      /\ batches' = batches \cup {<<created + 1, n>>}
      /\ UNCHANGED <<assignedAgent, agentVars, agentAssignments, handedOver>>
  BY TaskConstantsAssumption DEF createBatch, TaskInv, TaskTypeOK, Tasks
<1>2. taskStatus' =
        [t \in Tasks |-> IF t \in created + 1 .. created + n THEN "PENDING" ELSE taskStatus[t]]
  BY DEF createBatch
<1>3. <<created + 1, n>> \in Tasks \X Tasks
  BY <1>1 DEF Tasks
<1>4. TaskTypeOK'
  BY <1>1, <1>2, <1>3 DEF TaskInv, TaskTypeOK, agentVars
<1>5. \A t \in Tasks : t \in created + 1 .. created + n => taskStatus[t] = "none"
  BY <1>1 DEF TaskInv, TaskTypeOK, Created, Tasks
<1>6. \A t \in Tasks : taskStatus'[t] = "ASSIGNED" <=> taskStatus[t] = "ASSIGNED"
  BY <1>2, <1>5
<1>7. Created'
  <2>1. \A t \in Tasks : taskStatus'[t] # "none" => t <= created'
    BY <1>1, <1>2 DEF TaskInv, Created, Tasks
  <2>2. \A b \in batches' : b[1] + b[2] - 1 <= created'
    <3>1. ASSUME NEW b \in batches
          PROVE  b[1] + b[2] - 1 <= created'
      <4>1. b[1] \in Int /\ b[2] \in Int
        BY DEF TaskInv, TaskTypeOK, Tasks
      <4>2. b[1] + b[2] - 1 <= created
        BY DEF TaskInv, Created
      <4> QED
        BY <1>1, <4>1, <4>2
    <3>2. created + 1 + n - 1 <= created'
      BY <1>1
    <3> QED
      BY <1>1, <3>1, <3>2
  <2> QED
    BY <2>1, <2>2 DEF Created
<1>8. \A a \in TaskAgents : agentAssignments[a] \subseteq Tasks
  BY DEF TaskInv, TaskTypeOK
<1>9. SlotsAreWork'
  BY <1>1, <1>6, <1>8 DEF TaskInv, SlotsAreWork
<1> QED
  BY <1>1, <1>4, <1>6, <1>7, <1>9 DEF TaskInv, HasAgent

\* The tasks done get the agents who, and each that had another is handed over.
Assigned(done, who) ==
  /\ taskStatus' = [t \in Tasks |-> IF t \in done THEN "ASSIGNED" ELSE taskStatus[t]]
  /\ assignedAgent' = [t \in Tasks |-> IF t \in done THEN who[t] ELSE assignedAgent[t]]
  /\ agentAssignments' =
       [a \in TaskAgents |-> agentAssignments[a] \cup {t \in done : who[t] = a}]
  /\ handedOver' = handedOver \cup
       {p \in TaskAgents \X done : p[1] = assignedAgent[p[2]] /\ p[1] # who[p[2]]}
  /\ UNCHANGED <<created, batches, agentVars>>

LEMMA AssignmentShape ==
  ASSUME TaskInv, NEW first \in Tasks, NEW n \in Nat, first + n - 1 <= created, NEW agents,
         \A t \in first .. first + n - 1 : agents[((t - first) % Len(agents)) + 1] \in TaskAgents,
         AssignInOrder(first, n, agents)
  PROVE  \E done \in SUBSET {t \in Tasks : t <= created} :
           \E who \in [done -> TaskAgents] : Assigned(done, who)
<1> DEFINE agentOf(t) == agents[((t - first) % Len(agents)) + 1]
           batch == first .. first + n - 1
           before(t) == {u \in batch : u < t /\ agentOf(u) = agentOf(t)}
           admitted(t) == Admits(agentOf(t),
                                 Cardinality(agentAssignments[agentOf(t)] \cup before(t)))
           done == {t \in batch : \A u \in first .. t : admitted(u)}
           who == [t \in done |-> agentOf(t)]
<1>1. \A t \in batch : agentOf(t) \in TaskAgents
  OBVIOUS
<1>2. /\ taskStatus' = [t \in Tasks |-> IF t \in done THEN "ASSIGNED" ELSE taskStatus[t]]
      /\ assignedAgent' = [t \in Tasks |-> IF t \in done THEN agentOf(t) ELSE assignedAgent[t]]
      /\ agentAssignments' =
           [a \in TaskAgents |-> agentAssignments[a] \cup {t \in done : agentOf(t) = a}]
      /\ handedOver' = handedOver \cup
           {p \in TaskAgents \X done : p[1] = assignedAgent[p[2]] /\ p[1] # agentOf(p[2])}
      /\ UNCHANGED <<created, batches, agentVars>>
  BY DEF AssignInOrder
<1>3. done \subseteq batch /\ batch \subseteq {t \in Tasks : t <= created}
  <2>1. done \subseteq batch
    OBVIOUS
  <2>2. created \in Nat /\ NumTasks \in Nat /\ created <= NumTasks /\ first \in Nat \ {0}
    BY TaskConstantsAssumption DEF TaskInv, TaskTypeOK, Tasks
  <2> QED
    BY <2>1, <2>2 DEF Tasks
<1> HIDE DEF done, agentOf
<1>4. who \in [done -> TaskAgents] /\ \A t \in done : who[t] = agentOf(t)
  BY <1>1, <1>3
<1> HIDE DEF who
<1>5. [t \in Tasks |-> IF t \in done THEN agentOf(t) ELSE assignedAgent[t]]
        = [t \in Tasks |-> IF t \in done THEN who[t] ELSE assignedAgent[t]]
  BY <1>4
<1>6. [a \in TaskAgents |-> agentAssignments[a] \cup {t \in done : agentOf(t) = a}]
        = [a \in TaskAgents |-> agentAssignments[a] \cup {t \in done : who[t] = a}]
  BY <1>4
<1>7. {p \in TaskAgents \X done : p[1] = assignedAgent[p[2]] /\ p[1] # agentOf(p[2])}
        = {p \in TaskAgents \X done : p[1] = assignedAgent[p[2]] /\ p[1] # who[p[2]]}
  BY <1>4
<1>8. Assigned(done, who)
  BY <1>2, <1>5, <1>6, <1>7 DEF Assigned
<1> QED
  BY <1>3, <1>4, <1>8

LEMMA TasksAssigned ==
  ASSUME TaskInv, NEW done \in SUBSET {t \in Tasks : t <= created},
         NEW who \in [done -> TaskAgents], Assigned(done, who)
  PROVE  TaskInv'
<1>1. /\ created \in 0 .. NumTasks /\ batches \subseteq Tasks \X Tasks
      /\ taskStatus \in [Tasks -> {"none", "PENDING", "ASSIGNED", "COMPLETED", "FAILED"}]
      /\ assignedAgent \in [Tasks -> TaskAgents \cup {Unset}]
      /\ agentAssignments \in [TaskAgents -> SUBSET Tasks]
      /\ handedOver \subseteq TaskAgents \X Tasks
      /\ done \subseteq Tasks
  BY DEF TaskInv, TaskTypeOK
<1>2. /\ \A t \in done : taskStatus'[t] = "ASSIGNED" /\ assignedAgent'[t] = who[t]
      /\ \A t \in Tasks \ done : taskStatus'[t] = taskStatus[t]
                                 /\ assignedAgent'[t] = assignedAgent[t]
  BY <1>1 DEF Assigned
<1>3. \A a \in TaskAgents :
        agentAssignments'[a] = agentAssignments[a] \cup {t \in done : who[t] = a}
  BY DEF Assigned
<1>4. \A a \in TaskAgents, t \in done :
        assignedAgent[t] = a /\ who[t] # a => <<a, t>> \in handedOver'
  BY DEF Assigned
<1>5. handedOver \subseteq handedOver'
  BY DEF Assigned
<1>6. TaskTypeOK'
  <2>1. taskStatus' \in [Tasks -> {"none", "PENDING", "ASSIGNED", "COMPLETED", "FAILED"}]
    BY <1>1 DEF Assigned
  <2>2. assignedAgent' \in [Tasks -> TaskAgents \cup {Unset}]
    BY <1>1 DEF Assigned
  <2>3. agentAssignments' \in [TaskAgents -> SUBSET Tasks]
    BY <1>1 DEF Assigned
  <2>4. handedOver' \subseteq TaskAgents \X Tasks
    BY <1>1 DEF Assigned
  <2> QED
    BY <2>1, <2>2, <2>3, <2>4 DEF Assigned, agentVars, TaskInv, TaskTypeOK
<1>7. Created'
  BY <1>1, <1>2 DEF Assigned, TaskInv, Created
<1>8. HasAgent'
  BY <1>2 DEF TaskInv, HasAgent
<1>9. ASSUME NEW t \in Tasks, taskStatus'[t] = "ASSIGNED"
      PROVE  t \in agentAssignments'[assignedAgent'[t]]
  <2>1. CASE t \in done
    BY <1>2, <1>3, <2>1
  <2>2. CASE t \notin done
    BY <1>2, <1>3, <1>9, <2>2 DEF TaskInv, HasAgent, SlotsAreWork
  <2> QED
    BY <2>1, <2>2
<1>10. ASSUME NEW a \in TaskAgents, NEW t \in agentAssignments'[a]
       PROVE  \/ taskStatus'[t] = "ASSIGNED" /\ assignedAgent'[t] = a
              \/ <<a, t>> \in handedOver'
  <2>1. CASE t \in done /\ who[t] = a
    BY <1>2, <2>1
  <2>2. CASE ~(t \in done /\ who[t] = a)
    <3>1. t \in agentAssignments[a] /\ t \in Tasks
      BY <1>1, <1>3, <1>10, <2>2
    <3>2. \/ taskStatus[t] = "ASSIGNED" /\ assignedAgent[t] = a
          \/ <<a, t>> \in handedOver
      BY <3>1 DEF TaskInv, SlotsAreWork
    <3> QED
      BY <1>2, <1>4, <1>5, <2>2, <3>1, <3>2
  <2> QED
    BY <2>1, <2>2
<1> QED
  BY <1>6, <1>7, <1>8, <1>9, <1>10 DEF TaskInv, SlotsAreWork

LEMMA OneTaskAssigned ==
  ASSUME TaskInv, NEW t \in Tasks, t <= created, NEW a \in TaskAgents, AssignInOrder(t, 1, <<a>>)
  PROVE  TaskInv'
<1>1. \A u \in t .. t + 1 - 1 : <<a>>[((u - t) % Len(<<a>>)) + 1] \in TaskAgents
  <2>1. t \in Nat
    BY DEF Tasks
  <2>2. \A u \in t .. t + 1 - 1 : ((u - t) % 1) + 1 = 1
    BY <2>1
  <2> QED
    BY <2>2
<1>2. t + 1 - 1 <= created
  BY DEF Tasks
<1> QED
  BY <1>1, <1>2, AssignmentShape, TasksAssigned

LEMMA BatchAssigned ==
  ASSUME TaskInv, NEW batch \in batches, NEW a \in TaskAgents, NEW b \in TaskAgents,
         assignBatch(batch, <<a, b>>)
  PROVE  TaskInv'
<1>1. batch[1] \in Tasks /\ batch[2] \in Nat /\ batch[1] + batch[2] - 1 <= created
  BY DEF TaskInv, TaskTypeOK, Created, Tasks
<1>2. AssignInOrder(batch[1], batch[2], <<a, b>>)
  BY DEF assignBatch
<1>3. \A u \in batch[1] .. batch[1] + batch[2] - 1 :
        <<a, b>>[((u - batch[1]) % Len(<<a, b>>)) + 1] \in TaskAgents
  <2>1. batch[1] \in Nat
    BY <1>1 DEF Tasks
  <2>2. \A u \in batch[1] .. batch[1] + batch[2] - 1 : (u - batch[1]) % 2 \in {0, 1}
    BY <1>1, <2>1
  <2> QED
    BY <2>2
<1> QED
  BY <1>1, <1>2, <1>3, AssignmentShape, TasksAssigned

LEMMA TaskEnds ==
  ASSUME TaskInv, NEW t \in Tasks, t <= created, NEW status \in {"COMPLETED", "FAILED"},
         Ends(t, status)
  PROVE  TaskInv'
<1>1. /\ taskStatus' = [taskStatus EXCEPT ![t] = status]
      /\ agentAssignments' =
           [a \in TaskAgents |-> IF a = assignedAgent[t] THEN agentAssignments[a] \ {t}
                                                         ELSE agentAssignments[a]]
      /\ UNCHANGED <<created, batches, assignedAgent, agentVars, handedOver>>
  BY DEF Ends, SlotFreed
<1>2. /\ taskStatus \in [Tasks -> {"none", "PENDING", "ASSIGNED", "COMPLETED", "FAILED"}]
      /\ agentAssignments \in [TaskAgents -> SUBSET Tasks]
  BY DEF TaskInv, TaskTypeOK
<1>3. TaskTypeOK'
  BY <1>1, <1>2 DEF TaskInv, TaskTypeOK, agentVars
<1>4. taskStatus'[t] # "ASSIGNED" /\ \A u \in Tasks \ {t} : taskStatus'[u] = taskStatus[u]
  BY <1>1, <1>2
<1>5. Created'
  BY <1>1, <1>4 DEF TaskInv, Created
<1>6. HasAgent'
  BY <1>1, <1>4 DEF TaskInv, HasAgent
<1>7. ASSUME NEW u \in Tasks, taskStatus'[u] = "ASSIGNED"
      PROVE  u \in agentAssignments'[assignedAgent'[u]]
  <2>1. u # t /\ taskStatus[u] = "ASSIGNED"
    BY <1>4, <1>7
  <2>2. assignedAgent[u] \in TaskAgents /\ u \in agentAssignments[assignedAgent[u]]
    BY <2>1 DEF TaskInv, HasAgent, SlotsAreWork
  <2> QED
    BY <1>1, <2>1, <2>2
<1>8. ASSUME NEW a \in TaskAgents, NEW u \in agentAssignments'[a]
      PROVE  \/ taskStatus'[u] = "ASSIGNED" /\ assignedAgent'[u] = a
             \/ <<a, u>> \in handedOver'
  <2>1. u \in agentAssignments[a] /\ u \in Tasks /\ (u = t => a # assignedAgent[t])
    BY <1>1, <1>2, <1>8
  <2>2. \/ taskStatus[u] = "ASSIGNED" /\ assignedAgent[u] = a
        \/ <<a, u>> \in handedOver
    BY <2>1 DEF TaskInv, SlotsAreWork
  <2> QED
    BY <1>1, <1>4, <2>1, <2>2
<1> QED
  BY <1>3, <1>5, <1>6, <1>7, <1>8 DEF TaskInv, SlotsAreWork

LEMMA TaskInvStep == TaskInv /\ [TaskNext]_taskVars => TaskInv'
<1> SUFFICES ASSUME TaskInv, [TaskNext]_taskVars
             PROVE  TaskInv'
  OBVIOUS
<1>1. CASE \E n \in Tasks : createBatch(n)
  BY <1>1, BatchCreated
<1>2. CASE \E a \in TaskAgents : \E s \in {"ONLINE", "OFFLINE"} : setAgentStatus(a, s)
  BY <1>2, AgentDataSet DEF setAgentStatus, TaskInv, TaskTypeOK
<1>3. CASE \E a \in TaskAgents, n \in TaskCapacities : setAgentCapacity(a, n)
  BY <1>3, AgentDataSet DEF setAgentCapacity, TaskInv, TaskTypeOK
<1>4. CASE \E a \in TaskAgents, n \in ExecutionTimes : setAgentPerformance(a, n)
  BY <1>4, AgentDataSet DEF setAgentPerformance, TaskInv, TaskTypeOK
<1>5. CASE \E t \in Tasks, a \in TaskAgents : assignTask(t, a)
  BY <1>5, OneTaskAssigned DEF assignTask
<1>6. CASE \E t \in Tasks : autoAssignTask(t)
  <2>1. PICK t \in Tasks : autoAssignTask(t)
    BY <1>6
  <2>2. t <= created /\ \E a \in TaskAgents : AssignInOrder(t, 1, <<a>>)
    BY <2>1 DEF autoAssignTask
  <2> QED
    BY <2>2, OneTaskAssigned
<1>7. CASE \E t \in Tasks : completeTask(t) \/ markTaskFailed(t)
  BY <1>7, TaskEnds DEF completeTask, markTaskFailed
<1>8. CASE \E batch \in batches, a, b \in TaskAgents : assignBatch(batch, <<a, b>>)
  BY <1>8, BatchAssigned
<1>9. CASE UNCHANGED taskVars
  BY <1>9, AgentDataSet DEF taskVars, agentVars, TaskInv, TaskTypeOK
<1> QED
  BY <1>1, <1>2, <1>3, <1>4, <1>5, <1>6, <1>7, <1>8, <1>9 DEF TaskNext

\* A task that is assigned holds a slot of its agent, and a slot is held by a
\* task assigned to its agent or handed over from it, for any agents, tasks and
\* capacities and any order of assignments, results and failures.
THEOREM SlotsCorrect == TaskSpec => [](TaskTypeOK /\ SlotsAreWork)
<1>1. TaskInv => TaskTypeOK /\ SlotsAreWork
  BY DEF TaskInv
<1> QED
  BY <1>1, TaskInvInit, TaskInvStep, PTL DEF TaskSpec

-----------------------------------------------------------------------------
(* IntentQueue: the history of a user holds intents accepted from the user, *)
(* and all of those that the window may still count.                        *)

AcceptedOf(u) == {i \in Accepted : userOf[i] = u}
HistoryHolds ==
  /\ \A u \in Users : rateState[u] \subseteq AcceptedOf(u)
  /\ \A i \in Accepted : /\ acceptedAt[i] <= today
                         /\ today - acceptedAt[i] <= RateWindow => i \in rateState[userOf[i]]

IntentInv == IntentTypeOK /\ HistoryHolds /\ IntentsLimited

LEMMA IntentConstants ==
  RateWindow \in Nat /\ MaxPerWindow \in Nat /\ EndOfTime \in Nat
BY IntentConstantsAssumption

LEMMA IntentInvInit == IntentInit => IntentInv
<1> SUFFICES ASSUME IntentInit
             PROVE  IntentInv
  OBVIOUS
<1> USE IntentConstants
<1>1. Accepted = {}
  BY DEF IntentInit, Accepted
<1>2. IntentTypeOK
  BY DEF IntentInit, IntentTypeOK
<1>3. HistoryHolds
  BY <1>1 DEF IntentInit, HistoryHolds
<1>4. IntentsLimited
  BY <1>1, FS_EmptySet DEF IntentInit, IntentsLimited
<1> QED
  BY <1>2, <1>3, <1>4 DEF IntentInv

\* The first in the empty queue is taken at once.
LEMMA QueuedIsTaken == ASSUME NEW i PROVE Sorted(<<>>, i) = <<i>>
<1>1. {k \in DOMAIN <<>> : <<>>[k] \in FirstIntents} = {}
  OBVIOUS
<1>2. Cardinality({k \in DOMAIN <<>> : <<>>[k] \in FirstIntents}) = 0 /\ Len(<<>>) = 0
  BY <1>1, FS_EmptySet
<1>3. InsertAt(<<>>, 1, i) = <<i>>
  <2>1. SubSeq(<<>>, 1, 1 - 1) = <<>> /\ SubSeq(<<>>, 1, Len(<<>>)) = <<>>
    OBVIOUS
  <2>2. <<>> \o <<i>> = <<i>> /\ <<i>> \o <<>> = <<i>>
    OBVIOUS
  <2> QED
    BY <2>1, <2>2 DEF InsertAt
<1> QED
  BY <1>2, <1>3 DEF Sorted

\* Intents go on without one being accepted, and histories and the clock as well.
LEMMA NoneAccepted ==
  ASSUME IntentInv, Accepted' = Accepted, IntentTypeOK', intentQueue' = <<>>,
         userOf' = userOf, acceptedAt' = acceptedAt, today' >= today,
         \A u \in Users : /\ rateState'[u] \subseteq rateState[u]
                          /\ \A i \in rateState[u] \ rateState'[u] :
                               today' - acceptedAt[i] > RateWindow
  PROVE  IntentInv'
<1> USE IntentConstants
<1>1. /\ today \in Int /\ today' \in Int
      /\ \A i \in Intents : acceptedAt[i] \in Int /\ userOf[i] \in Users
      /\ Accepted \subseteq Intents
  BY DEF IntentInv, IntentTypeOK, Accepted
<1>2. HistoryHolds'
  <2>1. \A u \in Users : rateState'[u] \subseteq AcceptedOf(u)'
    BY DEF IntentInv, HistoryHolds, AcceptedOf
  <2>2. ASSUME NEW i \in Accepted
        PROVE  /\ acceptedAt[i] <= today'
               /\ today' - acceptedAt[i] <= RateWindow => i \in rateState'[userOf[i]]
    BY <1>1, <2>2 DEF IntentInv, HistoryHolds
  <2> QED
    BY <2>1, <2>2 DEF HistoryHolds
<1>3. IntentsLimited'
  BY DEF IntentInv, IntentsLimited
<1> QED
  BY <1>2, <1>3 DEF IntentInv

LEMMA SignatureChecked ==
  ASSUME IntentInv, NEW i \in Intents, NEW outcome \in {"verifying", "refused"},
         intentState[i] \in {"new", "verifying"},
         intentState' = [intentState EXCEPT ![i] = outcome],
         UNCHANGED <<userOf, intentQueue, rateState, acceptedAt, today>>
  PROVE  IntentInv'
<1>1. IntentTypeOK'
  BY DEF IntentInv, IntentTypeOK
<1>2. Accepted' = Accepted
  BY DEF IntentInv, IntentTypeOK, Accepted
<1>3. intentQueue' = <<>> /\ today' >= today
  BY DEF IntentInv, IntentsLimited, IntentTypeOK
<1> QED
  BY <1>1, <1>2, <1>3, NoneAccepted

LEMMA HandlingEnds ==
  ASSUME IntentInv, NEW i \in Intents, Handled(i)
  PROVE  IntentInv'
<1>1. intentQueue = <<>>
  BY DEF IntentInv, IntentsLimited
<1>2. /\ intentState[i] = "handling"
      /\ intentState' = [intentState EXCEPT ![i] = "handled"]
      /\ intentQueue' = <<>>
      /\ UNCHANGED <<userOf, rateState, acceptedAt, today>>
  BY <1>1 DEF Handled, processNext
<1>3. IntentTypeOK'
  BY <1>1, <1>2 DEF IntentInv, IntentTypeOK
<1>4. Accepted' = Accepted
  BY <1>2 DEF IntentInv, IntentTypeOK, Accepted
<1>5. today' >= today
  BY <1>2 DEF IntentInv, IntentTypeOK
<1> QED
  BY <1>2, <1>3, <1>4, <1>5, NoneAccepted

LEMMA IntentClockTicks == IntentInv /\ IntentTick => IntentInv'
<1> SUFFICES ASSUME IntentInv, IntentTick
             PROVE  IntentInv'
  OBVIOUS
<1>1. /\ today \in 0 .. EndOfTime /\ today < EndOfTime /\ today' = today + 1
      /\ UNCHANGED <<intentState, userOf, intentQueue, rateState, acceptedAt>>
  BY DEF IntentTick, IntentInv, IntentTypeOK
<1>2. IntentTypeOK'
  <2>1. today' \in 0 .. EndOfTime
    BY <1>1, IntentConstants
  <2> QED
    BY <1>1, <2>1 DEF IntentInv, IntentTypeOK
<1>3. Accepted' = Accepted /\ intentQueue' = <<>> /\ today' >= today
  BY <1>1 DEF Accepted, IntentInv, IntentsLimited
<1> QED
  BY <1>1, <1>2, <1>3, NoneAccepted

\* Those accepted in a stretch that holds today are those of the window, and i.
LEMMA Verified ==
  ASSUME IntentInv, NEW i \in Intents, SignatureVerified(i)
  PROVE  IntentInv'
<1> DEFINE u == userOf[i]
           fresh == {j \in rateState[u] : WithinWindow(j)}
           limited == Cardinality(fresh) >= MaxPerWindow
<1> USE IntentConstants
<1>1. /\ intentState[i] = "verifying"
      /\ rateState' = [rateState EXCEPT ![u] = IF limited THEN fresh ELSE fresh \cup {i}]
      /\ acceptedAt' = [acceptedAt EXCEPT ![i] = IF limited THEN @ ELSE today]
      /\ UNCHANGED <<userOf, today>>
  BY DEF SignatureVerified
<1>2. /\ intentState \in [Intents -> {"new", "verifying", "refused", "queued", "handling", "handled"}]
      /\ u \in Users
      /\ rateState \in [Users -> SUBSET Intents]
      /\ acceptedAt \in [Intents -> 0 .. EndOfTime]
      /\ userOf \in [Intents -> Users]
      /\ today \in 0 .. EndOfTime
      /\ intentQueue = <<>>
  BY DEF IntentInv, IntentTypeOK, IntentsLimited
<1>3. fresh \subseteq rateState[u] /\ fresh \subseteq Intents
  BY <1>2
<1>4. \A j \in rateState[u] : j \in fresh <=> today - acceptedAt[j] <= RateWindow
  BY DEF WithinWindow
<1>5. limited => intentState' = [intentState EXCEPT ![i] = "refused"] /\ UNCHANGED intentQueue
  BY DEF SignatureVerified
<1>6. ~limited => processNext([intentState EXCEPT ![i] = "queued"], Sorted(intentQueue, i))
  BY DEF SignatureVerified
<1>7. i \notin Accepted /\ Accepted \subseteq Intents
  BY <1>1, <1>2 DEF Accepted
<1> HIDE DEF u, fresh
<1>8. CASE limited
  <2>1. /\ rateState' = [rateState EXCEPT ![u] = fresh]
        /\ acceptedAt' = acceptedAt
        /\ intentState' = [intentState EXCEPT ![i] = "refused"]
        /\ intentQueue' = <<>>
    BY <1>1, <1>2, <1>5, <1>8
  <2>2. IntentTypeOK'
    BY <1>1, <1>2, <1>3, <2>1 DEF IntentInv, IntentTypeOK
  <2>3. Accepted' = Accepted
    BY <1>1, <1>2, <2>1 DEF Accepted
  <2>4. ASSUME NEW v \in Users
        PROVE  /\ rateState'[v] \subseteq rateState[v]
               /\ \A j \in rateState[v] \ rateState'[v] : today' - acceptedAt[j] > RateWindow
    <3>1. CASE v = u
      <4>1. \A j \in rateState[u] \ fresh : today - acceptedAt[j] > RateWindow
        <5>1. \A j \in rateState[u] : acceptedAt[j] \in Int
          BY <1>2
        <5> QED
          BY <1>2, <1>4, <5>1
      <4> QED
        BY <1>1, <1>2, <1>3, <2>1, <3>1, <4>1
    <3>2. CASE v # u
      BY <1>2, <2>1, <3>2
    <3> QED
      BY <3>1, <3>2
  <2>5. today' >= today
    BY <1>1, <1>2
  <2> QED
    BY <1>1, <2>1, <2>2, <2>3, <2>4, <2>5, NoneAccepted
<1>9. CASE ~limited
  <2>1. /\ rateState' = [rateState EXCEPT ![u] = fresh \cup {i}]
        /\ acceptedAt' = [acceptedAt EXCEPT ![i] = today]
    BY <1>1, <1>9
  <2>2. intentState' = [intentState EXCEPT ![i] = "handling"] /\ intentQueue' = <<>>
    <3>1. processNext([intentState EXCEPT ![i] = "queued"], <<i>>)
      BY <1>2, <1>6, <1>9, QueuedIsTaken
    <3>2. Head(<<i>>) = i /\ Tail(<<i>>) = <<>> /\ <<i>> # <<>>
      OBVIOUS
    <3> QED
      BY <1>2, <3>1, <3>2 DEF processNext
  <2>3. IntentTypeOK'
    BY <1>1, <1>2, <1>3, <2>1, <2>2 DEF IntentInv, IntentTypeOK
  <2>4. Accepted' = Accepted \cup {i}
    BY <1>2, <2>2 DEF Accepted
  <2>5. acceptedAt'[i] = today /\ \A j \in Accepted : acceptedAt'[j] = acceptedAt[j]
    BY <1>2, <1>7, <2>1
  <2>6. \A v \in Users : rateState'[v] = IF v = u THEN fresh \cup {i} ELSE rateState[v]
    BY <1>2, <2>1
  <2>7. HistoryHolds'
    <3>1. \A v \in Users : rateState'[v] \subseteq AcceptedOf(v)'
      BY <1>1, <1>3, <2>4, <2>6 DEF IntentInv, HistoryHolds, AcceptedOf, u
    <3>2. ASSUME NEW j \in Accepted
          PROVE  /\ acceptedAt'[j] <= today'
                 /\ today' - acceptedAt'[j] <= RateWindow => j \in rateState'[userOf'[j]]
      <4>1. /\ acceptedAt[j] <= today
            /\ today - acceptedAt[j] <= RateWindow => j \in rateState[userOf[j]]
        BY DEF IntentInv, HistoryHolds
      <4>2. userOf[j] \in Users
        BY <1>2, <1>7
      <4> QED
        BY <1>1, <1>4, <2>5, <2>6, <4>1, <4>2
    <3>3. /\ acceptedAt'[i] <= today'
          /\ today' - acceptedAt'[i] <= RateWindow => i \in rateState'[userOf'[i]]
      <4>1. i \in rateState'[u]
        BY <1>2, <2>6
      <4> QED
        BY <1>1, <1>2, <2>5, <4>1 DEF u
    <3> QED
      BY <2>4, <3>1, <3>2, <3>3 DEF HistoryHolds
  <2>8. ASSUME NEW v \in Users, NEW t \in 0 .. EndOfTime
        PROVE  Cardinality({j \in Accepted' : userOf'[j] = v /\ acceptedAt'[j] \in t .. t + RateWindow})
                 <= MaxPerWindow
    <3> DEFINE before == {j \in Accepted : userOf[j] = v /\ acceptedAt[j] \in t .. t + RateWindow}
               after == {j \in Accepted' : userOf'[j] = v /\ acceptedAt'[j] \in t .. t + RateWindow}
    <3>1. Cardinality(before) <= MaxPerWindow
      BY DEF IntentInv, IntentsLimited
    <3>2. CASE v # u \/ today \notin t .. t + RateWindow
      <4>1. after = before
        BY <1>1, <1>7, <2>4, <2>5, <3>2 DEF u
      <4> QED
        BY <3>1, <4>1
    <3>3. CASE v = u /\ today \in t .. t + RateWindow
      <4>1. after \subseteq before \cup {i}
        BY <1>1, <2>4, <2>5
      <4>2. before \subseteq fresh
        <5>1. ASSUME NEW j \in before
              PROVE  j \in fresh
          <6>1. j \in Accepted /\ userOf[j] = u /\ acceptedAt[j] \in t .. t + RateWindow
            BY <3>3
          <6>2. today - acceptedAt[j] <= RateWindow
            BY <1>2, <3>3, <6>1
          <6>3. j \in rateState[u]
            BY <6>1, <6>2 DEF IntentInv, HistoryHolds
          <6> QED
            BY <1>4, <6>2, <6>3
        <5> QED
          BY <5>1
      <4> HIDE DEF before, after
      <4>3. IsFiniteSet(fresh) /\ Cardinality(fresh) \in Nat
        BY <1>3, IntentConstantsAssumption, FS_Subset, FS_CardinalityType
      <4>4. /\ IsFiniteSet(fresh \cup {i})
            /\ \/ Cardinality(fresh \cup {i}) = Cardinality(fresh)
               \/ Cardinality(fresh \cup {i}) = Cardinality(fresh) + 1
        BY <4>3, FS_AddElement
      <4>5. after \subseteq fresh \cup {i}
        BY <4>1, <4>2
      <4>6. Cardinality(after) <= Cardinality(fresh \cup {i}) /\ Cardinality(after) \in Nat
        BY <4>4, <4>5, FS_Subset, FS_CardinalityType
      <4>7. Cardinality(fresh) + 1 <= MaxPerWindow
        BY <1>9, <4>3
      <4> QED
        BY <4>3, <4>4, <4>6, <4>7 DEF after
    <3> QED
      BY <3>2, <3>3
  <2>9. IntentsLimited'
    BY <2>2, <2>8 DEF IntentsLimited
  <2> QED
    BY <2>3, <2>7, <2>9 DEF IntentInv
<1> QED
  BY <1>8, <1>9

LEMMA IntentInvStep == IntentInv /\ [IntentNext]_intentVars => IntentInv'
<1> SUFFICES ASSUME IntentInv, [IntentNext]_intentVars
             PROVE  IntentInv'
  OBVIOUS
<1>1. CASE \E i \in Intents : enqueue(i)
  BY <1>1, SignatureChecked DEF enqueue
<1>2. CASE \E i \in Intents : SignatureFails(i)
  BY <1>2, SignatureChecked DEF SignatureFails
<1>3. CASE \E i \in Intents : SignatureVerified(i)
  BY <1>3, Verified
<1>4. CASE \E i \in Intents : Handled(i)
  BY <1>4, HandlingEnds
<1>5. CASE IntentTick
  BY <1>5, IntentClockTicks
<1>6. CASE UNCHANGED intentVars
  <2>1. IntentTypeOK' /\ Accepted' = Accepted
    BY <1>6 DEF intentVars, IntentInv, IntentTypeOK, Accepted
  <2>2. intentQueue' = <<>> /\ today' >= today
    BY <1>6 DEF intentVars, IntentInv, IntentsLimited, IntentTypeOK
  <2> QED
    BY <1>6, <2>1, <2>2, NoneAccepted DEF intentVars
<1> QED
  BY <1>1, <1>2, <1>3, <1>4, <1>5, <1>6 DEF IntentNext

\* In no stretch of time as long as the window are more intents of a user
\* accepted than the limit, although the history forgets, and the queue never
\* holds an intent between two steps: for any users, intents, window and limit.
THEOREM IntentsCorrect == IntentSpec => [](IntentTypeOK /\ IntentsLimited)
<1>1. IntentInv => IntentTypeOK /\ IntentsLimited
  BY DEF IntentInv
<1> QED
  BY <1>1, IntentInvInit, IntentInvStep, PTL DEF IntentSpec

-----------------------------------------------------------------------------
(* Reputation: what one adjustment and one report do to an agent.           *)

AgentRecord == [score : 0 .. 100, totalReports : Nat, correctReports : Nat]

LEMMA ClampedScore ==
  ASSUME NEW n \in Int
  PROVE  Max({0, Min({100, n})}) = IF n < 0 THEN 0 ELSE IF n > 100 THEN 100 ELSE n
<1> DEFINE low == IF n > 100 THEN 100 ELSE n
<1>1. Min({100, n}) = low
  BY DEF Min
<1>2. low \in Int
  OBVIOUS
<1> HIDE DEF low
<1>3. Max({0, low}) = IF low < 0 THEN 0 ELSE low
  BY <1>2 DEF Max
<1> QED
  BY <1>1, <1>3 DEF low

LEMMA Adjusted ==
  ASSUME NEW agent \in AgentRecord, NEW delta \in Int
  PROVE  /\ adjustReputation(agent, delta) \in AgentRecord
         /\ adjustReputation(agent, delta).score =
              IF agent.score + delta < 0 THEN 0
              ELSE IF agent.score + delta > 100 THEN 100 ELSE agent.score + delta
         /\ adjustReputation(agent, delta).totalReports = agent.totalReports
         /\ adjustReputation(agent, delta).correctReports = agent.correctReports
<1>1. agent.score + delta \in Int
  BY DEF AgentRecord
<1> DEFINE clamped == Max({0, Min({100, agent.score + delta})})
<1>2. clamped = IF agent.score + delta < 0 THEN 0
                ELSE IF agent.score + delta > 100 THEN 100 ELSE agent.score + delta
  BY <1>1, ClampedScore
<1>3. clamped \in 0 .. 100
  BY <1>1, <1>2
<1>4. adjustReputation(agent, delta) = [agent EXCEPT !.score = clamped]
  BY DEF adjustReputation
<1> HIDE DEF clamped
<1> QED
  BY <1>2, <1>3, <1>4 DEF AgentRecord

\* A report that was wrong lowers the score; one that was right does, too, if it
\* leaves the agent Byzantine, and raises it by 5 at most.
LEMMA Reported ==
  ASSUME NEW agent \in AgentRecord, agent.correctReports <= agent.totalReports,
         NEW report \in Reports
  PROVE  LET after == recordReport(agent, report)
         IN  /\ after \in AgentRecord
             /\ after.totalReports = agent.totalReports + 1
             /\ after.correctReports <= after.totalReports
             /\ after.score > agent.score =>
                  /\ after.correctReports > agent.correctReports
                  /\ agent.totalReports < 4 \/ agent.score >= 15
<1> DEFINE counted == [agent EXCEPT !.totalReports = @ + 1,
                                    !.correctReports = IF report.wasCorrect THEN @ + 1 ELSE @]
           delta == IF report.wasCorrect THEN Min({5, report.confidence})
                                         ELSE -(2 + report.confidence)
           updated == adjustReputation(counted, delta)
           after == recordReport(agent, report)
<1>1. /\ counted \in AgentRecord /\ counted.score = agent.score
      /\ counted.totalReports = agent.totalReports + 1
      /\ counted.correctReports = IF report.wasCorrect THEN agent.correctReports + 1
                                                       ELSE agent.correctReports
  <2> DEFINE correct == IF report.wasCorrect THEN agent.correctReports + 1
                                             ELSE agent.correctReports
  <2>1. correct \in Nat
    BY DEF AgentRecord
  <2> DEFINE total == agent.totalReports + 1
  <2>2. counted = [agent EXCEPT !.totalReports = total, !.correctReports = correct]
    OBVIOUS
  <2>3. total \in Nat
    BY DEF AgentRecord
  <2> HIDE DEF correct, counted, total
  <2>4. counted \in AgentRecord
    BY <2>1, <2>2, <2>3 DEF AgentRecord
  <2>5. /\ counted.score = agent.score
        /\ counted.totalReports = total
        /\ counted.correctReports = correct
    BY <2>2 DEF AgentRecord
  <2> QED
    BY <2>4, <2>5 DEF correct, total
<1>2. report.confidence \in 0 .. 5
  BY ReputationConstantsAssumption DEF Reports
<1>3. Min({5, report.confidence}) = report.confidence
  BY <1>2 DEF Min
<1>4. delta \in Int /\ IF report.wasCorrect THEN delta \in 0 .. 5 ELSE delta < 0
  BY <1>2, <1>3
<1>5. after = IF isByzantineAgent(updated) THEN adjustReputation(updated, -15) ELSE updated
  BY DEF recordReport
<1> HIDE DEF counted, delta, after
<1>6. /\ updated \in AgentRecord
      /\ updated.score = IF agent.score + delta < 0 THEN 0
                         ELSE IF agent.score + delta > 100 THEN 100 ELSE agent.score + delta
      /\ updated.totalReports = counted.totalReports
      /\ updated.correctReports = counted.correctReports
  BY <1>1, <1>4, Adjusted
<1> DEFINE slashed == adjustReputation(updated, -15)
<1> HIDE DEF updated
<1>7. /\ slashed \in AgentRecord
      /\ slashed.score = IF updated.score - 15 < 0 THEN 0 ELSE updated.score - 15
      /\ slashed.totalReports = updated.totalReports
      /\ slashed.correctReports = updated.correctReports
  <2> DEFINE penalty == -15
  <2>1. penalty \in Int /\ updated.score \in 0 .. 100 /\ updated.score + penalty = updated.score - 15
    BY <1>6 DEF AgentRecord
  <2>2. slashed = adjustReputation(updated, penalty)
    BY DEF slashed
  <2> HIDE DEF penalty
  <2>3. /\ slashed \in AgentRecord
        /\ slashed.score = IF updated.score + penalty < 0 THEN 0
                           ELSE IF updated.score + penalty > 100 THEN 100
                           ELSE updated.score + penalty
        /\ slashed.totalReports = updated.totalReports
        /\ slashed.correctReports = updated.correctReports
    <3> DEFINE less == adjustReputation(updated, penalty)
    <3>1. /\ less \in AgentRecord
          /\ less.score = IF updated.score + penalty < 0 THEN 0
                          ELSE IF updated.score + penalty > 100 THEN 100
                          ELSE updated.score + penalty
          /\ less.totalReports = updated.totalReports
          /\ less.correctReports = updated.correctReports
      BY <1>6, <2>1, Adjusted
    <3> HIDE DEF less
    <3>2. slashed = less
      BY <2>2 DEF less
    <3> QED
      BY <3>1, <3>2
  <2> QED
    BY <2>1, <2>3
<1> HIDE DEF slashed
<1>8. /\ agent.score \in 0 .. 100 /\ agent.totalReports \in Nat /\ agent.correctReports \in Nat
      /\ updated.score \in 0 .. 100
  BY <1>6 DEF AgentRecord
<1>9. CASE isByzantineAgent(updated)
  <2>1. after = slashed
    BY <1>5, <1>9 DEF slashed
  <2>2. after.score <= agent.score
    BY <1>4, <1>6, <1>7, <1>8, <2>1
  <2> QED
    BY <1>1, <1>6, <1>7, <1>8, <2>1, <2>2 DEF after
<1>10. CASE ~isByzantineAgent(updated)
  <2>1. after = updated
    BY <1>5, <1>10
  <2>2. after.totalReports < 5 \/ after.score >= 20
    BY <1>1, <1>6, <1>8, <1>10, <2>1 DEF isByzantineAgent
  <2>3. ASSUME after.score > agent.score
        PROVE  report.wasCorrect /\ (agent.totalReports < 4 \/ agent.score >= 15)
    BY <1>1, <1>4, <1>6, <1>8, <2>1, <2>2, <2>3
  <2>4. /\ after \in AgentRecord
        /\ after.totalReports = agent.totalReports + 1
        /\ after.correctReports <= after.totalReports
        /\ report.wasCorrect => after.correctReports > agent.correctReports
    BY <1>1, <1>6, <1>8, <2>1
  <2> QED
    BY <2>3, <2>4 DEF after
<1> QED
  BY <1>9, <1>10

-----------------------------------------------------------------------------
(* Reputation: the tracker.                                                 *)

GoodRecord(agent) ==
  /\ agent \in AgentRecord
  /\ agent.correctReports <= agent.totalReports /\ agent.totalReports <= MaxReports

TrackerOK(t) ==
  DOMAIN t \subseteq TrackedAgents /\ \A a \in DOMAIN t : GoodRecord(t[a])

ReputationInv ==
  owner \in {"server", "engine"} /\ TrackerOK(tracker) /\ favoured \subseteq TrackedAgents

LEMMA NewAgentIsGood == GoodRecord(registerAgent)
BY ReputationConstantsAssumption DEF GoodRecord, AgentRecord, registerAgent

LEMMA RegisteredIsGood ==
  ASSUME NEW t, TrackerOK(t), NEW a
  PROVE  GoodRecord(Registered(t, a))
BY NewAgentIsGood DEF TrackerOK, Registered

LEMMA ScoreIsNumber ==
  ASSUME NEW t, TrackerOK(t), NEW a
  PROVE  /\ Registered(t, a).score \in Int
         /\ Registered(t, a).score >= 0 /\ Registered(t, a).score <= 100
BY RegisteredIsGood DEF GoodRecord, AgentRecord

LEMMA AgentSet ==
  ASSUME NEW t, TrackerOK(t), NEW a \in TrackedAgents, NEW agent, GoodRecord(agent)
  PROVE  /\ TrackerOK(With(t, a, agent))
         /\ Registered(With(t, a, agent), a) = agent
         /\ \A b : b # a => Registered(With(t, a, agent), b) = Registered(t, b)
<1> DEFINE new == With(t, a, agent)
<1>1. new = [b \in DOMAIN t \cup {a} |-> IF b = a THEN agent ELSE t[b]]
  BY DEF With
<1> HIDE DEF new
<1>2. DOMAIN new = DOMAIN t \cup {a} /\ new[a] = agent /\ \A b \in DOMAIN t : b # a => new[b] = t[b]
  BY <1>1
<1>3. TrackerOK(new)
  BY <1>2 DEF TrackerOK
<1>4. Registered(new, a) = agent /\ \A b : b # a => Registered(new, b) = Registered(t, b)
  BY <1>2 DEF Registered
<1> QED
  BY <1>3, <1>4 DEF new

\* The feedback of one update, accepted or not.
LEMMA FeedbackApplied ==
  ASSUME NEW t, TrackerOK(t), NEW a \in TrackedAgents, NEW accepted \in BOOLEAN
  PROVE  LET new == applySelectionFeedback(t, a, accepted)
         IN  /\ TrackerOK(new)
             /\ \A b : b # a => Registered(new, b) = Registered(t, b)
             /\ ~accepted => Registered(new, a).score <= Registered(t, a).score
<1> DEFINE delta == IF accepted THEN 2 ELSE -1
           old == Registered(t, a)
           agent == adjustReputation(old, delta)
<1>1. delta \in Int /\ (~accepted => delta < 0)
  OBVIOUS
<1>2. GoodRecord(old)
  BY RegisteredIsGood
<1>3. old \in AgentRecord
  BY <1>2 DEF GoodRecord
<1> HIDE DEF delta, old
<1>4. /\ agent \in AgentRecord
      /\ agent.score = IF old.score + delta < 0 THEN 0
                       ELSE IF old.score + delta > 100 THEN 100 ELSE old.score + delta
      /\ agent.totalReports = old.totalReports
      /\ agent.correctReports = old.correctReports
  BY <1>1, <1>3, Adjusted
<1>5. applySelectionFeedback(t, a, accepted) = With(t, a, agent)
  BY DEF applySelectionFeedback, delta, old
<1> HIDE DEF agent
<1>6. GoodRecord(agent)
  BY <1>2, <1>4 DEF GoodRecord
<1>7. ~accepted => agent.score <= old.score
  <2>1. old.score \in 0 .. 100
    BY <1>3 DEF AgentRecord
  <2> QED
    BY <1>1, <1>4, <2>1
<1> QED
  BY <1>5, <1>6, <1>7, AgentSet DEF old

-----------------------------------------------------------------------------
(* Reputation: a recursive function, and the feedback of a round by it.     *)

\* The function that FedBack defines exists, and so is what it is defined as.
LEMMA FeedbackOfARound ==
  ASSUME NEW senders, NEW selected, Len(senders) \in Nat
  PROVE  LET after == FedBack(senders, selected)
         IN  /\ after[0] = tracker
             /\ \A i \in 1 .. Len(senders) :
                  after[i] = applySelectionFeedback(after[i - 1], senders[i], i \in selected)
<1> DEFINE n == Len(senders)
           Value(f, i) ==
             IF i = 0 THEN tracker
                      ELSE applySelectionFeedback(f[i - 1], senders[i], i \in selected)
           Defined(f, k) == f = [i \in 0 .. k |-> Value(f, i)]
           defined == {k \in 0 .. n : \E f : Defined(f, k)}
<1>1. 0 \in defined
  <2> DEFINE f == [i \in 0 .. 0 |-> tracker]
  <2>1. \A i \in 0 .. 0 : Value(f, i) = tracker
    OBVIOUS
  <2>2. [i \in 0 .. 0 |-> Value(f, i)] = [i \in 0 .. 0 |-> tracker]
    BY <2>1
  <2>3. Defined(f, 0)
    BY <2>2
  <2> HIDE DEF Defined
  <2> QED
    BY <2>3
<1>2. \A k \in 1 .. n : k - 1 \in defined => k \in defined
  <2> SUFFICES ASSUME NEW k \in 1 .. n, NEW f, Defined(f, k - 1)
               PROVE  \E g : Defined(g, k)
    OBVIOUS
  <2> DEFINE g == [i \in 0 .. k |-> IF i = k THEN Value(f, k) ELSE f[i]]
  <2>1. ASSUME NEW i \in 0 .. k
        PROVE  g[i] = Value(g, i)
    <3>1. i # 0 => i - 1 \in 0 .. k - 1 /\ g[i - 1] = f[i - 1]
      OBVIOUS
    <3>2. Value(g, i) = Value(f, i)
      BY <3>1
    <3>3. CASE i = k
      BY <3>2, <3>3
    <3>4. CASE i # k
      <4>1. i \in 0 .. k - 1 /\ g[i] = f[i]
        BY <3>4
      <4>2. f[i] = Value(f, i)
        <5>1. f = [j \in 0 .. k - 1 |-> Value(f, j)]
          OBVIOUS
        <5> HIDE DEF Value
        <5> QED
          BY <4>1, <5>1
      <4> QED
        BY <3>2, <4>1, <4>2
    <3> QED
      BY <3>3, <3>4
  <2>2. g = [i \in 0 .. k |-> g[i]]
    OBVIOUS
  <2> HIDE DEF g, Value
  <2>3. [i \in 0 .. k |-> g[i]] = [i \in 0 .. k |-> Value(g, i)]
    BY <2>1
  <2> QED
    BY <2>2, <2>3
<1>3. n \in defined
  <2>1. n \in Nat
    OBVIOUS
  <2> HIDE DEF defined, n
  <2>2. \A k \in 0 .. n : k \in defined
    BY <1>1, <1>2, <2>1, UpTo
  <2> QED
    BY <2>1, <2>2
<1>4. \E f : Defined(f, n)
  BY <1>3 DEF defined
<1> DEFINE after == FedBack(senders, selected)
<1>5. after = CHOOSE f : Defined(f, n)
  BY DEF FedBack
<1>6. Defined(after, n)
  <2> HIDE DEF Defined, after
  <2> QED
    BY <1>4, <1>5
<1>7. \A i \in 0 .. n : after[i] = Value(after, i)
  <2> HIDE DEF Value, after
  <2> QED
    BY <1>6
<1> HIDE DEF after
<1> QED
  BY <1>7 DEF after

\* What a whole round does to the tracker.
LEMMA RoundApplied ==
  ASSUME TrackerOK(tracker), NEW n \in Nat, NEW senders \in [1 .. n -> TrackedAgents], NEW selected
  PROVE  LET new == FedBack(senders, selected)[Len(senders)]
         IN  /\ TrackerOK(new)
             /\ \A a : a \notin {senders[i] : i \in selected} =>
                         Registered(new, a).score <= Registered(tracker, a).score
<1> DEFINE after == FedBack(senders, selected)
           Fed(i) == /\ TrackerOK(after[i])
                     /\ \A a : a \notin {senders[j] : j \in selected} =>
                          Registered(after[i], a).score <= Registered(tracker, a).score
           good == {i \in 0 .. n : Fed(i)}
<1>1. Len(senders) = n
  OBVIOUS
<1>2. /\ after[0] = tracker
      /\ \A i \in 1 .. n :
           after[i] = applySelectionFeedback(after[i - 1], senders[i], i \in selected)
  BY <1>1, FeedbackOfARound
<1> HIDE DEF after
<1>3. \A a : Registered(tracker, a).score \in Int
  BY ScoreIsNumber
<1>4. 0 \in good
  BY <1>2, <1>3
<1>5. ASSUME NEW i \in 1 .. n, i - 1 \in good
      PROVE  i \in good
  <2> DEFINE old == after[i - 1]
             new == after[i]
             b == senders[i]
             accepted == i \in selected
  <2>1. /\ TrackerOK(old)
        /\ \A a : a \notin {senders[j] : j \in selected} =>
             Registered(old, a).score <= Registered(tracker, a).score
    BY <1>5
  <2>2. b \in TrackedAgents /\ accepted \in BOOLEAN /\ new = applySelectionFeedback(old, b, accepted)
    BY <1>2
  <2>3. accepted => b \in {senders[j] : j \in selected}
    OBVIOUS
  <2> HIDE DEF old, new, b, accepted
  <2>4. /\ TrackerOK(new)
        /\ \A a : a # b => Registered(new, a) = Registered(old, a)
        /\ ~accepted => Registered(new, b).score <= Registered(old, b).score
    BY <2>1, <2>2, FeedbackApplied
  <2>5. ASSUME NEW a, a \notin {senders[j] : j \in selected}
        PROVE  Registered(new, a).score <= Registered(tracker, a).score
    <3>0. Registered(new, a).score \in Int /\ Registered(old, a).score \in Int
      BY <2>1, <2>4, ScoreIsNumber
    <3>1. Registered(new, a).score <= Registered(old, a).score
      <4>1. CASE a = b
        BY <2>3, <2>4, <2>5, <4>1
      <4>2. CASE a # b
        BY <3>0, <2>4, <4>2
      <4> QED
        BY <4>1, <4>2
    <3>2. Registered(old, a).score <= Registered(tracker, a).score
      BY <2>1, <2>5
    <3> QED
      BY <1>3, <3>0, <3>1, <3>2
  <2> QED
    BY <2>4, <2>5 DEF new
<1> HIDE DEF good
<1>6. n \in good
  BY <1>4, <1>5, UpTo
<1> QED
  BY <1>1, <1>6 DEF good, after

-----------------------------------------------------------------------------
(* Reputation: the steps.                                                   *)

LEMMA ReputationInvInit == ReputationInit => ReputationInv
BY DEF ReputationInit, ReputationInv, TrackerOK

\* A call that lowers everybody it does not favour.
Lowers ==
  \A a \in TrackedAgents : a \notin favoured' =>
    Registered(tracker', a).score <= Registered(tracker, a).score

\* RiseIsEarned of one step.
RisesEarned ==
  \A a \in TrackedAgents :
    LET before == Registered(tracker, a)
        after == Registered(tracker, a)'
    IN getReputation(a)' > getReputation(a) =>
         \/ a \in favoured'
         \/ after.score = 0
         \/ /\ after.correctReports > before.correctReports
            /\ before.totalReports < 4 \/ before.score >= 15

\* A rise that is read is a rise of the score, or the fall to 0.
LEMMA RiseIsOfTheScore ==
  ASSUME ReputationInv, ReputationInv', NEW a, getReputation(a)' > getReputation(a),
         Registered(tracker', a).score # 0
  PROVE  Registered(tracker', a).score > Registered(tracker, a).score
<1>1. Registered(tracker, a).score \in 0 .. 100 /\ Registered(tracker', a).score \in 0 .. 100
  BY ScoreIsNumber DEF ReputationInv
<1> QED
  BY <1>1 DEF getReputation

LEMMA RoundAggregated ==
  ASSUME ReputationInv, NEW n \in RoundSizes, NEW senders \in [1 .. n -> TrackedAgents],
         NEW selected \in SUBSET (1 .. n), aggregateUpdates(senders, selected)
  PROVE  ReputationInv' /\ RisesEarned
<1>1. n \in Nat
  BY ReputationConstantsAssumption
<1>2. /\ TrackerOK(tracker')
      /\ \A a : a \notin favoured' => Registered(tracker', a).score <= Registered(tracker, a).score
  BY <1>1, RoundApplied DEF ReputationInv, aggregateUpdates
<1>3. favoured' \subseteq TrackedAgents /\ owner' \in {"server", "engine"}
  BY DEF aggregateUpdates, ReputationInv
<1>4. ReputationInv'
  BY <1>2, <1>3 DEF ReputationInv
<1>5. \A a : Registered(tracker, a).score \in Int /\ Registered(tracker', a).score \in Int
  BY <1>4, ScoreIsNumber DEF ReputationInv
<1> QED
  BY <1>2, <1>4, <1>5, RiseIsOfTheScore DEF RisesEarned

LEMMA MarketDecided ==
  ASSUME ReputationInv, NEW n \in TrackedAgents, NEW reports \in [1 .. n -> Reports],
         processMarketOutcome(reports)
  PROVE  ReputationInv' /\ RisesEarned
<1>1. n \in 1 .. NumAgents /\ 1 .. n \subseteq TrackedAgents /\ DOMAIN reports = 1 .. n
  BY ReputationConstantsAssumption DEF TrackedAgents
<1>2. \A a : GoodRecord(Registered(tracker, a))
  BY RegisteredIsGood DEF ReputationInv
<1>3. ASSUME NEW a \in 1 .. n
      PROVE  LET before == Registered(tracker, a)
                 after == recordReport(before, reports[a])
             IN  /\ GoodRecord(after)
                 /\ after.score > before.score =>
                      /\ after.correctReports > before.correctReports
                      /\ before.totalReports < 4 \/ before.score >= 15
  <2> DEFINE before == Registered(tracker, a)
             after == recordReport(before, reports[a])
  <2>1. GoodRecord(before) /\ before.totalReports < MaxReports /\ reports[a] \in Reports
    BY <1>1, <1>2 DEF processMarketOutcome
  <2> HIDE DEF before
  <2>2. /\ after \in AgentRecord
        /\ after.totalReports = before.totalReports + 1
        /\ after.correctReports <= after.totalReports
        /\ after.score > before.score =>
             /\ after.correctReports > before.correctReports
             /\ before.totalReports < 4 \/ before.score >= 15
    BY <2>1, Reported DEF GoodRecord
  <2> HIDE DEF after
  <2>3. after.totalReports <= MaxReports
    BY <2>1, <2>2, ReputationConstantsAssumption DEF GoodRecord, AgentRecord
  <2> QED
    BY <2>2, <2>3 DEF GoodRecord, before, after
<1>4. tracker' = [a \in DOMAIN tracker \cup 1 .. n |->
                    IF a \in 1 .. n THEN recordReport(Registered(tracker, a), reports[a])
                                    ELSE tracker[a]]
  BY <1>1 DEF processMarketOutcome
<1>5. /\ DOMAIN tracker' = DOMAIN tracker \cup 1 .. n
      /\ \A a \in 1 .. n : tracker'[a] = recordReport(Registered(tracker, a), reports[a])
      /\ \A a \in DOMAIN tracker \ (1 .. n) : tracker'[a] = tracker[a]
  BY <1>4
<1>6. TrackerOK(tracker')
  BY <1>1, <1>3, <1>5 DEF TrackerOK, ReputationInv
<1>7. ReputationInv'
  BY <1>6 DEF ReputationInv, processMarketOutcome
<1>8. \A a \in 1 .. n : Registered(tracker', a) = recordReport(Registered(tracker, a), reports[a])
  BY <1>5 DEF Registered
<1>9. \A a : a \notin 1 .. n => Registered(tracker', a) = Registered(tracker, a)
  BY <1>5 DEF Registered
<1>10. \A a : Registered(tracker, a).score \in Int /\ Registered(tracker', a).score \in Int
  BY <1>7, ScoreIsNumber DEF ReputationInv
<1>11. ASSUME NEW a \in TrackedAgents, getReputation(a)' > getReputation(a),
              Registered(tracker', a).score # 0
       PROVE  /\ Registered(tracker', a).correctReports > Registered(tracker, a).correctReports
              /\ Registered(tracker, a).totalReports < 4 \/ Registered(tracker, a).score >= 15
  <2>1. Registered(tracker', a).score > Registered(tracker, a).score
    BY <1>7, <1>11, RiseIsOfTheScore
  <2>2. a \in 1 .. n
    BY <1>9, <1>10, <2>1
  <2> QED
    BY <1>3, <1>8, <2>1, <2>2
<1> QED
  BY <1>7, <1>11 DEF RisesEarned

LEMMA AgentRegistered ==
  ASSUME ReputationInv, NEW a \in TrackedAgents, registerAgentWithStake(a)
  PROVE  ReputationInv' /\ RisesEarned
<1>1. /\ TrackerOK(tracker') /\ favoured' = {a}
      /\ \A b : b # a => Registered(tracker', b) = Registered(tracker, b)
  BY NewAgentIsGood, AgentSet DEF ReputationInv, registerAgentWithStake
<1>2. ReputationInv'
  BY <1>1 DEF ReputationInv, registerAgentWithStake
<1>3. \A b : Registered(tracker, b).score \in Int
  BY ScoreIsNumber DEF ReputationInv
<1> QED
  BY <1>1, <1>2, <1>3, RiseIsOfTheScore DEF RisesEarned

LEMMA ReputationInvStep ==
  ReputationInv /\ [ReputationNext]_reputationVars =>
    ReputationInv' /\ (UNCHANGED reputationVars \/ RisesEarned)
<1> SUFFICES ASSUME ReputationInv, [ReputationNext]_reputationVars
             PROVE  ReputationInv' /\ (UNCHANGED reputationVars \/ RisesEarned)
  OBVIOUS
<1>1. CASE UNCHANGED reputationVars
  BY <1>1 DEF reputationVars, ReputationInv, TrackerOK
<1> QED
  BY <1>1, RoundAggregated, MarketDecided, AgentRegistered DEF ReputationNext

LEMMA ReputationTyped == ReputationInv => ReputationTypeOK
<1> SUFFICES ASSUME ReputationInv
             PROVE  ReputationTypeOK
  OBVIOUS
<1>1. \A a \in DOMAIN tracker :
        /\ tracker[a].score \in 0 .. 100
        /\ tracker[a].totalReports \in 0 .. MaxReports
        /\ tracker[a].correctReports \in 0 .. tracker[a].totalReports
  BY ReputationConstantsAssumption DEF ReputationInv, TrackerOK, GoodRecord, AgentRecord
<1> QED
  BY <1>1 DEF ReputationInv, TrackerOK, ReputationTypeOK

\* The tracker keeps its types (ReputationTypeOK), and a rise of what is read of
\* an agent is a round's selection, a registration, the fall to 0 or a correct
\* report of an agent that is not trapped (RiseIsEarned of Reputation): for any
\* number of agents, updates and reports, and any selection.
THEOREM RisesAreEarned == ReputationSpec => []ReputationTypeOK /\ RiseIsEarned
<1>1. ReputationInv => ReputationTypeOK
  BY ReputationTyped
<1>2. ReputationInv /\ [ReputationNext]_reputationVars => [RisesEarned]_reputationVars
  BY ReputationInvStep
<1>3. ReputationSpec => [][RisesEarned]_reputationVars
  BY <1>2, ReputationInvInit, ReputationInvStep, PTL DEF ReputationSpec
<1> QED
  BY <1>1, <1>3, ReputationInvInit, ReputationInvStep, PTL DEF ReputationSpec, RiseIsEarned, RisesEarned

-----------------------------------------------------------------------------
(* All services: what each has by itself, it has among the others.          *)

ServicesInv ==
  /\ CallsInv /\ TaskInv /\ DiscoveryInv /\ IntentInv
  /\ BreakerInv /\ CacheInv /\ BootInv /\ ReputationInv /\ RegistryInv

\* A step is one of the service that is explored, and none of the others.
LEMMA EachServiceSteps ==
  ASSUME [ServicesNext]_services
  PROVE  /\ [Next]_vars /\ [TaskNext]_taskVars /\ [DiscoveryNext]_discoveryVars
         /\ [IntentNext]_intentVars /\ [RiskNext]_riskVars /\ [CacheNext]_cacheVars
         /\ [BootNext]_bootVars /\ [ReputationNext]_reputationVars
         /\ [RegistryNext]_registryVars
BY DEF ServicesNext, services

\* The services keep the types of all their fields (ServicesTypeOK of MCServices)
\* and all that is said of them in any state, whichever is explored: a step is
\* one of a service, and each has an invariant of its own.
THEOREM ServicesCorrect ==
  ServicesSpec => [](/\ ServicesTypeOK
                     /\ ClosedBelowThreshold /\ SlotsAreTrials /\ SlotsAreWork
                     /\ SessionIsLatest /\ IntentsLimited /\ AlarmPassedOver
                     /\ CacheAccounted /\ KeysBoundToMeasurement
                     /\ OvertakenRemovalHitsYounger)
<1>1. ServicesInit => ServicesInv
  BY CallsInvInit, TaskInvInit, DiscoveryInvInit, IntentInvInit, BreakerInvInit, CacheInvInit,
     BootInvInit, ReputationInvInit, RegistryInvInit DEF ServicesInit, ServicesInv
<1>2. ServicesInv /\ [ServicesNext]_services => ServicesInv'
  BY EachServiceSteps, CallsInvStep, TaskInvStep, DiscoveryInvStep, IntentInvStep, BreakerInvStep,
     CacheInvStep, BootInvStep, ReputationInvStep, RegistryInvStep DEF ServicesInv
<1>3. ServicesInv => ServicesTypeOK
  <2>1. CallsInv => TypeOK
    BY DEF CallsInv
  <2>2. TaskInv => TaskTypeOK
    BY DEF TaskInv
  <2>3. DiscoveryInv => DiscoveryTypeOK
    BY DEF DiscoveryInv
  <2>4. IntentInv => IntentTypeOK
    BY DEF IntentInv
  <2>5. BreakerInv => RiskTypeOK
    BY DEF BreakerInv
  <2>6. CacheInv => CacheTypeOK
    BY DEF CacheInv
  <2>7. BootInv => BootTypeOK
    BY DEF BootInv
  <2>8. RegistryInv => RegistryTypeOK
    BY DEF RegistryInv
  <2> QED
    BY <2>1, <2>2, <2>3, <2>4, <2>5, <2>6, <2>7, <2>8, ReputationTyped
       DEF ServicesInv, ServicesTypeOK
<1>4. ServicesInv => /\ ClosedBelowThreshold /\ SlotsAreTrials /\ SlotsAreWork
                     /\ SessionIsLatest /\ IntentsLimited /\ AlarmPassedOver
                     /\ CacheAccounted /\ KeysBoundToMeasurement
                     /\ OvertakenRemovalHitsYounger
  <2>1. CallsInv => ClosedBelowThreshold /\ SlotsAreTrials
    BY DEF CallsInv
  <2>2. TaskInv => SlotsAreWork
    BY DEF TaskInv
  <2>3. IntentInv => IntentsLimited
    BY DEF IntentInv
  <2>4. BreakerInv => AlarmPassedOver
    BY DEF BreakerInv
  <2>5. CacheInv => CacheAccounted
    BY DEF CacheInv
  <2>6. RegistryInv => OvertakenRemovalHitsYounger
    BY DEF RegistryInv
  <2> QED
    BY <2>1, <2>2, <2>3, <2>4, <2>5, <2>6, BootInvImplies, DiscoveryInvImplies DEF ServicesInv
<1> QED
  BY <1>1, <1>2, <1>3, <1>4, PTL DEF ServicesSpec

=============================================================================
