---------------------------- MODULE RiskControls ----------------------------
(***************************************************************************)
(* risk-management/controls/circuit-breakers.js: the main breaker, which   *)
(* RiskControls.checkMarket asks about every market. It opens on a price   *)
(* movement or an anomaly, answers COOLDOWN for a while, and is then no    *)
(* longer cooling down but, until a reset, still open: open, it sees no    *)
(* alarm at all. (The volume check never finds a spike: calculateStdDev is *)
(* called without the mean and returns 0. The breakers of single markets   *)
(* are never asked.)                                                       *)
(***************************************************************************)
EXTENDS Integers

CONSTANTS
  CooldownPeriod,
  MaxTriggers,       \* bound: openings
  LastMoment         \* bound: reading of the clock

ASSUME RiskConstantsAssumption == {CooldownPeriod, MaxTriggers, LastMoment} \subseteq Nat

VARIABLES
  breakerActive, lastTriggerTime, triggerCount, isCooldown,       \* state
  moment,
  answer,            \* of the last checkMarket: none, null, COOLDOWN or triggered
  alarming,          \* history: the market it was asked about was over a threshold
  askedAt,           \* history: when it was asked
  openings           \* history: times the breaker opened

riskVars == <<breakerActive, lastTriggerTime, triggerCount, isCooldown, moment,
              answer, alarming, askedAt, openings>>

RiskInit ==
  /\ breakerActive = TRUE
  /\ lastTriggerTime = 0
  /\ triggerCount = 0
  /\ isCooldown = FALSE
  /\ moment = 0
  /\ answer = "none"
  /\ alarming = FALSE
  /\ askedAt = 0
  /\ openings = 0

-----------------------------------------------------------------------------
\* Mutant: the cooldown is not waited for.
NoCooldown == FALSE
isInCooldown == isCooldown /\ moment - lastTriggerTime < CooldownPeriod

\* price and anomaly: the market is over the threshold of checkPriceMovement, of
\* checkAnomaly. triggerCircuitOpen starts the cooldown.
checkMarket(price, anomaly) ==
  LET opens == ~isInCooldown /\ breakerActive /\ (price \/ anomaly)
  IN
  /\ opens => openings < MaxTriggers
  /\ answer' = CASE isInCooldown -> "COOLDOWN" [] opens -> "triggered" [] OTHER -> "null"
  /\ breakerActive' = (breakerActive /\ ~opens)
  /\ lastTriggerTime' = IF opens THEN moment ELSE lastTriggerTime
  /\ triggerCount' = IF opens THEN triggerCount + 1 ELSE triggerCount
  /\ isCooldown' = (isInCooldown \/ opens)
  /\ alarming' = (price \/ anomaly)
  /\ askedAt' = moment
  /\ openings' = IF opens THEN openings + 1 ELSE openings
  /\ UNCHANGED moment

reset ==
  /\ breakerActive' = TRUE
  /\ lastTriggerTime' = 0
  /\ triggerCount' = 0
  /\ isCooldown' = FALSE
  /\ answer' = "none"
  /\ UNCHANGED <<moment, alarming, askedAt, openings>>

RiskTick ==
  /\ moment < LastMoment
  /\ moment' = moment + 1
  /\ UNCHANGED <<breakerActive, lastTriggerTime, triggerCount, isCooldown, answer,
                 alarming, askedAt, openings>>

RiskNext ==
  \/ \E price, anomaly \in BOOLEAN : checkMarket(price, anomaly)
  \/ reset
  \/ RiskTick

RiskSpec == RiskInit /\ [][RiskNext]_riskVars

-----------------------------------------------------------------------------
RiskTypeOK ==
  /\ breakerActive \in BOOLEAN /\ isCooldown \in BOOLEAN /\ alarming \in BOOLEAN
  /\ lastTriggerTime \in 0 .. LastMoment /\ askedAt \in 0 .. LastMoment
  /\ triggerCount \in Nat /\ openings \in 0 .. MaxTriggers
  /\ moment \in 0 .. LastMoment
  /\ answer \in {"none", "null", "COOLDOWN", "triggered"}

\* An alarming market is passed over (answered null) only after an opening whose
\* cooldown is over, and then always until a reset: the breaker opens once. And
\* COOLDOWN is answered within the cooldown of an opening, not later.
AlarmPassedOver ==
  /\ triggerCount = IF breakerActive THEN 0 ELSE 1
  /\ answer = "null" /\ alarming =>
       ~breakerActive /\ askedAt - lastTriggerTime >= CooldownPeriod
  /\ answer = "COOLDOWN" =>
       ~breakerActive /\ askedAt - lastTriggerTime < CooldownPeriod

=============================================================================
