----------------------------- MODULE Reputation -----------------------------
(***************************************************************************)
(* agents/aggregator/reputation-tracker.js under its two owners: the       *)
(* server, whose rounds select some of the updates and feed back into the  *)
(* reputations of those who sent them (strategy multikrum_reputation), and *)
(* the incentives engine, which records reports when a market is decided.  *)
(* Each owner has a tracker of its own. What no decision reads is left out:*)
(* slash counts, the history of edges, amounts of stakes and rewards.      *)
(***************************************************************************)
EXTENDS Integers, Sequences, FiniteSets, FiniteSetsExt

CONSTANTS
  NumAgents,
  RoundSizes,        \* lengths the buffer of updates may have when it is aggregated
  Confidences,       \* confidences of reports, in steps of 20 of 100
  MaxReports         \* bound: markets an agent reports on

TrackedAgents == 1 .. NumAgents

ASSUME ReputationConstantsAssumption ==
  /\ {NumAgents, MaxReports} \subseteq Nat
  /\ RoundSizes \subseteq Nat \ {0, 1}
  /\ Confidences \subseteq 0 .. 5

VARIABLES
  owner,             \* server or engine
  tracker,           \* agentScores and agentStats of the agents that are registered
  favoured           \* history: agents selected, or registered, by the last call

reputationVars == <<owner, tracker, favoured>>

ReputationInit ==
  /\ owner \in {"server", "engine"}
  /\ tracker = <<>>
  /\ favoured = {}

-----------------------------------------------------------------------------
registerAgent == [score |-> 50, totalReports |-> 0, correctReports |-> 0]
Registered(t, a) == IF a \in DOMAIN t THEN t[a] ELSE registerAgent
With(t, a, agent) == [b \in DOMAIN t \union {a} |-> IF b = a THEN agent ELSE t[b]]

adjustReputation(agent, delta) ==
  [agent EXCEPT !.score = Max({0, Min({100, @ + delta})})]

\* A reputation of 0 reads as that of a stranger.
getReputation(a) ==
  LET score == Registered(tracker, a).score IN IF score = 0 THEN 50 ELSE score

\* Mutant: a low reputation alone is not Byzantine.
OnlyInaccurate(agent) ==
  agent.totalReports >= 5 /\ 100 * agent.correctReports < 40 * agent.totalReports
isByzantineAgent(agent) ==
  /\ agent.totalReports >= 5
  /\ 100 * agent.correctReports < 40 * agent.totalReports \/ agent.score < 20

recordReport(agent, report) ==
  LET counted == [agent EXCEPT !.totalReports = @ + 1,
                               !.correctReports = IF report.wasCorrect THEN @ + 1 ELSE @]
      delta == IF report.wasCorrect THEN Min({5, report.confidence})
                                    ELSE -(2 + report.confidence)
      updated == adjustReputation(counted, delta)
  IN IF isByzantineAgent(updated) THEN adjustReputation(updated, -15) ELSE updated

-----------------------------------------------------------------------------
\* How many of n updates reputationWeightedMultiKrum selects; which ones, the
\* distances between the updates and the weights of their senders decide.
Picked(n) ==
  LET f == Min({1, Max({0, (n - 2) \div 3})}) IN Max({1, n - f - 2})

applySelectionFeedback(t, a, accepted) ==
  With(t, a, adjustReputation(Registered(t, a), IF accepted THEN 2 ELSE -1))

\* The tracker after each of these updates in turn.
FedBack(pubkeys, selected) ==
  LET after[i \in 0 .. Len(pubkeys)] ==
        IF i = 0 THEN tracker
                 ELSE applySelectionFeedback(after[i - 1], pubkeys[i], i \in selected)
  IN after

\* aggregateUpdates of a full buffer, for updates of these agents (an agent may
\* have sent several).
aggregateUpdates(pubkeys, selected) ==
  /\ owner = "server"
  /\ tracker' = FedBack(pubkeys, selected)[Len(pubkeys)]
  /\ favoured' = {pubkeys[i] : i \in selected}
  /\ UNCHANGED owner

\* processMarketOutcome: the forecasts of the first agents, one of each.
processMarketOutcome(reports) ==
  /\ owner = "engine"
  /\ \A a \in DOMAIN reports : Registered(tracker, a).totalReports < MaxReports
  /\ tracker' = [a \in DOMAIN tracker \union DOMAIN reports |->
                   IF a \in DOMAIN reports THEN recordReport(Registered(tracker, a), reports[a])
                                           ELSE tracker[a]]
  /\ favoured' = {}
  /\ UNCHANGED owner

\* An agent that is registered already starts over.
registerAgentWithStake(a) ==
  /\ owner = "engine"
  /\ tracker' = With(tracker, a, registerAgent)
  /\ favoured' = {a}
  /\ UNCHANGED owner

Reports == [wasCorrect : BOOLEAN, confidence : Confidences]

ReputationNext ==
  \/ \E n \in RoundSizes : \E pubkeys \in [1 .. n -> TrackedAgents] :
       \E selected \in SUBSET (1 .. n) :
         Cardinality(selected) = Picked(n) /\ aggregateUpdates(pubkeys, selected)
  \/ \E n \in TrackedAgents : \E reports \in [1 .. n -> Reports] : processMarketOutcome(reports)
  \/ \E a \in TrackedAgents : registerAgentWithStake(a)

ReputationSpec == ReputationInit /\ [][ReputationNext]_reputationVars

-----------------------------------------------------------------------------
ReputationTypeOK ==
  /\ owner \in {"server", "engine"}
  /\ DOMAIN tracker \subseteq TrackedAgents
  /\ \A a \in DOMAIN tracker :
       /\ tracker[a].score \in 0 .. 100
       /\ tracker[a].totalReports \in 0 .. MaxReports
       /\ tracker[a].correctReports \in 0 .. tracker[a].totalReports
  /\ favoured \subseteq TrackedAgents

\* What a reader of the tracker sees of an agent rises only if the last round
\* selected the agent, if it is registered (anew), if it has sunk to 0, which
\* reads as 50, or by a correct report. But four reports are enough to be
\* trapped: with a score below 15 then, the bonus of a correct report (5 at
\* most) leaves the agent Byzantine, and the slash (15) takes more than it gave.
RiseIsEarned ==
  [][\A a \in TrackedAgents :
       LET before == Registered(tracker, a)
           after == Registered(tracker, a)'
       IN getReputation(a)' > getReputation(a) =>
            \/ a \in favoured'
            \/ after.score = 0
            \/ /\ after.correctReports > before.correctReports
               /\ before.totalReports < 4 \/ before.score >= 15]_reputationVars

=============================================================================
