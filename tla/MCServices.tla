---------------------------- MODULE MCServices ----------------------------
(***************************************************************************)
(* The instance of the small services that TLC explores, one at a time:    *)
(* the services run in processes of their own, or in one process but with  *)
(* no state in common, and none calls another, so that their interleavings *)
(* would show nothing. A behaviour is one of the service that it starts    *)
(* with, whose specification and properties are those of its module.       *)
(***************************************************************************)
EXTENDS CircuitBreaker, TaskManager, Discovery, IntentQueue, RiskControls, TtlCache, Boot,
        Reputation, Registry

CONSTANTS
  c1, c2, c3, c4, c5, worker1, worker2, p1, p2, s1, s2, s3, i1, i2, i3, i4,
  u1, u2, k1, k2, k3, d1, d2, a1, a2

VARIABLE service

services == <<service, vars, taskVars, discoveryVars, intentVars, riskVars, cacheVars, bootVars,
              reputationVars, registryVars>>

\* What a service may be started with is open only if it is the one explored.
ServicesInit ==
  /\ service \in {"breaker", "tasks", "discovery", "intents", "risk", "cache", "boot",
                 "reputation", "registry"}
  /\ Init /\ TaskInit /\ DiscoveryInit /\ IntentInit /\ RiskInit /\ CacheInit /\ BootInit
  /\ ReputationInit /\ RegistryInit
  /\ service # "discovery" => useGo = FALSE /\ peerOf = [s \in Attempts |-> p1]
  /\ service # "intents" => userOf = [i \in Intents |-> u1]
  /\ service # "boot" => attestationDigest = NoDigest
  /\ service # "reputation" => owner = "server"

ServicesNext ==
  /\ UNCHANGED service
  /\ \/ /\ service = "breaker" /\ Next
        /\ UNCHANGED <<taskVars, discoveryVars, intentVars, riskVars, cacheVars,
                       bootVars, reputationVars, registryVars>>
     \/ /\ service = "tasks" /\ TaskNext
        /\ UNCHANGED <<vars, discoveryVars, intentVars, riskVars, cacheVars,
                       bootVars, reputationVars, registryVars>>
     \/ /\ service = "discovery" /\ DiscoveryNext
        /\ UNCHANGED <<vars, taskVars, intentVars, riskVars, cacheVars,
                       bootVars, reputationVars, registryVars>>
     \/ /\ service = "intents" /\ IntentNext
        /\ UNCHANGED <<vars, taskVars, discoveryVars, riskVars, cacheVars,
                       bootVars, reputationVars, registryVars>>
     \/ /\ service = "risk" /\ RiskNext
        /\ UNCHANGED <<vars, taskVars, discoveryVars, intentVars, cacheVars,
                       bootVars, reputationVars, registryVars>>
     \/ /\ service = "cache" /\ CacheNext
        /\ UNCHANGED <<vars, taskVars, discoveryVars, intentVars, riskVars,
                       bootVars, reputationVars, registryVars>>
     \/ /\ service = "boot" /\ BootNext
        /\ UNCHANGED <<vars, taskVars, discoveryVars, intentVars, riskVars,
                       cacheVars, reputationVars, registryVars>>
     \/ /\ service = "reputation" /\ ReputationNext
        /\ UNCHANGED <<vars, taskVars, discoveryVars, intentVars, riskVars,
                       cacheVars, bootVars, registryVars>>
     \/ /\ service = "registry" /\ RegistryNext
        /\ UNCHANGED <<vars, taskVars, discoveryVars, intentVars, riskVars,
                       cacheVars, bootVars, reputationVars>>

ServicesSpec == ServicesInit /\ [][ServicesNext]_services /\ Fairness

-----------------------------------------------------------------------------
\* Every service keeps the types of its fields, the one explored in whatever
\* order its calls come: no counter of the breaker exceeds its limit.
ServicesTypeOK ==
  /\ TypeOK /\ TaskTypeOK /\ DiscoveryTypeOK /\ IntentTypeOK
  /\ RiskTypeOK /\ CacheTypeOK /\ BootTypeOK
  /\ ReputationTypeOK /\ RegistryTypeOK

=============================================================================
