----------------------------- MODULE Discovery -----------------------------
(***************************************************************************)
(* agents/orchestrator/discovery/manager.js: the peers that were           *)
(* discovered, and one session per peer. Establishing a session waits for  *)
(* the provider of keys (HybridProvider, here any that answers or not), or *)
(* derives the key locally; calls for one peer may overlap.                *)
(***************************************************************************)
EXTENDS Integers

CONSTANTS
  Peers,
  Attempts,          \* calls of establishSession
  NoSession,
  InactivityTimeout, \* timeoutMs of cleanupInactivePeers
  LastTime           \* bound: reading of the clock

ASSUME DiscoveryConstantsAssumption ==
  /\ NoSession \notin Attempts
  /\ InactivityTimeout \in Nat /\ LastTime \in Nat

VARIABLES
  useGo,             \* useGoHybridProvider
  peers,             \* per peer: unknown, discovered or active
  lastHeartbeat,
  sessions,          \* per peer, the attempt whose session object the map holds
  negotiation,       \* per attempt: new, checking (the provider's health),
                     \* deriving, encrypted or failed
  peerOf,            \* the peer of an attempt that has begun
  now,
  latest,            \* history: per peer, the attempt begun last
  bereft             \* history: attempts whose session was in the map when
                     \* another attempt for the peer failed

peerVars == <<peers, lastHeartbeat>>
sessionVars == <<sessions, negotiation, peerOf, latest, bereft>>
discoveryVars == <<useGo, peerVars, sessionVars, now>>

DiscoveryInit ==
  /\ useGo \in BOOLEAN
  /\ peers = [p \in Peers |-> "unknown"]
  /\ lastHeartbeat = [p \in Peers |-> 0]
  /\ sessions = [p \in Peers |-> NoSession]
  /\ negotiation = [s \in Attempts |-> "new"]
  /\ peerOf \in [Attempts -> Peers]
  /\ now = 0
  /\ latest = [p \in Peers |-> NoSession]
  /\ bereft = {}

-----------------------------------------------------------------------------
discoverPeer(p) ==
  /\ peers' = [peers EXCEPT ![p] = "discovered"]
  /\ lastHeartbeat' = [lastHeartbeat EXCEPT ![p] = now]
  /\ UNCHANGED <<useGo, sessionVars, now>>

\* The time is the one the peer's message says.
processHeartbeat(p, timestamp) ==
  /\ peers[p] # "unknown"
  /\ peers' = [peers EXCEPT ![p] = "active"]
  /\ lastHeartbeat' = [lastHeartbeat EXCEPT ![p] = timestamp]
  /\ UNCHANGED <<useGo, sessionVars, now>>

\* Sessions with the peers removed stay.
cleanupInactivePeers ==
  LET inactive(p) == now - lastHeartbeat[p] > InactivityTimeout
  IN
  /\ peers' = [p \in Peers |-> IF inactive(p) THEN "unknown" ELSE peers[p]]
  /\ lastHeartbeat' = [p \in Peers |-> IF peers'[p] = "unknown" THEN 0 ELSE lastHeartbeat[p]]
  /\ UNCHANGED <<useGo, sessionVars, now>>

\* Mutant: the map gets the session when its key is there.
SetWhenEncrypted(s) == sessions
SetWhenBegun(s) == [sessions EXCEPT ![peerOf[s]] = s]

\* establishSession up to its await; whether the peer is known is not looked at.
establishSession(s) ==
  /\ negotiation[s] = "new"
  /\ negotiation' = [negotiation EXCEPT ![s] = IF useGo THEN "checking" ELSE "deriving"]
  /\ sessions' = SetWhenBegun(s)
  /\ latest' = [latest EXCEPT ![peerOf[s]] = s]
  /\ UNCHANGED <<useGo, peerVars, peerOf, now, bereft>>

\* healthCheckProviderLifecycle answers that the provider is well.
ProviderHealthy(s) ==
  /\ negotiation[s] = "checking"
  /\ negotiation' = [negotiation EXCEPT ![s] = "deriving"]
  /\ UNCHANGED <<useGo, peerVars, sessions, peerOf, latest, bereft, now>>

\* The key is derived, and confirmed by the digest of the peer's key.
KeyConfirmed(s) ==
  /\ negotiation[s] = "deriving"
  /\ negotiation' = [negotiation EXCEPT ![s] = "encrypted"]
  /\ UNCHANGED <<useGo, peerVars, sessions, peerOf, latest, bereft, now>>

\* Arguments are missing, the provider is not well, it fails, or the digest is
\* that of another key: whatever session the map holds for the peer is removed.
EstablishmentFails(s) ==
  LET p == peerOf[s]
  IN
  /\ negotiation[s] \in {"checking", "deriving"}
  /\ negotiation' = [negotiation EXCEPT ![s] = "failed"]
  /\ sessions' = [sessions EXCEPT ![p] = NoSession]
  /\ bereft' = bereft \union ({sessions[p]} \ {s, NoSession})
  /\ UNCHANGED <<useGo, peerVars, peerOf, latest, now>>

DiscoveryTick ==
  /\ now < LastTime
  /\ now' = now + 1
  /\ UNCHANGED <<useGo, peerVars, sessionVars>>

DiscoveryNext ==
  \/ \E p \in Peers : discoverPeer(p) \/ \E t \in 0 .. LastTime : processHeartbeat(p, t)
  \/ cleanupInactivePeers
  \/ \E s \in Attempts :
       establishSession(s) \/ ProviderHealthy(s) \/ KeyConfirmed(s) \/ EstablishmentFails(s)
  \/ DiscoveryTick

DiscoverySpec == DiscoveryInit /\ [][DiscoveryNext]_discoveryVars

-----------------------------------------------------------------------------
DiscoveryTypeOK ==
  /\ useGo \in BOOLEAN
  /\ peers \in [Peers -> {"unknown", "discovered", "active"}]
  /\ lastHeartbeat \in [Peers -> 0 .. LastTime]
  /\ sessions \in [Peers -> Attempts \union {NoSession}]
  /\ negotiation \in [Attempts -> {"new", "checking", "deriving", "encrypted", "failed"}]
  /\ peerOf \in [Attempts -> Peers]
  /\ now \in 0 .. LastTime
  /\ latest \in [Peers -> Attempts \union {NoSession}]
  /\ bereft \subseteq Attempts

\* However attempts for a peer overlap and in whatever order they end, the map
\* holds the session of the one begun last, never that of an older or a failed
\* one. It holds none only if that one failed, or if an older one failed after
\* it had begun, which removes the younger one's session with a good key.
SessionIsLatest ==
  \A p \in Peers :
    LET s == latest[p]
    IN
    \/ s = NoSession /\ sessions[p] = NoSession
    \/ s \in Attempts /\ sessions[p] = s /\ negotiation[s] # "failed"
    \/ s \in Attempts /\ sessions[p] = NoSession
                      /\ (negotiation[s] = "failed" \/ s \in bereft)

=============================================================================
