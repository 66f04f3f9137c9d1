-------------------------------- MODULE Boot --------------------------------
(***************************************************************************)
(* agents/orchestrator/core/orchestrator.js: Orchestrator.initialize takes *)
(* a node from UNINITIALIZED over ATTESTED and KEY_ESTABLISHED to          *)
(* OPERATIONAL, step by step, and exits the process at the first that      *)
(* fails. What the host, the network and the key provider answer is chosen *)
(* at each step; digests and certificates are what the checks can tell     *)
(* about them.                                                             *)
(***************************************************************************)
EXTENDS Integers, Sequences

CONSTANTS
  Digests,           \* of measurements
  NoDigest

ASSUME BootConstantsAssumption == NoDigest \notin Digests

VARIABLES
  bootStep,          \* where initialize is
  bootState,         \* state
  exitCode,          \* of the process; 0 while it runs
  attestationData,   \* the digest measured, recorded after the chain was checked
  attestationDigest, \* config.attestationDigestB64, or its environment variable
  sessionKeys,       \* the digest that the proof of the keys is made over
  tpmMeasurement     \* the digest measured, a local of transitionToS1; a history after it

bootVars == <<bootStep, bootState, exitCode, attestationData, attestationDigest,
              sessionKeys, tpmMeasurement>>

Certs == [current : BOOLEAN, revoked : BOOLEAN, signedByNext : BOOLEAN]

BootInit ==
  /\ bootStep = "measure"
  /\ bootState = "UNINITIALIZED"
  /\ exitCode = 0
  /\ attestationData = NoDigest
  /\ attestationDigest \in Digests \union {NoDigest}
  /\ sessionKeys = NoDigest
  /\ tpmMeasurement = NoDigest

-----------------------------------------------------------------------------
Exit(code) ==
  /\ bootStep' = "exited"
  /\ exitCode' = code
  /\ UNCHANGED <<bootState, attestationData, attestationDigest, sessionKeys,
                 tpmMeasurement>>

\* readTPM. A fixture is taken before the TPM, a mock only when the TPM cannot
\* be read; without a TEE runtime, mocks must be allowed.
readTPM(teeRuntime, allowMock, fixture, tpm, digest) ==
  LET source == CASE ~teeRuntime /\ ~allowMock -> "none"
                  [] (teeRuntime \/ allowMock) /\ fixture = "consistent" -> "fixture"
                  [] (teeRuntime \/ allowMock) /\ fixture = "inconsistent" -> "none"
                  [] OTHER -> IF tpm THEN "tpm" ELSE IF allowMock THEN "mock" ELSE "none"
  IN
  /\ bootStep = "measure"
  /\ IF source = "none"
       THEN Exit(101)
       ELSE /\ bootStep' = "attest"
            /\ tpmMeasurement' = digest
            /\ UNCHANGED <<bootState, exitCode, attestationData, attestationDigest,
                           sessionKeys>>

\* verifyCertChain: the leaf is within its dates and, if one is given, has the
\* fingerprint; no certificate is revoked; each is issued by the next; the last
\* is a trusted root, if any are given. The chain is a file of the data
\* directory; nothing relates it to the measurement, and nobody's signature on
\* the last certificate is looked at.
verifyCertChain(certs, pinned, trusted) ==
  /\ certs # <<>>
  /\ certs[1].current
  /\ pinned \in {"unset", "match"}
  /\ \A i \in DOMAIN certs : ~certs[i].revoked /\ (i < Len(certs) => certs[i].signedByNext)
  /\ trusted \in {"unset", "match"}

\* The rest of transitionToS1, after the measurement.
transitionToS1(certs, pinned, trusted) ==
  /\ bootStep = "attest"
  /\ IF verifyCertChain(certs, pinned, trusted)
       THEN /\ bootStep' = "reach"
            /\ bootState' = "ATTESTED"
            /\ attestationData' = tpmMeasurement
            /\ UNCHANGED <<exitCode, attestationDigest, sessionKeys, tpmMeasurement>>
       ELSE Exit(101)

isReachable(reachable) ==
  /\ bootStep = "reach"
  /\ IF reachable
       THEN /\ bootStep' = "peer"
            /\ UNCHANGED <<bootState, exitCode, attestationData, attestationDigest,
                           sessionKeys, tpmMeasurement>>
       ELSE Exit(102)

\* fetchPeerPublicKey: of the configuration, or of an endpoint whose key must be
\* signed unless REQUIRE_SIGNED_PEER_KEY is 0.
fetchPeerPublicKey(endpoint, requireSigned, answer) ==
  LET accepted == IF endpoint
                    THEN answer = "signed" \/ (answer = "unsigned" /\ ~requireSigned)
                    ELSE answer = "configured"
  IN
  /\ bootStep = "peer"
  /\ IF accepted
       THEN /\ bootStep' = "derive"
            /\ UNCHANGED <<bootState, exitCode, attestationData, attestationDigest,
                           sessionKeys, tpmMeasurement>>
       ELSE Exit(102)

\* Mutant: the proof is verified against the digest that was there before.
DigestKept == attestationDigest
DigestToVerify == attestationData

\* hybridKeyExchange and verifyKeyDerivationProof. proofOver is the digest of the
\* proof that the provider returned, NoDigest if it returned none or there is no
\* provider: the proof is then made here.
transitionToS2(answer, proofOver) ==
  LET proof == IF proofOver = NoDigest THEN attestationData ELSE proofOver
  IN
  /\ bootStep = "derive"
  /\ IF answer = "session" /\ proof = DigestToVerify
       THEN /\ bootStep' = "resources"
            /\ bootState' = "KEY_ESTABLISHED"
            /\ attestationDigest' = DigestToVerify
            /\ sessionKeys' = proof
            /\ UNCHANGED <<exitCode, attestationData, tpmMeasurement>>
       ELSE Exit(102)

\* _checkCPUPinning. readable: the process status names its list of CPUs;
\* pinning: that list, or the one of the cgroup, is not all CPUs.
checkCPUPinning(readable, pinning, requirePinning) ==
  readable /\ (pinning \/ ~requirePinning)

transitionToS3(hugepages, pinned) ==
  /\ bootStep = "resources"
  /\ IF hugepages /\ pinned
       THEN /\ bootStep' = "up"
            /\ bootState' = "OPERATIONAL"
            /\ UNCHANGED <<exitCode, attestationData, attestationDigest, sessionKeys,
                           tpmMeasurement>>
       ELSE Exit(103)

Chains == UNION {[1 .. n -> Certs] : n \in 0 .. 2}
Match == {"unset", "match", "other"}

BootNext ==
  \/ \E teeRuntime, allowMock, tpm \in BOOLEAN, digest \in Digests,
        fixture \in {"unset", "consistent", "inconsistent"} :
       readTPM(teeRuntime, allowMock, fixture, tpm, digest)
  \/ \E certs \in Chains, pinned, trusted \in Match : transitionToS1(certs, pinned, trusted)
  \/ \E reachable \in BOOLEAN : isReachable(reachable)
  \/ \E endpoint, requireSigned \in BOOLEAN,
        answer \in {"configured", "signed", "unsigned", "none"} :
       fetchPeerPublicKey(endpoint, requireSigned, answer)
  \/ \E answer \in {"session", "error"}, proofOver \in Digests \union {NoDigest} :
       transitionToS2(answer, proofOver)
  \/ \E hugepages, readable, pinning, requirePinning \in BOOLEAN :
       transitionToS3(hugepages, checkCPUPinning(readable, pinning, requirePinning))

BootSpec == BootInit /\ [][BootNext]_bootVars

-----------------------------------------------------------------------------
BootTypeOK ==
  /\ bootStep \in {"measure", "attest", "reach", "peer", "derive", "resources", "up", "exited"}
  /\ bootState \in {"UNINITIALIZED", "ATTESTED", "KEY_ESTABLISHED", "OPERATIONAL"}
  /\ exitCode \in {0, 101, 102, 103}
  /\ {attestationData, attestationDigest, sessionKeys, tpmMeasurement}
       \subseteq Digests \union {NoDigest}

\* Keys are established only over the digest that this boot measured, whatever
\* digest was left in the configuration and whatever the key provider made its
\* proof over; until the chain is checked nothing counts as attested, until the
\* proof is verified there are no keys, and the exit code of a boot that failed
\* tells how far it got. That a digest is recorded as attested does not mean
\* that the chain speaks of it: the two are checked one after the other.
KeysBoundToMeasurement ==
  /\ bootState = "UNINITIALIZED" => attestationData = NoDigest
  /\ bootState \in {"ATTESTED", "KEY_ESTABLISHED", "OPERATIONAL"} =>
       attestationData \in Digests /\ attestationData = tpmMeasurement
  /\ bootState \in {"UNINITIALIZED", "ATTESTED"} => sessionKeys = NoDigest
  /\ bootState \in {"KEY_ESTABLISHED", "OPERATIONAL"} =>
       sessionKeys = tpmMeasurement /\ attestationDigest = tpmMeasurement
  /\ exitCode = 101 => bootState = "UNINITIALIZED"
  /\ exitCode = 102 => bootState = "ATTESTED"
  /\ exitCode = 103 => bootState = "KEY_ESTABLISHED"
  /\ bootState = "OPERATIONAL" => exitCode = 0

=============================================================================
