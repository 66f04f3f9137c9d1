-------------------------- MODULE AggregatorRounds --------------------------
(***************************************************************************)
(* Consensus rounds of agents/aggregator/server.js: agents propose a model,*)
(* registered public keys vote on it, and the handler of a vote that finds *)
(* a quorum applies the model, commits its hash on chain, and saves it.    *)
(*                                                                         *)
(* Node runs one handler at a time, but a handler gives way at every await.*)
(* pc says which await a handler is stopped at. Files are written by the   *)
(* thread pool: fs.writeFile truncates the file, then writes what the      *)
(* handler serialised when it issued the write, then the handler resumes,  *)
(* so writes of one file overlap and a crash may find it truncated.        *)
(***************************************************************************)
EXTENDS Integers, FiniteSets

CONSTANTS
  Rounds,           \* round ids; a round also names the model it proposes
  Keys,             \* public keys
  Voters,           \* the keys whose holders vote
  Handlers,         \* requests in progress at one time
  InitialKeys,      \* keys in registry.json at the start
  LateKeys,         \* keys handed to /register
  AGG_COUNT, VOTE_QUORUM,          \* environment; VOTE_QUORUM = 0 when unset
  REQUIRE_ONCHAIN_COMMIT,          \* environment
  MaxObjects,       \* bound: proposal objects of one round alive at a time
  MaxCrashes,       \* bound: crashes of the process
  Default,          \* the model of defaultModel()
  Empty, Torn       \* contents of a truncated file, and of one that two
                    \* overlapping writes left unreadable

Objects == 1 .. MaxObjects
NoObject == 0
NoRound == [votes |-> {}, status |-> "absent"]
Files == {"rounds", "model", "meta", "registry"}
Unreadable == {Empty, Torn}
Statuses == {"absent", "open", "finalized"}
Proposals == [votes : SUBSET Keys, status : Statuses]

\* The awaits a handler can be stopped at, and the file it writes there.
RoundsWrites == {"writeProposal", "writeVote", "writeFinal"}
WriteAwaits == RoundsWrites \cup {"writeMeta", "writeModel", "writeKey"}
MkdirAwaits == {"mkdirProposal", "mkdirVote", "mkdirFinal", "mkdirKey"}
FileOf(await) ==
  CASE await \in RoundsWrites -> "rounds"
    [] await = "writeMeta" -> "meta"
    [] await = "writeModel" -> "model"
    [] await = "writeKey" -> "registry"

ASSUME ConstantsAssumption ==
  /\ IsFiniteSet(Keys)
  /\ InitialKeys \subseteq Keys /\ LateKeys \subseteq Keys /\ Voters \subseteq Keys
  /\ AGG_COUNT \in Nat /\ VOTE_QUORUM \in Nat
  /\ REQUIRE_ONCHAIN_COMMIT \in BOOLEAN
  /\ MaxObjects \in Nat \ {0} /\ MaxCrashes \in Nat
  /\ Empty # Torn /\ Default \notin Rounds
  /\ Unreadable \cap (Rounds \cup {Default}) = {}

VARIABLES
  rounds,           \* the map: which object of each round it holds
  object,           \* the proposal objects: their votes and status
  model,            \* the model in memory, which GET /model returns
  allowedPubkeys,
  pc, on, quorum,   \* per handler: its await, its <<round, object>>, and the
                    \* quorum a vote handler computed before its first await
  io, payload,      \* per handler: progress of its file write, what it writes
  disk,             \* content of each file
  submitted,        \* rounds whose commitment the chain executed
  crashes,
  supporters,       \* history: keys whose vote was ever recorded, per round
  refused,          \* history: rounds a vote handler answered 502 for
  forgotten         \* history: a restart found registry.json unreadable

memory == <<rounds, object, model, allowedPubkeys>>
handlerVars == <<pc, on, quorum, io, payload>>
world == <<disk, submitted, crashes>>
history == <<supporters, refused, forgotten>>
vars == <<memory, handlerVars, world, history>>

Proposal(h) == object[on[h][1]][on[h][2]]
Current(r) == object[r][rounds[r]]

Quorum(keys) ==
  LET size == IF keys # {} THEN Cardinality(keys) ELSE AGG_COUNT
      share == (size * 66) \div 100
  IN IF VOTE_QUORUM # 0 THEN VOTE_QUORUM ELSE IF share > 1 THEN share ELSE 1

IsRegisteredPubkey(key) == allowedPubkeys = {} \/ key \in allowedPubkeys

\* What persistRounds serialises, and what loadRounds makes of a file.
RoundsJSON ==
  [r \in Rounds |-> IF rounds[r] = NoObject THEN NoRound ELSE Current(r)]

ParsedRounds(content) ==
  IF content \in Unreadable THEN [r \in Rounds |-> NoRound] ELSE content

\* Mutant: the catch of loadModel is gone.
ModelUnguarded(content) == content
ParsedModel(content) == IF content \in Unreadable THEN Default ELSE content

Fresh(r) == [i \in Objects |-> NoRound]

Init ==
  /\ rounds = [r \in Rounds |-> NoObject]
  /\ object = [r \in Rounds |-> Fresh(r)]
  /\ model = Default
  /\ allowedPubkeys = InitialKeys
  /\ pc = [h \in Handlers |-> "idle"]
  /\ on = [h \in Handlers |-> <<>>]
  /\ quorum = [h \in Handlers |-> 0]
  /\ io = [h \in Handlers |-> "none"]
  /\ payload = [h \in Handlers |-> Empty]
  /\ disk = [f \in Files |->
               CASE f = "rounds" -> [r \in Rounds |-> NoRound]
                 [] f = "registry" -> InitialKeys
                 [] OTHER -> Default]
  /\ submitted = {}
  /\ crashes = 0
  /\ supporters = [r \in Rounds |-> {}]
  /\ refused = {}
  /\ forgotten = FALSE

-----------------------------------------------------------------------------
(* How a handler stops at an await, and how it answers its request.         *)

Await(h, await) == pc' = [pc EXCEPT ![h] = await]

Answer(h) ==
  /\ Await(h, "idle")
  /\ on' = [on EXCEPT ![h] = <<>>]
  /\ quorum' = [quorum EXCEPT ![h] = 0]
  /\ payload' = [payload EXCEPT ![h] = Empty]
  /\ io' = [io EXCEPT ![h] = "none"]

\* Issue a write of content and stop at the await of its completion.
Write(h, await, content) ==
  /\ Await(h, await)
  /\ io' = [io EXCEPT ![h] = "issued"]
  /\ payload' = [payload EXCEPT ![h] = content]

\* Stop at the fs.mkdir that persistRounds and saveRegistry begin with: what
\* they write is serialised only after it.
Mkdir(h, await) ==
  /\ Await(h, await)
  /\ io' = [io EXCEPT ![h] = "none"]
  /\ payload' = [payload EXCEPT ![h] = Empty]

Written(h, await) == pc[h] = await /\ io[h] = "written"

Serialise(h) ==
  /\ pc[h] \in MkdirAwaits
  /\ CASE pc[h] = "mkdirProposal" -> Write(h, "writeProposal", RoundsJSON)
       [] pc[h] = "mkdirVote" -> Write(h, "writeVote", RoundsJSON)
       [] pc[h] = "mkdirFinal" -> Write(h, "writeFinal", RoundsJSON)
       [] pc[h] = "mkdirKey" -> Write(h, "writeKey", allowedPubkeys)
  /\ UNCHANGED <<memory, on, quorum, world, history>>

Truncate(h) ==
  /\ pc[h] \in WriteAwaits /\ io[h] = "issued"
  /\ io' = [io EXCEPT ![h] = "open"]
  /\ disk' = [disk EXCEPT ![FileOf(pc[h])] = Empty]
  /\ UNCHANGED <<memory, pc, on, quorum, payload, submitted, crashes, history>>

\* A write over what another one put there since the truncation leaves the new
\* content, or the new content and the tail of a longer old one.
Put(h) ==
  /\ pc[h] \in WriteAwaits /\ io[h] = "open"
  /\ io' = [io EXCEPT ![h] = "written"]
  /\ \E content \in {payload[h]} \cup
                     (IF disk[FileOf(pc[h])] \in {Empty, payload[h]} THEN {} ELSE {Torn}) :
       disk' = [disk EXCEPT ![FileOf(pc[h])] = content]
  /\ UNCHANGED <<memory, pc, on, quorum, payload, submitted, crashes, history>>

-----------------------------------------------------------------------------
(* POST /propose. The round id is the hash of the model and the timestamp,  *)
(* so the same proposal under another nonce puts a new object, without      *)
(* votes, in the place of the old one; handlers keep the object they hold.  *)

Unused(r) ==
  {i \in Objects : i # rounds[r] /\ \A h \in Handlers : on[h] # <<r, i>>}

Propose(h, r) ==
  /\ pc[h] = "idle"
  /\ Unused(r) # {}
  /\ LET i == CHOOSE j \in Unused(r) : \A k \in Unused(r) : j <= k
     IN /\ object' = [object EXCEPT ![r][i] = [votes |-> {}, status |-> "open"]]
        /\ rounds' = [rounds EXCEPT ![r] = i]
        /\ on' = [on EXCEPT ![h] = <<r, i>>]
  /\ Mkdir(h, "mkdirProposal")
  /\ UNCHANGED <<model, allowedPubkeys, quorum, world, history>>

ProposalSaved(h) ==
  /\ Written(h, "writeProposal")
  /\ Answer(h)
  /\ UNCHANGED <<memory, world, history>>

-----------------------------------------------------------------------------
(* POST /vote. "accept" and "reject" are counted alike, and a key that votes *)
(* again replaces its vote.                                                 *)

Vote(h, r, key) ==
  /\ pc[h] = "idle"
  /\ IsRegisteredPubkey(key)
  /\ rounds[r] # NoObject
  /\ Current(r).status = "open"
  /\ object' = [object EXCEPT ![r][rounds[r]].votes = @ \cup {key}]
  /\ supporters' = [supporters EXCEPT ![r] = @ \cup {key}]
  /\ quorum' = [quorum EXCEPT ![h] = Quorum(allowedPubkeys)]
  /\ on' = [on EXCEPT ![h] = <<r, rounds[r]>>]
  /\ Mkdir(h, "mkdirVote")
  /\ UNCHANGED <<rounds, model, allowedPubkeys, world, refused, forgotten>>

\* Mutants: one vote short of the quorum, and one vote more than it.
OneShort(votes, needed) == Cardinality(votes) + 1 >= needed
MoreThan(votes, needed) == Cardinality(votes) > needed
Enough(votes, needed) == Cardinality(votes) >= needed

\* The votes are counted after the await, against the quorum from before it.
VoteSaved(h) ==
  /\ Written(h, "writeVote")
  /\ IF Enough(Proposal(h).votes, quorum[h])
       THEN /\ model' = on[h][1]
            /\ Mkdir(h, "commit")
            /\ UNCHANGED <<on, quorum>>
       ELSE Answer(h) /\ UNCHANGED model
  /\ UNCHANGED <<rounds, object, allowedPubkeys, world, history>>

\* Mutant: a failed commitment is answered 502 in no configuration.
CommitOptional(outcome) == FALSE
MustRefuse(outcome) == outcome # "answered" /\ REQUIRE_ONCHAIN_COMMIT

\* emitOnchainCommitment: the transaction is executed and answered, fails, or
\* is executed and its answer lost.
Commit(h, outcome) ==
  /\ pc[h] = "commit"
  /\ submitted' = IF outcome = "failed" THEN submitted ELSE submitted \cup {on[h][1]}
  /\ IF MustRefuse(outcome)
       THEN Answer(h) /\ refused' = refused \cup {on[h][1]}
       ELSE /\ Write(h, "writeMeta", on[h][1])
            /\ UNCHANGED <<on, quorum, refused>>
  /\ UNCHANGED <<memory, disk, crashes, supporters, forgotten>>

\* MODEL_FILE is given the model that is in memory now.
MetaSaved(h) ==
  /\ Written(h, "writeMeta")
  /\ Write(h, "writeModel", model)
  /\ UNCHANGED <<memory, on, quorum, world, history>>

\* The handler's object goes back into the map, whatever is there now.
ModelSaved(h) ==
  /\ Written(h, "writeModel")
  /\ object' = [object EXCEPT ![on[h][1]][on[h][2]].status = "finalized"]
  /\ rounds' = [rounds EXCEPT ![on[h][1]] = on[h][2]]
  /\ Mkdir(h, "mkdirFinal")
  /\ UNCHANGED <<model, allowedPubkeys, on, quorum, world, history>>

FinalSaved(h) ==
  /\ Written(h, "writeFinal")
  /\ Answer(h)
  /\ UNCHANGED <<memory, world, history>>

-----------------------------------------------------------------------------
(* POST /register, and a crash followed by run(): loadModel and loadRounds  *)
(* write the default model, its meta and an empty registry over files they  *)
(* cannot parse.                                                            *)

Register(h, key) ==
  /\ pc[h] = "idle"
  /\ allowedPubkeys' = allowedPubkeys \cup {key}
  /\ Mkdir(h, "mkdirKey")
  /\ UNCHANGED <<rounds, object, model, on, quorum, world, history>>

KeySaved(h) ==
  /\ Written(h, "writeKey")
  /\ Answer(h)
  /\ UNCHANGED <<memory, world, history>>

CrashAndRestart ==
  LET loaded == ParsedRounds(disk["rounds"])
      noModel == disk["model"] \in Unreadable
      noKeys == disk["registry"] \in Unreadable
  IN
  /\ crashes < MaxCrashes
  /\ crashes' = crashes + 1
  /\ pc' = [h \in Handlers |-> "idle"]
  /\ on' = [h \in Handlers |-> <<>>]
  /\ quorum' = [h \in Handlers |-> 0]
  /\ io' = [h \in Handlers |-> "none"]
  /\ payload' = [h \in Handlers |-> Empty]
  /\ object' = [r \in Rounds |-> [Fresh(r) EXCEPT ![1] = loaded[r]]]
  /\ rounds' = [r \in Rounds |-> IF loaded[r] = NoRound THEN NoObject ELSE 1]
  /\ model' = ParsedModel(disk["model"])
  /\ allowedPubkeys' = IF noKeys THEN {} ELSE disk["registry"]
  /\ disk' = [disk EXCEPT !["model"] = model',
                          !["meta"] = IF noModel THEN Default ELSE @,
                          !["registry"] = allowedPubkeys']
  /\ forgotten' = (forgotten \/ noKeys)
  /\ UNCHANGED <<submitted, supporters, refused>>

-----------------------------------------------------------------------------
\* What the process does about a request that is in progress.
Progress(h) ==
  \/ Serialise(h)
  \/ Truncate(h)
  \/ Put(h)
  \/ ProposalSaved(h)
  \/ VoteSaved(h)
  \/ \E outcome \in {"answered", "failed", "lost"} : Commit(h, outcome)
  \/ MetaSaved(h)
  \/ ModelSaved(h)
  \/ FinalSaved(h)
  \/ KeySaved(h)

Request(h) ==
  \/ \E r \in Rounds : Propose(h, r)
  \/ \E r \in Rounds, key \in Voters : Vote(h, r, key)
  \/ \E key \in LateKeys : Register(h, key)

Next == CrashAndRestart \/ \E h \in Handlers : Progress(h) \/ Request(h)

\* The event loop resumes every handler whose await has completed, the thread
\* pool serves every file operation, and fetch gives up on an RPC server that
\* does not answer; nobody has to send a request, and nothing has to crash.
Fairness == \A h \in Handlers : WF_vars(Progress(h))

Spec == Init /\ [][Next]_vars /\ Fairness

-----------------------------------------------------------------------------
TypeOK ==
  /\ rounds \in [Rounds -> {NoObject} \cup Objects]
  /\ object \in [Rounds -> [Objects -> Proposals]]
  /\ model \in Rounds \cup {Default}
  /\ allowedPubkeys \subseteq Keys
  /\ pc \in [Handlers -> {"idle", "commit"} \cup MkdirAwaits \cup WriteAwaits]
  /\ on \in [Handlers -> (Rounds \X Objects) \cup {<<>>}]
  /\ quorum \in [Handlers -> Nat]
  /\ io \in [Handlers -> {"none", "issued", "open", "written"}]
  /\ disk["rounds"] \in [Rounds -> Proposals] \cup Unreadable
  /\ disk["registry"] \in (SUBSET Keys) \cup Unreadable
  /\ \A f \in {"model", "meta"} : disk[f] \in Rounds \cup {Default} \cup Unreadable
  /\ submitted \subseteq Rounds /\ refused \subseteq Rounds
  /\ crashes \in 0 .. MaxCrashes
  /\ supporters \in [Rounds -> SUBSET Keys]
  /\ forgotten \in BOOLEAN

\* Every round that the model in memory, a file or the chain names was voted
\* for by a quorum of distinct keys, at every moment of every interleaving of
\* handlers and through every crash. The quorum is that of the registry at the
\* start, which only grows; if that was empty, or a restart lost it, the first
\* key to be registered is a quorum, unless the environment sets another.
LeastQuorum ==
  IF VOTE_QUORUM # 0 THEN VOTE_QUORUM
  ELSE IF InitialKeys = {} \/ forgotten THEN 1 ELSE Quorum(InitialKeys)
QuorumBehindModel ==
  \A r \in submitted \cup (Rounds \cap {model, disk["model"], disk["meta"]}) :
    Cardinality(supporters[r]) >= LeastQuorum

\* Whatever says that a round is finalized (an object in memory, a snapshot on
\* its way to rounds.json, the file itself), says so only after the chain has
\* executed the round's commitment, when that is required.
FinalizedIn(snapshot) == {r \in Rounds : snapshot[r].status = "finalized"}
FinalizedIsSubmitted ==
  REQUIRE_ONCHAIN_COMMIT =>
    /\ \A r \in Rounds, i \in Objects :
         object[r][i].status = "finalized" => r \in submitted
    /\ \A h \in Handlers :
         pc[h] \in RoundsWrites => FinalizedIn(payload[h]) \subseteq submitted
    /\ FinalizedIn(ParsedRounds(disk["rounds"])) \subseteq submitted

\* A round whose votes reach the quorum is finalized, or some voter on it is
\* told that its commitment failed, whatever else is proposed, voted and
\* registered meanwhile: the last voter's handler sees all the votes, and the
\* quorum that it computed before its await is not above the present one, as
\* registrations only raise it. With an empty registry they do not: the first
\* registration lowers the quorum from that of AGGREGATE_COUNT to 1, and the
\* votes that reach it thereby are not counted again; so nothing is said of a
\* registry that starts empty, unless the environment sets the quorum. The
\* process has to stay up: after a restart nothing counts the loaded votes.
RegistrationsRaiseQuorum == InitialKeys # {} \/ VOTE_QUORUM # 0
Reached(r, i) ==
  /\ RegistrationsRaiseQuorum
  /\ object[r][i].status = "open"
  /\ Cardinality(object[r][i].votes) >= Quorum(allowedPubkeys)
  /\ crashes = 0
QuorumFinalizes ==
  \A r \in Rounds, i \in Objects :
    Reached(r, i) ~> (object[r][i].status = "finalized" \/ r \in refused \/ crashes > 0)

\* README.md of the aggregator: with REQUIRE_ONCHAIN_COMMIT a round's
\* finalization fails unless its commitment succeeds. To finalize is to apply
\* the model, so once every request is answered the model in memory is the
\* default one or one whose commitment the chain executed. The code does not
\* keep that: it applies the model first and does not take it back.
FailedRoundNotApplied ==
  (REQUIRE_ONCHAIN_COMMIT /\ \A h \in Handlers : pc[h] = "idle")
    => model \in submitted \cup {Default}

=============================================================================
