----------------------- MODULE AggregatorRoundsProofs -----------------------
(***************************************************************************)
(* Proofs about AggregatorRounds, for any number of rounds, keys, handlers *)
(* and crashes, any registry and any configured quorum.                    *)
(***************************************************************************)
EXTENDS AggregatorRounds, FiniteSetTheorems, WellFoundedInduction, TLAPS

Snapshots == [Rounds -> Proposals]
Models == Rounds \cup {Default}
Contents == Snapshots \cup (SUBSET Keys) \cup Models \cup Unreadable

\* The awaits of a handler that has a round in hand.
RoundAwaits ==
  RoundsWrites \cup {"mkdirProposal", "mkdirVote", "mkdirFinal", "commit",
                     "writeMeta", "writeModel"}

\* Which file a handler writes decides what it writes.
HandlersOK ==
  /\ payload \in [Handlers -> Contents]
  /\ \A h \in Handlers :
       /\ pc[h] \in RoundAwaits => on[h] \in Rounds \X Objects
       /\ pc[h] \in RoundsWrites => payload[h] \in Snapshots
       /\ pc[h] = "writeKey" => payload[h] \in SUBSET Keys
       /\ pc[h] \in {"writeMeta", "writeModel"} => payload[h] \in Models

TypeInv == TypeOK /\ HandlersOK /\ disk \in [Files -> Contents]

Awaits == {"idle", "commit"} \cup MkdirAwaits \cup WriteAwaits
HandlerTypes ==
  /\ pc \in [Handlers -> Awaits]
  /\ on \in [Handlers -> (Rounds \X Objects) \cup {<<>>}]
  /\ quorum \in [Handlers -> Nat]
  /\ io \in [Handlers -> {"none", "issued", "open", "written"}]
  /\ HandlersOK
MemoryTypes ==
  /\ rounds \in [Rounds -> {NoObject} \cup Objects]
  /\ object \in [Rounds -> [Objects -> Proposals]]
  /\ model \in Models
  /\ allowedPubkeys \subseteq Keys
DiskTypes ==
  /\ disk \in [Files -> Contents]
  /\ disk["rounds"] \in Snapshots \cup Unreadable
  /\ disk["registry"] \in (SUBSET Keys) \cup Unreadable
  /\ disk["model"] \in Models \cup Unreadable
  /\ disk["meta"] \in Models \cup Unreadable
OtherTypes ==
  /\ submitted \subseteq Rounds /\ refused \subseteq Rounds
  /\ crashes \in 0 .. MaxCrashes
  /\ supporters \in [Rounds -> SUBSET Keys]
  /\ forgotten \in BOOLEAN

LEMMA TypeParts ==
  TypeInv <=> HandlerTypes /\ MemoryTypes /\ DiskTypes /\ OtherTypes
BY DEF TypeInv, TypeOK, HandlerTypes, MemoryTypes, DiskTypes, OtherTypes, Models,
       Snapshots, Awaits

LEMMA TypePartsPrimed ==
  TypeInv' <=> HandlerTypes' /\ MemoryTypes' /\ DiskTypes' /\ OtherTypes'
BY DEF TypeInv, TypeOK, HandlerTypes, MemoryTypes, DiskTypes, OtherTypes, Models,
       Snapshots, Awaits

LEMMA NoRoundIsProposal == NoRound \in Proposals
BY DEF NoRound, Proposals, Statuses

LEMMA SnapshotType == MemoryTypes => RoundsJSON \in Snapshots
BY NoRoundIsProposal DEF MemoryTypes, RoundsJSON, Snapshots, Current, NoObject

LEMMA QuorumType ==
  ASSUME NEW keys \in SUBSET Keys
  PROVE  Quorum(keys) \in Nat /\ Quorum(keys) >= 1
<1>1. Cardinality(keys) \in Nat
  BY ConstantsAssumption, FS_Subset, FS_CardinalityType
<1> QED
  BY <1>1, ConstantsAssumption DEF Quorum

LEMMA FileOfIs ==
  /\ \A await \in RoundsWrites : FileOf(await) = "rounds"
  /\ FileOf("writeMeta") = "meta"
  /\ FileOf("writeModel") = "model"
  /\ FileOf("writeKey") = "registry"
  /\ \A await \in WriteAwaits : FileOf(await) \in Files
BY DEF FileOf, RoundsWrites, WriteAwaits, Files

-----------------------------------------------------------------------------
\* A handler moves: to which await, on what, and with what to write.
LEMMA HandlerMoves ==
  ASSUME HandlerTypes, NEW h \in Handlers,
         NEW await \in Awaits, pc' = [pc EXCEPT ![h] = await],
         NEW o \in (Rounds \X Objects) \cup {<<>>}, on' = [on EXCEPT ![h] = o],
         NEW q \in Nat, quorum' = [quorum EXCEPT ![h] = q],
         NEW i \in {"none", "issued", "open", "written"}, io' = [io EXCEPT ![h] = i],
         NEW content \in Contents, payload' = [payload EXCEPT ![h] = content],
         await \in RoundAwaits => o \in Rounds \X Objects,
         await \in RoundsWrites => content \in Snapshots,
         await = "writeKey" => content \in SUBSET Keys,
         await \in {"writeMeta", "writeModel"} => content \in Models
  PROVE  HandlerTypes'
BY DEF HandlerTypes, HandlersOK

LEMMA Answered ==
  ASSUME HandlerTypes, NEW h \in Handlers, Answer(h)
  PROVE  HandlerTypes'
<1>1. "idle" \in Awaits /\ "idle" \notin RoundAwaits \cup {"writeKey"} \cup RoundsWrites
  BY DEF Awaits, RoundAwaits, RoundsWrites
<1>2. Empty \in Contents
  BY DEF Contents, Unreadable
<1> QED
  BY <1>1, <1>2, HandlerMoves DEF Answer, Await

LEMMA MkdirBegun ==
  ASSUME HandlerTypes, NEW h \in Handlers, NEW await \in {"commit"} \cup MkdirAwaits,
         Mkdir(h, await),
         NEW o \in (Rounds \X Objects) \cup {<<>>}, on' = [on EXCEPT ![h] = o],
         await # "mkdirKey" => o \in Rounds \X Objects,
         NEW q \in Nat, quorum' = [quorum EXCEPT ![h] = q]
  PROVE  HandlerTypes'
<1>1. await \in Awaits
  BY DEF Awaits
<1>2. await \notin RoundsWrites \cup {"writeMeta", "writeModel", "writeKey"}
      /\ (await \in RoundAwaits => await # "mkdirKey")
  BY DEF MkdirAwaits, RoundsWrites, RoundAwaits
<1>3. Empty \in Contents
  BY DEF Contents, Unreadable
<1> QED
  BY <1>1, <1>2, <1>3, HandlerMoves DEF Mkdir, Await

LEMMA WriteBegun ==
  ASSUME HandlerTypes, NEW h \in Handlers, NEW await \in WriteAwaits, NEW content \in Contents,
         Write(h, await, content), UNCHANGED <<on, quorum>>,
         await \in RoundAwaits => on[h] \in Rounds \X Objects,
         await \in RoundsWrites => content \in Snapshots,
         await = "writeKey" => content \in SUBSET Keys,
         await \in {"writeMeta", "writeModel"} => content \in Models
  PROVE  HandlerTypes'
<1>1. await \in Awaits
  BY DEF Awaits
<1>2. on' = [on EXCEPT ![h] = on[h]] /\ quorum' = [quorum EXCEPT ![h] = quorum[h]]
  BY DEF HandlerTypes
<1>3. on[h] \in (Rounds \X Objects) \cup {<<>>} /\ quorum[h] \in Nat
  BY DEF HandlerTypes
<1> QED
  BY <1>1, <1>2, <1>3, HandlerMoves DEF Write, Await

\* What a handler that answers, or begins to save, leaves alone.
LEMMA MemoryUnchanged == MemoryTypes /\ UNCHANGED memory => MemoryTypes'
BY DEF MemoryTypes, memory
LEMMA WorldUnchanged == DiskTypes /\ OtherTypes /\ UNCHANGED <<world, history>>
                          => DiskTypes' /\ OtherTypes'
BY DEF DiskTypes, OtherTypes, world, history

\* The votes and status of the proposal a handler has in hand.
LEMMA ProposalType ==
  ASSUME HandlerTypes, MemoryTypes, NEW h \in Handlers, pc[h] \in RoundAwaits
  PROVE  /\ on[h][1] \in Rounds /\ on[h][2] \in Objects
         /\ Proposal(h) \in Proposals
<1>1. on[h] \in Rounds \X Objects
  BY DEF HandlerTypes, HandlersOK
<1> QED
  BY <1>1 DEF MemoryTypes, Proposal

LEMMA SerialiseTypes ==
  ASSUME TypeInv, NEW h \in Handlers, Serialise(h)
  PROVE  TypeInv'
<1> USE TypeParts, TypePartsPrimed
<1>1. RoundsJSON \in Snapshots /\ RoundsJSON \in Contents
  BY SnapshotType DEF Contents
<1>2. allowedPubkeys \in SUBSET Keys /\ allowedPubkeys \in Contents
  BY DEF Contents, MemoryTypes
<1>3. pc[h] # "mkdirKey" => on[h] \in Rounds \X Objects
  BY DEF Serialise, MkdirAwaits, RoundAwaits, HandlerTypes, HandlersOK
<1>4. UNCHANGED <<memory, on, quorum, world, history>>
  BY DEF Serialise
<1>5. HandlerTypes'
  <2>1. CASE pc[h] = "mkdirKey"
    <3>1. Write(h, "writeKey", allowedPubkeys)
      BY <2>1 DEF Serialise
    <3>2. "writeKey" \in WriteAwaits /\ "writeKey" \notin RoundAwaits \cup RoundsWrites
      BY DEF WriteAwaits, RoundAwaits, RoundsWrites
    <3> QED
      BY <1>2, <1>4, <3>1, <3>2, WriteBegun
  <2>2. CASE pc[h] # "mkdirKey"
    <3>1. PICK await \in RoundsWrites : Write(h, await, RoundsJSON)
      BY <2>2 DEF Serialise, MkdirAwaits, RoundsWrites
    <3>2. await \in WriteAwaits /\ await \notin {"writeKey", "writeMeta", "writeModel"}
      BY DEF WriteAwaits, RoundsWrites
    <3> QED
      BY <1>1, <1>3, <1>4, <2>2, <3>1, <3>2, WriteBegun
  <2> QED
    BY <2>1, <2>2
<1> QED
  BY <1>4, <1>5, MemoryUnchanged, WorldUnchanged

LEMMA IoTypes ==
  ASSUME HandlerTypes, NEW h \in Handlers, NEW i \in {"none", "issued", "open", "written"},
         io' = [io EXCEPT ![h] = i], UNCHANGED <<pc, on, quorum, payload>>
  PROVE  HandlerTypes'
BY DEF HandlerTypes, HandlersOK

LEMMA TruncateTypes ==
  ASSUME TypeInv, NEW h \in Handlers, Truncate(h)
  PROVE  TypeInv'
<1> USE TypeParts, TypePartsPrimed
<1>1. HandlerTypes'
  BY IoTypes DEF Truncate
<1>2. MemoryTypes' /\ OtherTypes'
  BY DEF Truncate, MemoryTypes, OtherTypes, memory, history
<1>3. Empty \in Unreadable /\ Empty \in Contents
  BY DEF Unreadable, Contents
<1>4. DiskTypes'
  BY <1>3, FileOfIs DEF DiskTypes, Truncate
<1> QED
  BY <1>1, <1>2, <1>4

LEMMA PutTypes ==
  ASSUME TypeInv, NEW h \in Handlers, Put(h)
  PROVE  TypeInv'
<1> USE TypeParts, TypePartsPrimed
<1>1. HandlerTypes'
  BY IoTypes DEF Put
<1>2. MemoryTypes' /\ OtherTypes'
  BY DEF Put, MemoryTypes, OtherTypes, memory, history
<1>3. PICK content \in {payload[h], Torn} : disk' = [disk EXCEPT ![FileOf(pc[h])] = content]
  BY DEF Put
<1>4. Torn \in Unreadable /\ Torn \in Contents
  BY DEF Unreadable, Contents
<1>5. payload[h] \in Contents /\ pc[h] \in WriteAwaits
  BY DEF HandlerTypes, HandlersOK, Put
<1>6. FileOf(pc[h]) \in Files
  BY <1>5, FileOfIs
<1>7. DiskTypes'
  <2>1. CASE content = Torn
    BY <1>3, <1>4, <1>6, <2>1 DEF DiskTypes
  <2>2. CASE content = payload[h] /\ pc[h] \in RoundsWrites
    <3>1. payload[h] \in Snapshots
      BY <2>2 DEF HandlerTypes, HandlersOK
    <3> QED
      BY <1>3, <1>5, <1>6, <2>2, <3>1, FileOfIs DEF DiskTypes
  <2>3. CASE content = payload[h] /\ pc[h] \notin RoundsWrites
    <3>1. pc[h] \in {"writeMeta", "writeModel", "writeKey"}
      BY <1>5, <2>3 DEF WriteAwaits
    <3>2. /\ pc[h] = "writeKey" => payload[h] \in SUBSET Keys
          /\ pc[h] \in {"writeMeta", "writeModel"} => payload[h] \in Models
      BY DEF HandlerTypes, HandlersOK
    <3> QED
      BY <1>3, <1>5, <1>6, <2>3, <3>1, <3>2, FileOfIs DEF DiskTypes
  <2> QED
    BY <1>3, <2>1, <2>2, <2>3
<1> QED
  BY <1>1, <1>2, <1>7

LEMMA SavedTypes ==
  ASSUME TypeInv, NEW h \in Handlers, ProposalSaved(h) \/ FinalSaved(h) \/ KeySaved(h)
  PROVE  TypeInv'
BY TypeParts, TypePartsPrimed, Answered, MemoryUnchanged, WorldUnchanged
   DEF ProposalSaved, FinalSaved, KeySaved

\* The place a new proposal object is given.
LEMMA LeastUnused ==
  ASSUME NEW r \in Rounds, Unused(r) # {}
  PROVE  (CHOOSE j \in Unused(r) : \A k \in Unused(r) : j <= k) \in Unused(r)
<1>1. Unused(r) \subseteq Nat
  BY ConstantsAssumption DEF Unused, Objects
<1>2. PICK j \in Unused(r) : \A k \in Unused(r) : <<k, j>> \notin OpToRel(<, Nat)
  BY <1>1, NatLessThanWellFounded, WFMin
<1>3. \A k \in Unused(r) : ~(k < j)
  <2> TAKE k \in Unused(r)
  <2>1. <<k, j>> \in Nat \X Nat
    BY <1>1
  <2>2. <<k, j>> \notin OpToRel(<, Nat)
    BY <1>2
  <2> QED
    BY <2>1, <2>2 DEF OpToRel
<1>4. \A k \in Unused(r) : j <= k
  BY <1>1, <1>3
<1> QED
  BY <1>4

Opened == [votes |-> {}, status |-> "open"]

\* Which object a proposal gets is of no importance, as long as nobody holds it.
LEMMA ProposeMoves ==
  ASSUME NEW h \in Handlers, NEW r \in Rounds, Propose(h, r)
  PROVE  /\ \E n \in Objects : /\ object' = [object EXCEPT ![r][n] = Opened]
                               /\ rounds' = [rounds EXCEPT ![r] = n]
                               /\ on' = [on EXCEPT ![h] = <<r, n>>]
         /\ pc[h] = "idle" /\ Mkdir(h, "mkdirProposal")
         /\ UNCHANGED <<model, allowedPubkeys, quorum, world, history>>
<1>1. Unused(r) # {}
  BY DEF Propose
<1>2. Unused(r) \subseteq Objects
  BY DEF Unused
<1>3. (CHOOSE j \in Unused(r) : \A k \in Unused(r) : j <= k) \in Objects
  BY <1>1, <1>2, LeastUnused
<1> QED
  BY <1>3 DEF Propose, Opened

LEMMA ProposeTypes ==
  ASSUME TypeInv, NEW h \in Handlers, NEW r \in Rounds, Propose(h, r)
  PROVE  TypeInv'
<1> USE TypeParts, TypePartsPrimed
<1>1. PICK n \in Objects : /\ object' = [object EXCEPT ![r][n] = Opened]
                           /\ rounds' = [rounds EXCEPT ![r] = n]
                           /\ on' = [on EXCEPT ![h] = <<r, n>>]
  BY ProposeMoves
<1>2. Opened \in Proposals
  BY DEF Proposals, Statuses, Opened
<1>3. /\ Mkdir(h, "mkdirProposal")
      /\ UNCHANGED <<model, allowedPubkeys, quorum, world, history>>
  BY ProposeMoves
<1>4. MemoryTypes'
  <2>1. rounds' \in [Rounds -> {NoObject} \cup Objects]
    BY <1>1 DEF MemoryTypes
  <2>2. object' \in [Rounds -> [Objects -> Proposals]]
    BY <1>1, <1>2 DEF MemoryTypes
  <2> QED
    BY <1>3, <2>1, <2>2 DEF MemoryTypes
<1>5. quorum' = [quorum EXCEPT ![h] = quorum[h]] /\ quorum[h] \in Nat
  BY <1>3 DEF HandlerTypes
<1>6. HandlerTypes'
  <2>1. <<r, n>> \in Rounds \X Objects /\ "mkdirProposal" \in MkdirAwaits
    BY DEF MkdirAwaits
  <2> QED
    BY <1>1, <1>3, <1>5, <2>1, MkdirBegun
<1> QED
  BY <1>3, <1>4, <1>6, WorldUnchanged

LEMMA VoteTypes ==
  ASSUME TypeInv, NEW h \in Handlers, NEW r \in Rounds, NEW key \in Keys, Vote(h, r, key)
  PROVE  TypeInv'
<1> USE TypeParts, TypePartsPrimed
<1>1. rounds[r] \in Objects
  BY DEF Vote, MemoryTypes
<1>2. [object[r][rounds[r]] EXCEPT !.votes = @ \cup {key}] \in Proposals
  <2>1. object[r][rounds[r]] \in Proposals
    BY <1>1 DEF MemoryTypes
  <2> QED
    BY <2>1 DEF Proposals
<1>3. object' = [object EXCEPT ![r][rounds[r]] = [object[r][rounds[r]] EXCEPT !.votes = @ \cup {key}]]
  BY <1>1 DEF Vote, MemoryTypes
<1>4. MemoryTypes'
  BY <1>1, <1>2, <1>3 DEF MemoryTypes, Vote
<1>5. Quorum(allowedPubkeys) \in Nat
  BY QuorumType DEF MemoryTypes
<1>6. HandlerTypes'
  <2>1. <<r, rounds[r]>> \in Rounds \X Objects /\ "mkdirVote" \in MkdirAwaits
    BY <1>1 DEF MkdirAwaits
  <2>2. /\ Mkdir(h, "mkdirVote") /\ on' = [on EXCEPT ![h] = <<r, rounds[r]>>]
        /\ quorum' = [quorum EXCEPT ![h] = Quorum(allowedPubkeys)]
    BY DEF Vote
  <2> QED
    BY <1>5, <2>1, <2>2, MkdirBegun
<1>7. DiskTypes' /\ OtherTypes'
  BY DEF Vote, DiskTypes, OtherTypes, world
<1> QED
  BY <1>4, <1>6, <1>7

LEMMA VoteSavedTypes ==
  ASSUME TypeInv, NEW h \in Handlers, VoteSaved(h)
  PROVE  TypeInv'
<1> USE TypeParts, TypePartsPrimed
<1>1. on[h] \in Rounds \X Objects /\ on[h][1] \in Rounds
  BY DEF VoteSaved, Written, RoundAwaits, RoundsWrites, HandlerTypes, HandlersOK
<1>2. CASE Enough(Proposal(h).votes, quorum[h])
  <2>1. MemoryTypes'
    BY <1>1, <1>2 DEF MemoryTypes, VoteSaved, Models
  <2>2. /\ on' = [on EXCEPT ![h] = on[h]]
        /\ quorum' = [quorum EXCEPT ![h] = quorum[h]] /\ quorum[h] \in Nat
    BY <1>2 DEF VoteSaved, HandlerTypes
  <2>3. HandlerTypes'
    BY <1>1, <1>2, <2>2, MkdirBegun DEF VoteSaved
  <2> QED
    BY <2>1, <2>3, WorldUnchanged DEF VoteSaved
<1>3. CASE ~Enough(Proposal(h).votes, quorum[h])
  <2>1. HandlerTypes' /\ MemoryTypes'
    BY <1>3, Answered DEF MemoryTypes, VoteSaved
  <2> QED
    BY <2>1, WorldUnchanged DEF VoteSaved
<1> QED
  BY <1>2, <1>3

LEMMA CommitTypes ==
  ASSUME TypeInv, NEW h \in Handlers, NEW outcome, Commit(h, outcome)
  PROVE  TypeInv'
<1> USE TypeParts, TypePartsPrimed
<1>1. on[h] \in Rounds \X Objects /\ on[h][1] \in Rounds
  BY DEF Commit, RoundAwaits, HandlerTypes, HandlersOK
<1>2. on[h][1] \in Models /\ on[h][1] \in Contents
  BY <1>1 DEF Models, Contents
<1>3. UNCHANGED <<memory, disk, crashes, supporters, forgotten>>
  BY DEF Commit
<1>4. HandlerTypes' /\ refused' \subseteq Rounds
  <2>1. CASE MustRefuse(outcome)
    BY <1>1, <2>1, Answered DEF Commit, OtherTypes
  <2>2. CASE ~MustRefuse(outcome)
    <3>1. Write(h, "writeMeta", on[h][1]) /\ UNCHANGED <<on, quorum, refused>>
      BY <2>2 DEF Commit
    <3>2. "writeMeta" \in WriteAwaits /\ "writeMeta" \notin RoundsWrites
      BY DEF WriteAwaits, RoundsWrites
    <3>3. HandlerTypes'
      BY <1>1, <1>2, <3>1, <3>2, WriteBegun
    <3> QED
      BY <3>1, <3>3 DEF OtherTypes
  <2> QED
    BY <2>1, <2>2
<1>5. submitted' \subseteq Rounds
  BY <1>1 DEF Commit, OtherTypes
<1>6. DiskTypes' /\ OtherTypes'
  BY <1>3, <1>4, <1>5 DEF DiskTypes, OtherTypes
<1> QED
  BY <1>3, <1>4, <1>6, MemoryUnchanged

LEMMA MetaSavedTypes ==
  ASSUME TypeInv, NEW h \in Handlers, MetaSaved(h)
  PROVE  TypeInv'
<1> USE TypeParts, TypePartsPrimed
<1>1. on[h] \in Rounds \X Objects
  BY DEF MetaSaved, Written, RoundAwaits, HandlerTypes, HandlersOK
<1>2. model \in Models /\ model \in Contents
  BY DEF MemoryTypes, Contents
<1>3. "writeModel" \in WriteAwaits /\ "writeModel" \notin RoundsWrites
  BY DEF WriteAwaits, RoundsWrites
<1>4. Write(h, "writeModel", model) /\ UNCHANGED <<memory, on, quorum, world, history>>
  BY DEF MetaSaved
<1>5. HandlerTypes'
  BY <1>1, <1>2, <1>3, <1>4, WriteBegun
<1> QED
  BY <1>4, <1>5, MemoryUnchanged, WorldUnchanged

LEMMA ModelSavedTypes ==
  ASSUME TypeInv, NEW h \in Handlers, ModelSaved(h)
  PROVE  TypeInv'
<1> USE TypeParts, TypePartsPrimed
<1>1. /\ on[h] \in Rounds \X Objects /\ on[h][1] \in Rounds /\ on[h][2] \in Objects
      /\ object[on[h][1]][on[h][2]] \in Proposals
  BY ProposalType DEF ModelSaved, Written, RoundAwaits, HandlerTypes, HandlersOK, Proposal
<1>2. [object[on[h][1]][on[h][2]] EXCEPT !.status = "finalized"] \in Proposals
  BY <1>1 DEF Proposals, Statuses
<1>3. object' \in [Rounds -> [Objects -> Proposals]]
  BY <1>1, <1>2 DEF MemoryTypes, ModelSaved
<1>4. MemoryTypes'
  BY <1>1, <1>3 DEF MemoryTypes, ModelSaved
<1>5. /\ Mkdir(h, "mkdirFinal") /\ "mkdirFinal" \in MkdirAwaits
      /\ on' = [on EXCEPT ![h] = on[h]]
      /\ quorum' = [quorum EXCEPT ![h] = quorum[h]] /\ quorum[h] \in Nat
  BY DEF ModelSaved, MkdirAwaits, HandlerTypes
<1>6. HandlerTypes'
  BY <1>1, <1>5, MkdirBegun
<1> QED
  BY <1>4, <1>6, WorldUnchanged DEF ModelSaved

LEMMA RegisterTypes ==
  ASSUME TypeInv, NEW h \in Handlers, NEW key \in Keys, Register(h, key)
  PROVE  TypeInv'
<1> USE TypeParts, TypePartsPrimed
<1>1. /\ Mkdir(h, "mkdirKey") /\ "mkdirKey" \in MkdirAwaits
      /\ on' = [on EXCEPT ![h] = on[h]] /\ on[h] \in (Rounds \X Objects) \cup {<<>>}
      /\ quorum' = [quorum EXCEPT ![h] = quorum[h]] /\ quorum[h] \in Nat
  BY DEF Register, MkdirAwaits, HandlerTypes
<1>2. HandlerTypes'
  BY <1>1, MkdirBegun
<1>3. MemoryTypes'
  BY DEF Register, MemoryTypes
<1> QED
  BY <1>2, <1>3, WorldUnchanged DEF Register

\* What a restart loads, and what it leaves in the files.
LEMMA Restarted ==
  ASSUME TypeInv, CrashAndRestart
  PROVE  /\ ParsedRounds(disk["rounds"]) \in Snapshots
         /\ model' \in Models /\ allowedPubkeys' \in SUBSET Keys
         /\ disk'["rounds"] = disk["rounds"] /\ disk'["model"] = model'
         /\ disk'["meta"] = IF disk["model"] \in Unreadable THEN Default ELSE disk["meta"]
         /\ disk'["registry"] = allowedPubkeys'
<1> USE TypeParts
<1>1. ParsedRounds(disk["rounds"]) \in Snapshots
  BY NoRoundIsProposal DEF DiskTypes, ParsedRounds, Snapshots
<1>2. model' \in Models /\ allowedPubkeys' \in SUBSET Keys
  BY DEF CrashAndRestart, DiskTypes, ParsedModel, Models
<1>3. disk' = [disk EXCEPT !["model"] = model',
                           !["meta"] = IF disk["model"] \in Unreadable THEN Default ELSE @,
                           !["registry"] = allowedPubkeys']
  BY DEF CrashAndRestart
<1> QED
  BY <1>1, <1>2, <1>3 DEF DiskTypes, Files

LEMMA CrashTypes ==
  ASSUME TypeInv, CrashAndRestart
  PROVE  TypeInv'
<1> USE TypeParts, TypePartsPrimed
<1> DEFINE loaded == ParsedRounds(disk["rounds"])
<1>1. Empty \in Contents /\ Default \in Models /\ Models \subseteq Contents
      /\ (SUBSET Keys) \subseteq Contents
  BY DEF Contents, Unreadable, Models
<1>2. "idle" \in Awaits /\ "idle" \notin RoundAwaits \cup {"writeKey"} \cup RoundsWrites
  BY DEF Awaits, RoundAwaits, RoundsWrites
<1>3. HandlerTypes'
  BY <1>1, <1>2 DEF CrashAndRestart, HandlerTypes, HandlersOK
<1>4. MemoryTypes'
  <2>1. 1 \in Objects /\ NoObject = 0
    BY ConstantsAssumption DEF Objects, NoObject
  <2>2. \A r \in Rounds : loaded[r] \in Proposals /\ Fresh(r) \in [Objects -> Proposals]
    BY Restarted, NoRoundIsProposal DEF Snapshots, Fresh
  <2>3. /\ object' = [r \in Rounds |-> [Fresh(r) EXCEPT ![1] = loaded[r]]]
        /\ rounds' = [r \in Rounds |-> IF loaded[r] = NoRound THEN NoObject ELSE 1]
    BY DEF CrashAndRestart
  <2>4. object' \in [Rounds -> [Objects -> Proposals]]
    BY <2>2, <2>3
  <2>5. rounds' \in [Rounds -> {NoObject} \cup Objects]
    BY <2>1, <2>3
  <2> QED
    BY <2>4, <2>5, Restarted DEF MemoryTypes
<1>5. DiskTypes'
  <2>1. disk' \in [Files -> Contents]
    BY <1>1, Restarted DEF CrashAndRestart, DiskTypes
  <2> QED
    BY <1>1, <2>1, Restarted DEF DiskTypes
<1>6. OtherTypes'
  BY ConstantsAssumption DEF OtherTypes, CrashAndRestart
<1> QED
  BY <1>3, <1>4, <1>5, <1>6

LEMMA TypesPreserved == TypeInv /\ [Next]_vars => TypeInv'
<1> SUFFICES ASSUME TypeInv, [Next]_vars
             PROVE  TypeInv'
  OBVIOUS
<1>1. CASE UNCHANGED vars
  BY <1>1 DEF vars, memory, handlerVars, world, history, TypeInv, TypeOK, HandlersOK
<1>2. CASE CrashAndRestart
  BY <1>2, CrashTypes
<1>3. ASSUME NEW h \in Handlers, Progress(h)
      PROVE  TypeInv'
  BY <1>3, SerialiseTypes, TruncateTypes, PutTypes, SavedTypes, VoteSavedTypes, CommitTypes,
     MetaSavedTypes, ModelSavedTypes DEF Progress
<1>4. ASSUME NEW h \in Handlers, Request(h)
      PROVE  TypeInv'
  <2>1. Voters \subseteq Keys /\ LateKeys \subseteq Keys
    BY ConstantsAssumption
  <2> QED
    BY <1>4, <2>1, ProposeTypes, VoteTypes, RegisterTypes DEF Request
<1> QED
  BY <1>1, <1>2, <1>3, <1>4 DEF Next

LEMMA TypesInitially == Init => TypeInv
<1> SUFFICES ASSUME Init
             PROVE  TypeInv
  OBVIOUS
<1>1. HandlerTypes
  <2>1. Empty \in Contents /\ "idle" \in Awaits
        /\ "idle" \notin RoundAwaits \cup {"writeKey"} \cup RoundsWrites
    BY DEF Contents, Unreadable, Awaits, RoundAwaits, RoundsWrites
  <2> QED
    BY <2>1 DEF Init, HandlerTypes, HandlersOK
<1>2. MemoryTypes
  BY ConstantsAssumption, NoRoundIsProposal DEF Init, MemoryTypes, Fresh, Models
<1>3. DiskTypes
  <2>1. [r \in Rounds |-> NoRound] \in Snapshots /\ InitialKeys \in SUBSET Keys
    BY ConstantsAssumption, NoRoundIsProposal DEF Snapshots
  <2>2. disk["rounds"] \in Snapshots /\ disk["registry"] \in SUBSET Keys
        /\ disk["model"] = Default /\ disk["meta"] = Default
    BY <2>1 DEF Init, Files
  <2>3. disk \in [Files -> Contents]
    BY <2>1 DEF Init, Files, Contents, Models
  <2> QED
    BY <2>2, <2>3 DEF DiskTypes, Models
<1>4. OtherTypes
  <2>1. supporters \in [Rounds -> SUBSET Keys]
    BY DEF Init
  <2>2. crashes \in 0 .. MaxCrashes
    BY ConstantsAssumption DEF Init
  <2> QED
    BY <2>1, <2>2 DEF Init, OtherTypes
<1> QED
  BY <1>1, <1>2, <1>3, <1>4, TypeParts

LEMMA TypesHold == Init /\ [][Next]_vars => []TypeInv
BY TypesInitially, TypesPreserved, PTL

\* Every variable of the aggregator keeps its type: a handler finds a round and
\* an object where its await needs one, and every file holds what is written
\* there or is unreadable.
THEOREM TypeCorrect == Spec => []TypeOK
BY TypesHold, PTL DEF Spec, TypeInv

-----------------------------------------------------------------------------
(* The quorum behind a model, and the commitment behind a finalized round.  *)

\* The registry never loses a key it started with, unless a restart finds the
\* file unreadable.
KeysKept ==
  ~forgotten =>
    /\ InitialKeys \subseteq allowedPubkeys
    /\ disk["registry"] \notin Unreadable => InitialKeys \subseteq disk["registry"]
    /\ \A h \in Handlers : pc[h] = "writeKey" => InitialKeys \subseteq payload[h]

\* A vote that an object, a snapshot or rounds.json holds was cast.
VotesCast ==
  \A r \in Rounds :
    /\ \A i \in Objects : object[r][i].votes \subseteq supporters[r]
    /\ \A h \in Handlers :
         pc[h] \in RoundsWrites => payload[h][r].votes \subseteq supporters[r]
    /\ ParsedRounds(disk["rounds"])[r].votes \subseteq supporters[r]

\* A handler counts votes against a quorum no lower than the least one.
QuorumsKept ==
  \A h \in Handlers : pc[h] \in {"mkdirVote", "writeVote"} => quorum[h] >= LeastQuorum

\* The rounds that were decided, and what still carries their decision.
Backed(m) == m \in Rounds => Cardinality(supporters[m]) >= LeastQuorum
Decided ==
  /\ \A r \in submitted : Backed(r)
  /\ Backed(model) /\ Backed(disk["model"]) /\ Backed(disk["meta"])
  /\ \A h \in Handlers :
       /\ pc[h] = "commit" => Backed(on[h][1])
       /\ pc[h] \in {"writeMeta", "writeModel"} => Backed(payload[h])

\* From its commitment to its answer, a handler's round is on the chain.
CommittedFirst ==
  /\ FinalizedIsSubmitted
  /\ REQUIRE_ONCHAIN_COMMIT =>
       \A h \in Handlers : pc[h] \in {"writeMeta", "writeModel"} => on[h][1] \in submitted

SafetyInv == KeysKept /\ VotesCast /\ QuorumsKept /\ Decided /\ CommittedFirst

\* A step of one handler leaves the other ones alone.
LEMMA OneHandler ==
  ASSUME TypeInv, NEW h \in Handlers, Progress(h) \/ Request(h),
         NEW k \in Handlers, k # h
  PROVE  pc'[k] = pc[k] /\ on'[k] = on[k] /\ quorum'[k] = quorum[k] /\ payload'[k] = payload[k]
<1> USE DEF Answer, Await, Mkdir, Write
<1> USE TypeParts DEF HandlerTypes, HandlersOK
<1>1. CASE Serialise(h)
  BY <1>1 DEF Serialise, MkdirAwaits
<1>2. CASE Truncate(h) \/ Put(h)
  BY <1>2 DEF Truncate, Put
<1>3. CASE ProposalSaved(h) \/ FinalSaved(h) \/ KeySaved(h)
  BY <1>3 DEF ProposalSaved, FinalSaved, KeySaved
<1>4. CASE VoteSaved(h)
  BY <1>4 DEF VoteSaved
<1>5. ASSUME NEW outcome, Commit(h, outcome)
      PROVE  pc'[k] = pc[k] /\ on'[k] = on[k] /\ quorum'[k] = quorum[k] /\ payload'[k] = payload[k]
  BY <1>5 DEF Commit
<1>6. CASE MetaSaved(h) \/ ModelSaved(h)
  BY <1>6 DEF MetaSaved, ModelSaved
<1>7. ASSUME NEW r \in Rounds, Propose(h, r)
      PROVE  pc'[k] = pc[k] /\ on'[k] = on[k] /\ quorum'[k] = quorum[k] /\ payload'[k] = payload[k]
  BY <1>7, ProposeMoves
<1>8. ASSUME NEW r \in Rounds, NEW key \in Voters, Vote(h, r, key)
      PROVE  pc'[k] = pc[k] /\ on'[k] = on[k] /\ quorum'[k] = quorum[k] /\ payload'[k] = payload[k]
  BY <1>8 DEF Vote
<1>9. ASSUME NEW key \in LateKeys, Register(h, key)
      PROVE  pc'[k] = pc[k] /\ on'[k] = on[k] /\ quorum'[k] = quorum[k] /\ payload'[k] = payload[k]
  BY <1>9 DEF Register
<1> QED
  BY <1>1, <1>2, <1>3, <1>4, <1>5, <1>6, <1>7, <1>8, <1>9 DEF Progress, Request

\* Registered keys, recorded votes and commitments are never taken back; only a
\* restart that cannot read the registry forgets keys.
LEMMA HistoryGrows ==
  ASSUME TypeInv, [Next]_vars
  PROVE  /\ \A r \in Rounds : supporters[r] \subseteq supporters'[r]
         /\ forgotten => forgotten'
         /\ submitted \subseteq submitted'
<1> USE TypeParts DEF OtherTypes
<1>1. CASE UNCHANGED vars
  BY <1>1 DEF vars, world, history
<1>2. CASE CrashAndRestart
  BY <1>2 DEF CrashAndRestart
<1>3. ASSUME NEW h \in Handlers, Progress(h)
      PROVE  UNCHANGED <<supporters, forgotten>> /\ submitted \subseteq submitted'
  <2>1. ASSUME NEW outcome, Commit(h, outcome)
        PROVE  UNCHANGED <<supporters, forgotten>> /\ submitted \subseteq submitted'
    BY <2>1 DEF Commit
  <2> QED
    BY <1>3, <2>1 DEF Progress, Serialise, Truncate, Put, ProposalSaved, VoteSaved, MetaSaved,
       ModelSaved, FinalSaved, KeySaved, world, history
<1>4. ASSUME NEW h \in Handlers, Request(h)
      PROVE  /\ \A r \in Rounds : supporters[r] \subseteq supporters'[r]
             /\ UNCHANGED <<forgotten, submitted>>
  <2>1. ASSUME NEW r \in Rounds, Propose(h, r)
        PROVE  UNCHANGED <<supporters, forgotten, submitted>>
    BY <2>1, ProposeMoves DEF world, history
  <2> QED
    BY <1>4, <2>1 DEF Request, Vote, Register, world, history
<1> QED
  BY <1>1, <1>2, <1>3, <1>4 DEF Next

\* The quorum of a registry grows with it, once it is not empty.
LEMMA QuorumGrows ==
  ASSUME NEW some \in SUBSET Keys, NEW more \in SUBSET Keys, some # {}, some \subseteq more
  PROVE  Quorum(some) <= Quorum(more)
<1>1. IsFiniteSet(some) /\ IsFiniteSet(more)
  BY ConstantsAssumption, FS_Subset
<1>2. /\ Cardinality(some) \in Nat /\ Cardinality(more) \in Nat
      /\ Cardinality(some) <= Cardinality(more)
  BY <1>1, FS_CardinalityType, FS_Subset
<1>3. more # {}
  OBVIOUS
<1> DEFINE share(n) == (n * 66) \div 100
<1>4. \A m, n \in Nat : m <= n => share(m) <= share(n)
  OBVIOUS
<1>5. \A n \in Nat : share(n) \in Nat
  OBVIOUS
<1> HIDE DEF share
<1>6. \A keys : keys # {} => Quorum(keys) = IF VOTE_QUORUM # 0 THEN VOTE_QUORUM
                      ELSE IF share(Cardinality(keys)) > 1 THEN share(Cardinality(keys)) ELSE 1
  BY DEF Quorum, share
<1> QED
  BY <1>2, <1>3, <1>4, <1>5, <1>6, ConstantsAssumption

LEMMA LeastQuorumType == LeastQuorum \in Nat
BY QuorumType, ConstantsAssumption DEF LeastQuorum

LEMMA LeastQuorumFalls ==
  ASSUME forgotten \in BOOLEAN, forgotten => forgotten'
  PROVE  LeastQuorum' \in Nat /\ LeastQuorum' <= LeastQuorum
BY QuorumType, ConstantsAssumption DEF LeastQuorum

\* No registry has a lower quorum.
LEMMA QuorumLeast ==
  ASSUME TypeInv, KeysKept
  PROVE  Quorum(allowedPubkeys) >= LeastQuorum
<1>1. allowedPubkeys \in SUBSET Keys
  BY TypeParts DEF MemoryTypes
<1>2. CASE VOTE_QUORUM # 0
  BY <1>2, ConstantsAssumption DEF Quorum, LeastQuorum
<1>3. CASE VOTE_QUORUM = 0 /\ (InitialKeys = {} \/ forgotten)
  BY <1>1, <1>3, QuorumType DEF LeastQuorum
<1>4. CASE VOTE_QUORUM = 0 /\ InitialKeys # {} /\ ~forgotten
  <2>1. InitialKeys \subseteq allowedPubkeys /\ InitialKeys \in SUBSET Keys
    BY <1>4, ConstantsAssumption DEF KeysKept
  <2>2. Quorum(InitialKeys) <= Quorum(allowedPubkeys)
    BY <1>1, <1>4, <2>1, QuorumGrows
  <2>3. Quorum(InitialKeys) \in Nat /\ Quorum(allowedPubkeys) \in Nat
    BY <1>1, <2>1, QuorumType
  <2> QED
    BY <1>4, <2>2, <2>3 DEF LeastQuorum
<1> QED
  BY <1>2, <1>3, <1>4

\* What a handler's step can do to the registry, its file and what goes there.
LEMMA RegistryMoves ==
  ASSUME TypeInv, NEW h \in Handlers, Progress(h) \/ Request(h)
  PROVE  /\ allowedPubkeys \subseteq allowedPubkeys' /\ forgotten' = forgotten
         /\ pc'[h] = "writeKey" => \/ payload'[h] = allowedPubkeys
                                   \/ pc[h] = "writeKey" /\ payload'[h] = payload[h]
         /\ \/ disk'["registry"] \in {disk["registry"]} \cup Unreadable
            \/ pc[h] = "writeKey" /\ disk'["registry"] = payload[h]
<1> DEFINE Goal ==
      /\ allowedPubkeys \subseteq allowedPubkeys' /\ forgotten' = forgotten
      /\ pc'[h] = "writeKey" => \/ payload'[h] = allowedPubkeys
                                \/ pc[h] = "writeKey" /\ payload'[h] = payload[h]
      /\ \/ disk'["registry"] \in {disk["registry"]} \cup Unreadable
         \/ pc[h] = "writeKey" /\ disk'["registry"] = payload[h]
<1> USE DEF Answer, Await, Mkdir, Write, memory, world, history
<1> USE TypeParts DEF HandlerTypes, HandlersOK
<1>1. CASE Serialise(h)
  BY <1>1 DEF Serialise, MkdirAwaits
<1>2. CASE Truncate(h)
  BY <1>2, FileOfIs DEF Truncate, Unreadable, DiskTypes
<1>3. CASE Put(h)
  <2>1. pc[h] \in WriteAwaits /\ (pc[h] # "writeKey" => FileOf(pc[h]) # "registry")
    BY <1>3, FileOfIs DEF Put, WriteAwaits
  <2>2. PICK content \in {payload[h], Torn} : disk' = [disk EXCEPT ![FileOf(pc[h])] = content]
    BY <1>3 DEF Put
  <2> QED
    BY <1>3, <2>1, <2>2, FileOfIs DEF Put, Unreadable, DiskTypes
<1>4. CASE ProposalSaved(h) \/ FinalSaved(h) \/ KeySaved(h)
  BY <1>4 DEF ProposalSaved, FinalSaved, KeySaved
<1>5. CASE VoteSaved(h)
  BY <1>5 DEF VoteSaved
<1>6. ASSUME NEW outcome, Commit(h, outcome)
      PROVE  Goal
  BY <1>6 DEF Commit
<1>7. CASE MetaSaved(h) \/ ModelSaved(h)
  BY <1>7 DEF MetaSaved, ModelSaved
<1>8. ASSUME NEW r \in Rounds, Propose(h, r)
      PROVE  Goal
  BY <1>8, ProposeMoves
<1>9. ASSUME NEW r \in Rounds, NEW key \in Voters, Vote(h, r, key)
      PROVE  Goal
  BY <1>9 DEF Vote
<1>10. ASSUME NEW key \in LateKeys, Register(h, key)
      PROVE  Goal
  BY <1>10 DEF Register
<1> QED
  BY <1>1, <1>2, <1>3, <1>4, <1>5, <1>6, <1>7, <1>8, <1>9, <1>10 DEF Progress, Request

LEMMA KeysKeptPreserved == TypeInv /\ KeysKept /\ [Next]_vars => KeysKept'
<1> SUFFICES ASSUME TypeInv, KeysKept, [Next]_vars
             PROVE  KeysKept'
  OBVIOUS
<1>1. CASE UNCHANGED vars
  BY <1>1 DEF vars, memory, handlerVars, world, history, KeysKept
<1>2. CASE CrashAndRestart
  <2>1. disk["registry"] \notin Unreadable /\ ~forgotten => allowedPubkeys' = disk["registry"]
    BY <1>2 DEF CrashAndRestart
  <2>2. \A h \in Handlers : pc'[h] # "writeKey"
    BY <1>2 DEF CrashAndRestart
  <2>3. forgotten' = (forgotten \/ disk["registry"] \in Unreadable)
    BY <1>2 DEF CrashAndRestart
  <2> QED
    BY <1>2, <2>1, <2>2, <2>3, Restarted DEF KeysKept
<1>3. ASSUME NEW h \in Handlers, Progress(h) \/ Request(h)
      PROVE  KeysKept'
  <2>1. \A k \in Handlers \ {h} : pc'[k] = pc[k] /\ payload'[k] = payload[k]
    BY <1>3, OneHandler
  <2> QED
    BY <1>3, <2>1, RegistryMoves DEF KeysKept
<1> QED
  BY <1>1, <1>2, <1>3 DEF Next

\* What a handler's step can do to the votes: in the objects, in the snapshots
\* and in rounds.json.
LEMMA RoundsFileMoves ==
  ASSUME TypeInv, NEW h \in Handlers, Progress(h) \/ Request(h)
  PROVE  /\ pc'[h] \in RoundsWrites => \/ payload'[h] = RoundsJSON /\ UNCHANGED <<object, supporters>>
                                       \/ pc[h] \in RoundsWrites /\ payload'[h] = payload[h]
         /\ \/ disk'["rounds"] \in {disk["rounds"]} \cup Unreadable
            \/ pc[h] \in RoundsWrites /\ disk'["rounds"] = payload[h]
<1> DEFINE Goal ==
      /\ pc'[h] \in RoundsWrites => \/ payload'[h] = RoundsJSON /\ UNCHANGED <<object, supporters>>
                                    \/ pc[h] \in RoundsWrites /\ payload'[h] = payload[h]
      /\ \/ disk'["rounds"] \in {disk["rounds"]} \cup Unreadable
         \/ pc[h] \in RoundsWrites /\ disk'["rounds"] = payload[h]
<1> USE DEF Answer, Await, Mkdir, Write, memory, world, history, RoundsWrites
<1> USE TypeParts DEF HandlerTypes, HandlersOK
<1>1. CASE Serialise(h)
  BY <1>1 DEF Serialise, MkdirAwaits
<1>2. CASE Truncate(h)
  BY <1>2, FileOfIs DEF Truncate, Unreadable, DiskTypes
<1>3. CASE Put(h)
  <2>1. pc[h] \in WriteAwaits /\ (pc[h] \notin RoundsWrites => FileOf(pc[h]) # "rounds")
    BY <1>3, FileOfIs DEF Put, WriteAwaits
  <2>2. PICK content \in {payload[h], Torn} : disk' = [disk EXCEPT ![FileOf(pc[h])] = content]
    BY <1>3 DEF Put
  <2> QED
    BY <1>3, <2>1, <2>2, FileOfIs DEF Put, Unreadable, DiskTypes
<1>4. CASE ProposalSaved(h) \/ FinalSaved(h) \/ KeySaved(h)
  BY <1>4 DEF ProposalSaved, FinalSaved, KeySaved
<1>5. CASE VoteSaved(h)
  BY <1>5 DEF VoteSaved
<1>6. ASSUME NEW outcome, Commit(h, outcome)
      PROVE  Goal
  BY <1>6 DEF Commit
<1>7. CASE MetaSaved(h) \/ ModelSaved(h)
  BY <1>7 DEF MetaSaved, ModelSaved
<1>8. ASSUME NEW r \in Rounds, Propose(h, r)
      PROVE  Goal
  BY <1>8, ProposeMoves
<1>9. ASSUME NEW r \in Rounds, NEW key \in Voters, Vote(h, r, key)
      PROVE  Goal
  BY <1>9 DEF Vote
<1>10. ASSUME NEW key \in LateKeys, Register(h, key)
      PROVE  Goal
  BY <1>10 DEF Register
<1> QED
  BY <1>1, <1>2, <1>3, <1>4, <1>5, <1>6, <1>7, <1>8, <1>9, <1>10 DEF Progress, Request

LEMMA ObjectVotes ==
  ASSUME TypeInv, VotesCast, NEW h \in Handlers, Progress(h) \/ Request(h)
  PROVE  \A r \in Rounds, i \in Objects : object'[r][i].votes \subseteq supporters'[r]
<1> USE TypeParts DEF MemoryTypes, Models
<1>1. ASSUME UNCHANGED <<object, supporters>>
      PROVE  \A r \in Rounds, i \in Objects : object'[r][i].votes \subseteq supporters'[r]
  BY <1>1 DEF VotesCast
<1>2. CASE \/ Serialise(h) \/ Truncate(h) \/ Put(h) \/ ProposalSaved(h) \/ VoteSaved(h)
           \/ MetaSaved(h) \/ FinalSaved(h) \/ KeySaved(h)
  BY <1>1, <1>2 DEF Serialise, Truncate, Put, ProposalSaved, VoteSaved, MetaSaved, FinalSaved,
     KeySaved, memory, history
<1>3. ASSUME NEW outcome, Commit(h, outcome)
      PROVE  UNCHANGED <<object, supporters>>
  BY <1>3 DEF Commit, memory
<1>4. CASE ModelSaved(h)
  <2>1. /\ object' = [object EXCEPT ![on[h][1]][on[h][2]].status = "finalized"]
        /\ UNCHANGED supporters
    BY <1>4 DEF ModelSaved, history
  <2>2. \A r \in Rounds, i \in Objects : object'[r][i].votes = object[r][i].votes
    BY <2>1 DEF Proposals
  <2> QED
    BY <2>1, <2>2 DEF VotesCast
<1>5. ASSUME NEW r \in Rounds, Propose(h, r)
      PROVE  \A q \in Rounds, i \in Objects : object'[q][i].votes \subseteq supporters'[q]
  <2>1. PICK n \in Objects : object' = [object EXCEPT ![r][n] = Opened]
    BY <1>5, ProposeMoves
  <2>2. Opened.votes = {} /\ UNCHANGED supporters
    BY <1>5, ProposeMoves DEF Opened, history
  <2>3. \A q \in Rounds, i \in Objects : object'[q][i] \in {object[q][i], Opened}
    BY <2>1
  <2> QED
    BY <2>2, <2>3 DEF VotesCast
<1>6. ASSUME NEW r \in Rounds, NEW key \in Voters, Vote(h, r, key)
      PROVE  \A q \in Rounds, i \in Objects : object'[q][i].votes \subseteq supporters'[q]
  <2>1. rounds[r] \in Objects
    BY <1>6 DEF Vote
  <2>2. object' = [object EXCEPT ![r][rounds[r]].votes = @ \cup {key}]
    BY <1>6 DEF Vote
  <2>3. supporters' = [supporters EXCEPT ![r] = @ \cup {key}]
    BY <1>6 DEF Vote
  <2>4. \A q \in Rounds, i \in Objects :
          object'[q][i].votes \subseteq object[q][i].votes \cup (IF q = r THEN {key} ELSE {})
    BY <2>1, <2>2 DEF Proposals
  <2>5. \A q \in Rounds :
          supporters'[q] = supporters[q] \cup (IF q = r THEN {key} ELSE {})
    BY <2>3 DEF OtherTypes
  <2> QED
    BY <2>4, <2>5 DEF VotesCast
<1>7. ASSUME NEW key \in LateKeys, Register(h, key)
      PROVE  UNCHANGED <<object, supporters>>
  BY <1>7 DEF Register, history
<1> QED
  BY <1>1, <1>2, <1>3, <1>4, <1>5, <1>6, <1>7 DEF Progress, Request

LEMMA VotesCastPreserved == TypeInv /\ VotesCast /\ [Next]_vars => VotesCast'
<1> SUFFICES ASSUME TypeInv, VotesCast, [Next]_vars
             PROVE  VotesCast'
  OBVIOUS
<1>1. CASE UNCHANGED vars
  BY <1>1 DEF vars, memory, handlerVars, world, history, VotesCast
<1>2. CASE CrashAndRestart
  <2>1. /\ object' = [r \in Rounds |-> [Fresh(r) EXCEPT ![1] = ParsedRounds(disk["rounds"])[r]]]
        /\ UNCHANGED supporters
        /\ \A h \in Handlers : pc'[h] = "idle"
    BY <1>2 DEF CrashAndRestart
  <2>2. \A r \in Rounds, i \in Objects :
          object'[r][i] \in {NoRound, ParsedRounds(disk["rounds"])[r]}
    BY <2>1 DEF Fresh
  <2>3. NoRound.votes = {}
    BY DEF NoRound
  <2>4. "idle" \notin RoundsWrites /\ ParsedRounds(disk["rounds"])' = ParsedRounds(disk["rounds"])
    BY <1>2, Restarted DEF RoundsWrites, ParsedRounds
  <2> QED
    BY <2>1, <2>2, <2>3, <2>4 DEF VotesCast
<1>3. ASSUME NEW h \in Handlers, Progress(h) \/ Request(h)
      PROVE  VotesCast'
  <2>1. \A k \in Handlers \ {h} : pc'[k] = pc[k] /\ payload'[k] = payload[k]
    BY <1>3, OneHandler
  <2>2. \A r \in Rounds : supporters[r] \subseteq supporters'[r]
    BY HistoryGrows
  <2>3. \A r \in Rounds, i \in Objects : object'[r][i].votes \subseteq supporters'[r]
    BY <1>3, ObjectVotes
  <2>4. ASSUME NEW r \in Rounds, pc'[h] \in RoundsWrites
        PROVE  payload'[h][r].votes \subseteq supporters'[r]
    <3>1. RoundsJSON[r].votes \subseteq supporters[r]
      BY TypeParts DEF RoundsJSON, VotesCast, MemoryTypes, Current, NoRound
    <3> QED
      BY <1>3, <2>2, <2>4, <3>1, RoundsFileMoves DEF VotesCast
  <2>5. ASSUME NEW r \in Rounds
        PROVE  ParsedRounds(disk["rounds"])'[r].votes \subseteq supporters'[r]
    <3>1. CASE disk'["rounds"] \in {disk["rounds"]}
      BY <2>2, <3>1 DEF ParsedRounds, VotesCast
    <3>2. CASE disk'["rounds"] \in Unreadable
      BY <3>2 DEF ParsedRounds, NoRound
    <3>3. CASE disk'["rounds"] \notin Unreadable /\ pc[h] \in RoundsWrites
               /\ disk'["rounds"] = payload[h]
      BY <2>2, <3>3 DEF ParsedRounds, VotesCast
    <3> QED
      BY <1>3, <3>1, <3>2, <3>3, RoundsFileMoves
  <2> QED
    BY <2>1, <2>2, <2>3, <2>4, <2>5 DEF VotesCast
<1> QED
  BY <1>1, <1>2, <1>3 DEF Next

\* What a handler's step can do to the quorum it counts against.
LEMMA QuorumMoves ==
  ASSUME TypeInv, NEW h \in Handlers, Progress(h) \/ Request(h),
         pc'[h] \in {"mkdirVote", "writeVote"}
  PROVE  \/ pc[h] \in {"mkdirVote", "writeVote"} /\ quorum'[h] = quorum[h]
         \/ quorum'[h] = Quorum(allowedPubkeys)
<1> DEFINE Goal == \/ pc[h] \in {"mkdirVote", "writeVote"} /\ quorum'[h] = quorum[h]
                   \/ quorum'[h] = Quorum(allowedPubkeys)
<1> USE DEF Answer, Await, Mkdir, Write
<1> USE TypeParts DEF HandlerTypes
<1>1. CASE Serialise(h)
  BY <1>1 DEF Serialise, MkdirAwaits
<1>2. CASE Truncate(h) \/ Put(h)
  BY <1>2 DEF Truncate, Put
<1>3. CASE ProposalSaved(h) \/ FinalSaved(h) \/ KeySaved(h)
  BY <1>3 DEF ProposalSaved, FinalSaved, KeySaved
<1>4. CASE VoteSaved(h)
  BY <1>4 DEF VoteSaved
<1>5. ASSUME NEW outcome, Commit(h, outcome)
      PROVE  Goal
  BY <1>5 DEF Commit
<1>6. CASE MetaSaved(h) \/ ModelSaved(h)
  BY <1>6 DEF MetaSaved, ModelSaved
<1>7. ASSUME NEW r \in Rounds, Propose(h, r)
      PROVE  Goal
  BY <1>7, ProposeMoves
<1>8. ASSUME NEW r \in Rounds, NEW key \in Voters, Vote(h, r, key)
      PROVE  Goal
  BY <1>8 DEF Vote
<1>9. ASSUME NEW key \in LateKeys, Register(h, key)
      PROVE  Goal
  BY <1>9 DEF Register
<1> QED
  BY <1>1, <1>2, <1>3, <1>4, <1>5, <1>6, <1>7, <1>8, <1>9 DEF Progress, Request

LEMMA QuorumsKeptPreserved == TypeInv /\ KeysKept /\ QuorumsKept /\ [Next]_vars => QuorumsKept'
<1> SUFFICES ASSUME TypeInv, KeysKept, QuorumsKept, [Next]_vars
             PROVE  QuorumsKept'
  OBVIOUS
<1>1. LeastQuorum \in Nat /\ LeastQuorum' \in Nat /\ LeastQuorum' <= LeastQuorum
  BY TypeParts, HistoryGrows, LeastQuorumType, LeastQuorumFalls DEF OtherTypes
<1>2. CASE UNCHANGED vars
  BY <1>1, <1>2, TypeParts DEF vars, handlerVars, QuorumsKept, HandlerTypes
<1>3. CASE CrashAndRestart
  BY <1>3 DEF CrashAndRestart, QuorumsKept
<1>4. ASSUME NEW h \in Handlers, Progress(h) \/ Request(h)
      PROVE  QuorumsKept'
  <2>1. \A k \in Handlers \ {h} : pc'[k] = pc[k] /\ quorum'[k] = quorum[k]
    BY <1>4, OneHandler
  <2>2. \A k \in Handlers : quorum[k] \in Nat
    BY TypeParts DEF HandlerTypes
  <2>3. Quorum(allowedPubkeys) \in Nat /\ Quorum(allowedPubkeys) >= LeastQuorum
    BY TypeParts, QuorumType, QuorumLeast DEF MemoryTypes
  <2>4. ASSUME pc'[h] \in {"mkdirVote", "writeVote"}
        PROVE  quorum'[h] >= LeastQuorum'
    BY <1>1, <1>4, <2>2, <2>3, <2>4, QuorumMoves DEF QuorumsKept
  <2>5. ASSUME NEW k \in Handlers \ {h}, pc'[k] \in {"mkdirVote", "writeVote"}
        PROVE  quorum'[k] >= LeastQuorum'
    <3>1. quorum[k] >= LeastQuorum
      BY <2>1, <2>5 DEF QuorumsKept
    <3> QED
      BY <1>1, <2>1, <2>2, <2>5, <3>1
  <2> QED
    BY <2>4, <2>5 DEF QuorumsKept
<1> QED
  BY <1>2, <1>3, <1>4 DEF Next

\* Once a round has its quorum it keeps it.
LEMMA BackedStays ==
  ASSUME TypeInv, TypeInv', [Next]_vars, NEW m, Backed(m)
  PROVE  Backed(m)'
<1> SUFFICES ASSUME m \in Rounds
             PROVE  Cardinality(supporters'[m]) >= LeastQuorum'
  BY DEF Backed
<1>1. supporters[m] \subseteq supporters'[m]
  BY HistoryGrows
<1>2. supporters'[m] \in SUBSET Keys
  BY TypePartsPrimed DEF OtherTypes
<1>3. IsFiniteSet(supporters'[m])
  BY <1>2, ConstantsAssumption, FS_Subset
<1>4. /\ Cardinality(supporters[m]) \in Nat /\ Cardinality(supporters'[m]) \in Nat
      /\ Cardinality(supporters[m]) <= Cardinality(supporters'[m])
  BY <1>1, <1>3, FS_Subset, FS_CardinalityType
<1>5. LeastQuorum \in Nat /\ LeastQuorum' \in Nat /\ LeastQuorum' <= LeastQuorum
  BY TypeParts, HistoryGrows, LeastQuorumType, LeastQuorumFalls DEF OtherTypes
<1>6. Cardinality(supporters[m]) >= LeastQuorum
  BY DEF Backed
<1> QED
  BY <1>4, <1>5, <1>6

\* The default model needs no quorum, and is not a round; nor is what an
\* interrupted write leaves.
LEMMA NoRoundBacked == Backed(Default) /\ \A content \in Unreadable : Backed(content)
BY ConstantsAssumption DEF Backed

\* A handler goes on to commit when the votes it counts reach its quorum.
LEMMA CountedIsBacked ==
  ASSUME TypeInv, VotesCast, QuorumsKept, NEW h \in Handlers, Written(h, "writeVote"),
         Enough(Proposal(h).votes, quorum[h])
  PROVE  Backed(on[h][1])
<1> DEFINE r == on[h][1]
<1>1. r \in Rounds /\ on[h][2] \in Objects /\ Proposal(h) = object[r][on[h][2]]
      /\ Proposal(h) \in Proposals
  BY TypeParts, ProposalType DEF Written, RoundAwaits, RoundsWrites, Proposal
<1>2. Proposal(h).votes \subseteq supporters[r] /\ supporters[r] \in SUBSET Keys
  BY <1>1, TypeParts DEF VotesCast, OtherTypes
<1>3. IsFiniteSet(supporters[r])
  BY <1>2, ConstantsAssumption, FS_Subset
<1>4. /\ Cardinality(Proposal(h).votes) \in Nat /\ Cardinality(supporters[r]) \in Nat
      /\ Cardinality(Proposal(h).votes) <= Cardinality(supporters[r])
  BY <1>2, <1>3, FS_Subset, FS_CardinalityType
<1>5. quorum[h] \in Nat /\ quorum[h] >= LeastQuorum /\ LeastQuorum \in Nat
  BY TypeParts, LeastQuorumType DEF QuorumsKept, Written, HandlerTypes
<1> QED
  BY <1>4, <1>5 DEF Backed, Enough

\* What a step can make of the model, of its files and of the chain: nothing but
\* what was backed before it.
LEMMA DecisionMoves ==
  ASSUME TypeInv, VotesCast, QuorumsKept, Decided, NEW h \in Handlers, Progress(h) \/ Request(h)
  PROVE  /\ \A r \in submitted' : Backed(r)
         /\ Backed(model') /\ Backed(disk'["model"]) /\ Backed(disk'["meta"])
         /\ pc'[h] = "commit" => Backed(on'[h][1])
         /\ pc'[h] \in {"writeMeta", "writeModel"} => Backed(payload'[h])
<1> DEFINE Goal ==
      /\ \A r \in submitted' : Backed(r)
      /\ Backed(model') /\ Backed(disk'["model"]) /\ Backed(disk'["meta"])
      /\ pc'[h] = "commit" => Backed(on'[h][1])
      /\ pc'[h] \in {"writeMeta", "writeModel"} => Backed(payload'[h])
<1> USE DEF Answer, Await, Mkdir, Write, memory, world, history
<1> USE TypeParts DEF HandlerTypes, HandlersOK
<1>1. CASE Serialise(h)
  BY <1>1 DEF Serialise, MkdirAwaits, Decided
<1>2. CASE Truncate(h)
  BY <1>2, FileOfIs, NoRoundBacked DEF Truncate, Unreadable, DiskTypes, Decided
<1>3. CASE Put(h)
  <2>1. /\ pc[h] \in WriteAwaits
        /\ pc[h] # "writeMeta" => FileOf(pc[h]) # "meta"
        /\ pc[h] # "writeModel" => FileOf(pc[h]) # "model"
    BY <1>3, FileOfIs DEF Put, WriteAwaits
  <2>2. PICK content \in {payload[h], Torn} : disk' = [disk EXCEPT ![FileOf(pc[h])] = content]
    BY <1>3 DEF Put
  <2>3. Backed(Torn)
    BY NoRoundBacked DEF Unreadable
  <2>4. Backed(disk'["model"])
    BY <2>1, <2>2, <2>3, FileOfIs DEF DiskTypes, Decided
  <2>5. Backed(disk'["meta"])
    BY <2>1, <2>2, <2>3, FileOfIs DEF DiskTypes, Decided
  <2> QED
    BY <1>3, <2>4, <2>5 DEF Put, Decided
<1>4. CASE ProposalSaved(h) \/ FinalSaved(h) \/ KeySaved(h)
  BY <1>4 DEF ProposalSaved, FinalSaved, KeySaved, Decided
<1>5. CASE VoteSaved(h)
  <2>1. CASE Enough(Proposal(h).votes, quorum[h])
    <3>1. Backed(on[h][1])
      BY <1>5, <2>1, CountedIsBacked DEF VoteSaved
    <3> QED
      BY <1>5, <2>1, <3>1 DEF VoteSaved, Decided
  <2>2. CASE ~Enough(Proposal(h).votes, quorum[h])
    BY <1>5, <2>2 DEF VoteSaved, Decided
  <2> QED
    BY <2>1, <2>2
<1>6. ASSUME NEW outcome, Commit(h, outcome)
      PROVE  Goal
  <2>1. Backed(on[h][1])
    BY <1>6 DEF Commit, Decided
  <2>2. \A r \in submitted' : Backed(r)
    BY <1>6, <2>1 DEF Commit, Decided
  <2> QED
    BY <1>6, <2>1, <2>2 DEF Commit, Decided
<1>7. CASE MetaSaved(h) \/ ModelSaved(h)
  BY <1>7 DEF MetaSaved, ModelSaved, Decided
<1>8. ASSUME NEW r \in Rounds, Propose(h, r)
      PROVE  Goal
  BY <1>8, ProposeMoves DEF Decided
<1>9. ASSUME NEW r \in Rounds, NEW key \in Voters, Vote(h, r, key)
      PROVE  Goal
  BY <1>9 DEF Vote, Decided
<1>10. ASSUME NEW key \in LateKeys, Register(h, key)
      PROVE  Goal
  BY <1>10 DEF Register, Decided
<1> QED
  BY <1>1, <1>2, <1>3, <1>4, <1>5, <1>6, <1>7, <1>8, <1>9, <1>10 DEF Progress, Request

LEMMA DecidedPreserved ==
  TypeInv /\ TypeInv' /\ VotesCast /\ QuorumsKept /\ Decided /\ [Next]_vars => Decided'
<1> SUFFICES ASSUME TypeInv, TypeInv', VotesCast, QuorumsKept, Decided, [Next]_vars
             PROVE  Decided'
  OBVIOUS
<1>1. \A m : Backed(m) => Backed(m)'
  BY BackedStays
<1>2. CASE UNCHANGED vars
  BY <1>2 DEF vars, memory, handlerVars, world, history, Decided, Backed, LeastQuorum
<1>3. CASE CrashAndRestart
  <2>1. /\ \A h \in Handlers : pc'[h] = "idle"
        /\ submitted' = submitted /\ model' = ParsedModel(disk["model"])
    BY <1>3 DEF CrashAndRestart
  <2>2. Backed(model') /\ Backed(disk'["meta"]) /\ disk'["model"] = model'
    BY <1>3, <2>1, Restarted, NoRoundBacked DEF ParsedModel, Decided
  <2>3. /\ \A r \in submitted' : Backed(r)'
        /\ Backed(model)' /\ Backed(disk["model"])' /\ Backed(disk["meta"])'
    BY <1>1, <2>1, <2>2 DEF Decided, Backed
  <2> QED
    BY <2>1, <2>3 DEF Decided
<1>4. ASSUME NEW h \in Handlers, Progress(h) \/ Request(h)
      PROVE  Decided'
  <2>1. \A k \in Handlers \ {h} : pc'[k] = pc[k] /\ on'[k] = on[k] /\ payload'[k] = payload[k]
    BY <1>4, OneHandler
  <2>2. /\ \A r \in submitted' : Backed(r)
        /\ Backed(model') /\ Backed(disk'["model"]) /\ Backed(disk'["meta"])
        /\ \A k \in Handlers :
             /\ pc'[k] = "commit" => Backed(on'[k][1])
             /\ pc'[k] \in {"writeMeta", "writeModel"} => Backed(payload'[k])
    BY <1>4, <2>1, DecisionMoves DEF Decided
  <2> QED
    BY <1>1, <2>2 DEF Decided, Backed
<1> QED
  BY <1>2, <1>3, <1>4 DEF Next

\* What a handler's step can do to a status, and to the round it has committed.
LEMMA StatusMoves ==
  ASSUME TypeInv, CommittedFirst, REQUIRE_ONCHAIN_COMMIT,
         NEW h \in Handlers, Progress(h) \/ Request(h)
  PROVE  /\ \A r \in Rounds, i \in Objects :
              object'[r][i].status = "finalized" => r \in submitted'
         /\ pc'[h] \in {"writeMeta", "writeModel"} => on'[h][1] \in submitted'
<1> DEFINE Goal ==
      /\ \A r \in Rounds, i \in Objects :
           object'[r][i].status = "finalized" => r \in submitted'
      /\ pc'[h] \in {"writeMeta", "writeModel"} => on'[h][1] \in submitted'
<1> USE DEF Answer, Await, Mkdir, Write, memory, world, history
<1> USE TypeParts DEF HandlerTypes, MemoryTypes, CommittedFirst, FinalizedIsSubmitted
<1>1. CASE Serialise(h)
  BY <1>1 DEF Serialise, MkdirAwaits
<1>2. CASE Truncate(h) \/ Put(h)
  BY <1>2 DEF Truncate, Put
<1>3. CASE ProposalSaved(h) \/ FinalSaved(h) \/ KeySaved(h)
  BY <1>3 DEF ProposalSaved, FinalSaved, KeySaved
<1>4. CASE VoteSaved(h)
  BY <1>4 DEF VoteSaved
<1>5. ASSUME NEW outcome, Commit(h, outcome)
      PROVE  Goal
  <2>1. UNCHANGED object /\ submitted \subseteq submitted'
    BY <1>5 DEF Commit
  <2>2. CASE MustRefuse(outcome)
    BY <1>5, <2>1, <2>2 DEF Commit
  <2>3. CASE ~MustRefuse(outcome)
    <3>1. on'[h] = on[h] /\ on[h][1] \in submitted'
      BY <1>5, <2>3 DEF Commit, MustRefuse
    <3> QED
      BY <2>1, <3>1
  <2> QED
    BY <2>2, <2>3
<1>6. CASE MetaSaved(h)
  BY <1>6 DEF MetaSaved, Written
<1>7. CASE ModelSaved(h)
  <2>1. on[h][1] \in submitted /\ submitted' = submitted
    BY <1>7 DEF ModelSaved, Written
  <2>2. object' = [object EXCEPT ![on[h][1]][on[h][2]].status = "finalized"]
    BY <1>7 DEF ModelSaved
  <2>3. \A r \in Rounds, i \in Objects : r # on[h][1] => object'[r][i] = object[r][i]
    BY <2>2
  <2>4. pc'[h] = "mkdirFinal"
    BY <1>7 DEF ModelSaved
  <2> QED
    BY <2>1, <2>3, <2>4
<1>8. ASSUME NEW r \in Rounds, Propose(h, r)
      PROVE  Goal
  <2>1. PICK n \in Objects : object' = [object EXCEPT ![r][n] = Opened]
    BY <1>8, ProposeMoves
  <2>2. Opened.status = "open" /\ submitted' = submitted /\ pc'[h] = "mkdirProposal"
    BY <1>8, ProposeMoves DEF Opened
  <2>3. \A q \in Rounds, i \in Objects : object'[q][i] \in {object[q][i], Opened}
    BY <2>1
  <2> QED
    BY <2>2, <2>3
<1>9. ASSUME NEW r \in Rounds, NEW key \in Voters, Vote(h, r, key)
      PROVE  Goal
  <2>1. rounds[r] \in Objects
    BY <1>9 DEF Vote
  <2>2. object' = [object EXCEPT ![r][rounds[r]].votes = @ \cup {key}]
    BY <1>9 DEF Vote
  <2>3. submitted' = submitted /\ pc'[h] = "mkdirVote"
    BY <1>9 DEF Vote
  <2>4. \A q \in Rounds, i \in Objects : object'[q][i].status = object[q][i].status
    BY <2>1, <2>2 DEF Proposals
  <2> QED
    BY <2>3, <2>4
<1>10. ASSUME NEW key \in LateKeys, Register(h, key)
      PROVE  Goal
  BY <1>10 DEF Register
<1> QED
  BY <1>1, <1>2, <1>3, <1>4, <1>5, <1>6, <1>7, <1>8, <1>9, <1>10 DEF Progress, Request

LEMMA CommittedFirstPreserved == TypeInv /\ CommittedFirst /\ [Next]_vars => CommittedFirst'
<1> SUFFICES ASSUME TypeInv, CommittedFirst, [Next]_vars, REQUIRE_ONCHAIN_COMMIT
             PROVE  CommittedFirst'
  BY DEF CommittedFirst, FinalizedIsSubmitted
<1> USE DEF CommittedFirst, FinalizedIsSubmitted
<1>1. CASE UNCHANGED vars
  BY <1>1 DEF vars, memory, handlerVars, world, history, FinalizedIn, ParsedRounds
<1>2. CASE CrashAndRestart
  <2>1. /\ object' = [r \in Rounds |-> [Fresh(r) EXCEPT ![1] = ParsedRounds(disk["rounds"])[r]]]
        /\ submitted' = submitted
        /\ \A h \in Handlers : pc'[h] = "idle"
    BY <1>2 DEF CrashAndRestart
  <2>2. \A r \in Rounds, i \in Objects :
          object'[r][i] \in {NoRound, ParsedRounds(disk["rounds"])[r]}
    BY <2>1 DEF Fresh
  <2>3. NoRound.status # "finalized"
    BY DEF NoRound
  <2>4. "idle" \notin RoundsWrites /\ ParsedRounds(disk["rounds"])' = ParsedRounds(disk["rounds"])
    BY <1>2, Restarted DEF RoundsWrites, ParsedRounds
  <2> QED
    BY <2>1, <2>2, <2>3, <2>4 DEF FinalizedIn
<1>3. ASSUME NEW h \in Handlers, Progress(h) \/ Request(h)
      PROVE  CommittedFirst'
  <2>1. \A k \in Handlers \ {h} : pc'[k] = pc[k] /\ on'[k] = on[k] /\ payload'[k] = payload[k]
    BY <1>3, OneHandler
  <2>2. submitted \subseteq submitted'
    BY HistoryGrows
  <2>3. ASSUME pc'[h] \in RoundsWrites
        PROVE  FinalizedIn(payload'[h]) \subseteq submitted'
    <3>1. FinalizedIn(RoundsJSON) \subseteq submitted
      BY TypeParts DEF RoundsJSON, MemoryTypes, Current, NoRound, FinalizedIn
    <3> QED
      BY <1>3, <2>2, <2>3, <3>1, RoundsFileMoves
  <2>4. FinalizedIn(ParsedRounds(disk["rounds"])') \subseteq submitted'
    <3>1. CASE disk'["rounds"] \in {disk["rounds"]}
      BY <2>2, <3>1 DEF ParsedRounds
    <3>2. CASE disk'["rounds"] \in Unreadable
      BY <3>2 DEF ParsedRounds, NoRound, FinalizedIn
    <3>3. CASE disk'["rounds"] \notin Unreadable /\ pc[h] \in RoundsWrites
               /\ disk'["rounds"] = payload[h]
      BY <2>2, <3>3 DEF ParsedRounds
    <3> QED
      BY <1>3, <3>1, <3>2, <3>3, RoundsFileMoves
  <2> QED
    BY <1>3, <2>1, <2>2, <2>3, <2>4, StatusMoves DEF FinalizedIn
<1> QED
  BY <1>1, <1>2, <1>3 DEF Next

LEMMA SafeInitially == Init => SafetyInv
<1> SUFFICES ASSUME Init
             PROVE  SafetyInv
  OBVIOUS
<1>1. \A h \in Handlers : pc[h] = "idle" /\ pc[h] \notin RoundsWrites
  BY DEF Init, RoundsWrites
<1>2. /\ disk["rounds"] = [r \in Rounds |-> NoRound] /\ disk["registry"] = InitialKeys
      /\ disk["model"] = Default /\ disk["meta"] = Default
  BY DEF Init, Files
<1>3. \A r \in Rounds : ParsedRounds(disk["rounds"])[r] = NoRound
  BY <1>2 DEF ParsedRounds
<1>4. KeysKept /\ QuorumsKept
  BY <1>1, <1>2 DEF Init, KeysKept, QuorumsKept
<1>5. /\ \A r \in Rounds, i \in Objects : object[r][i] = NoRound
      /\ NoRound.votes = {} /\ NoRound.status # "finalized"
  BY DEF Init, Fresh, NoRound
<1>6. VotesCast
  BY <1>1, <1>3, <1>5 DEF VotesCast
<1>7. Decided
  BY <1>1, <1>2, NoRoundBacked DEF Init, Decided
<1>8. CommittedFirst
  BY <1>1, <1>3, <1>5 DEF CommittedFirst, FinalizedIsSubmitted, FinalizedIn
<1> QED
  BY <1>4, <1>6, <1>7, <1>8 DEF SafetyInv

LEMMA SafetyHolds == Init /\ [][Next]_vars => [](TypeInv /\ SafetyInv)
<1>1. Init => TypeInv /\ SafetyInv
  BY TypesInitially, SafeInitially
<1>2. TypeInv /\ SafetyInv /\ [Next]_vars => (TypeInv /\ SafetyInv)'
  BY TypesPreserved, KeysKeptPreserved, VotesCastPreserved, QuorumsKeptPreserved,
     DecidedPreserved, CommittedFirstPreserved DEF SafetyInv
<1> QED
  BY <1>1, <1>2, PTL

\* A round whose model is in memory, in a file or on the chain was voted for by
\* a quorum of distinct keys: handlers that interleave at their awaits, writes
\* that overlap and crashes between any two steps never let fewer suffice.
THEOREM QuorumCorrect == Spec => []QuorumBehindModel
<1>1. TypeInv /\ SafetyInv => QuorumBehindModel
  BY TypeParts DEF OtherTypes, SafetyInv, Decided, Backed, QuorumBehindModel
<1> QED
  BY <1>1, SafetyHolds, PTL DEF Spec

\* Nothing says that a round is finalized before its commitment is on the chain,
\* when that is required: neither an object, nor a snapshot, nor rounds.json.
THEOREM CommitmentFirst == Spec => []FinalizedIsSubmitted
<1>1. SafetyInv => FinalizedIsSubmitted
  BY DEF SafetyInv, CommittedFirst
<1> QED
  BY <1>1, SafetyHolds, PTL DEF Spec

=============================================================================
