---------------------------- MODULE UpdateBuffer ----------------------------
(***************************************************************************)
(* POST /updates of agents/aggregator/server.js: signed updates are        *)
(* buffered, and the handler whose update fills the buffer makes a round of*)
(* all of them, saves the rounds, and only then empties the buffer. The    *)
(* cache of proofs that were seen (of /propose and /vote, too) is bounded: *)
(* when it overflows the older ones are forgotten.                         *)
(*                                                                         *)
(* Node runs one handler at a time; a handler gives way where it awaits the*)
(* saving of the rounds.                                                   *)
(***************************************************************************)
EXTENDS Integers, Sequences, FiniteSets

CONSTANTS
  Handlers,         \* requests in progress at one time
  Updates,          \* signed requests to /updates
  Proofs,           \* signed requests to /propose and /vote
  AGG_COUNT, SEEN_CACHE_LIMIT,     \* environment
  MaxMarks          \* bound: proofs accepted

Requests == Updates \cup Proofs
Marks == 1 .. MaxMarks

ASSUME ConstantsAssumption ==
  /\ IsFiniteSet(Handlers)
  /\ Updates \cap Proofs = {}
  /\ AGG_COUNT \in Nat \ {0} /\ SEEN_CACHE_LIMIT \in Nat \ {0}
  /\ MaxMarks \in Nat

VARIABLES
  updates,          \* the buffer: which acceptances its updates come from
  seen,             \* the cache, oldest first
  stale,            \* requests whose timestamp has left the time to live
  pc,               \* per handler: idle, or saving the round it made
  marks,            \* history: how many proofs were accepted
  lastMark,         \* history: when each request was last accepted, or 0
  buffered,         \* history: acceptances that were of updates
  inRounds,         \* history: in how many rounds each acceptance ended up
  overlapped        \* history: two handlers were saving at the same time

bufferVars == <<updates, pc>>
history == <<marks, lastMark, buffered, inRounds, overlapped>>
vars == <<bufferVars, seen, stale, history>>

Elements(s) == {s[i] : i \in 1 .. Len(s)}
Saving == {h \in Handlers : pc[h] = "saving"}

Init ==
  /\ updates = <<>>
  /\ seen = <<>>
  /\ stale = {}
  /\ pc = [h \in Handlers |-> "idle"]
  /\ marks = 0
  /\ lastMark = [q \in Requests |-> 0]
  /\ buffered = {}
  /\ inRounds = [m \in Marks |-> 0]
  /\ overlapped = FALSE

-----------------------------------------------------------------------------
\* Mutant: the cache keeps its oldest entries.
KeepOldest(s) == SubSeq(s, 1, SEEN_CACHE_LIMIT \div 2)

\* slice(-floor(limit / 2)), which is the whole array when that is slice(-0).
Kept(s) ==
  LET keep == SEEN_CACHE_LIMIT \div 2
  IN IF keep = 0 THEN s ELSE SubSeq(s, Len(s) - keep + 1, Len(s))

\* Mutant: the cache overflows one entry late.
OverflowsLate(size) == size > SEEN_CACHE_LIMIT + 1
Overflows(size) == size > SEEN_CACHE_LIMIT

\* Freshness, replay and signature checks, and markSeen: not interrupted.
MarkSeen(q) ==
  LET added == Append(seen, q)
  IN
  /\ marks < MaxMarks
  /\ q \notin stale
  /\ q \notin Elements(seen)
  /\ seen' = IF Overflows(Len(added)) THEN Kept(added) ELSE added
  /\ marks' = marks + 1
  /\ lastMark' = [lastMark EXCEPT ![q] = marks']

\* Mutant: the buffer is full one update late.
FullLate(count) == count > AGG_COUNT
Full(count) == count >= AGG_COUNT

Update(h, q) ==
  LET buffer == Append(updates, marks')
  IN
  /\ pc[h] = "idle"
  /\ MarkSeen(q)
  /\ updates' = buffer
  /\ buffered' = buffered \cup {marks'}
  /\ IF Full(Len(buffer))
       THEN /\ pc' = [pc EXCEPT ![h] = "saving"]
            /\ inRounds' = [m \in Marks |->
                 IF m \in Elements(buffer) THEN inRounds[m] + 1 ELSE inRounds[m]]
            /\ overlapped' = (overlapped \/ Saving # {})
       ELSE UNCHANGED <<pc, inRounds, overlapped>>
  /\ UNCHANGED stale

\* Mutant: the buffer is not emptied.
Unemptied == updates
AfterSaving == <<>>

RoundsSaved(h) ==
  /\ pc[h] = "saving"
  /\ pc' = [pc EXCEPT ![h] = "idle"]
  /\ updates' = AfterSaving
  /\ UNCHANGED <<seen, stale, history>>

\* /propose and /vote use the same cache.
ProposeOrVote(q) ==
  /\ MarkSeen(q)
  /\ UNCHANGED <<bufferVars, stale, buffered, inRounds, overlapped>>

Expire(q) ==
  /\ q \notin stale
  /\ stale' = stale \cup {q}
  /\ UNCHANGED <<bufferVars, seen, history>>

Next ==
  \/ \E h \in Handlers :
       \/ \E q \in Updates : Update(h, q)
       \/ RoundsSaved(h)
  \/ \E q \in Proofs : ProposeOrVote(q)
  \/ \E q \in Requests : Expire(q)

Spec == Init /\ [][Next]_vars

-----------------------------------------------------------------------------
\* The types. The cache is bounded unless its limit is 1, of which no half can
\* be kept: then slice(-0) keeps everything.
TypeOK ==
  /\ updates \in Seq(Marks)
  /\ seen \in Seq(Requests)
  /\ SEEN_CACHE_LIMIT > 1 => Len(seen) <= SEEN_CACHE_LIMIT
  /\ stale \subseteq Requests
  /\ pc \in [Handlers -> {"idle", "saving"}]
  /\ marks \in 0 .. MaxMarks
  /\ lastMark \in [Requests -> 0 .. marks]
  /\ buffered \subseteq 1 .. marks
  /\ inRounds \in [Marks -> Nat]
  /\ overlapped \in BOOLEAN

\* The buffer never holds more than one update less than a round needs and one
\* for each handler that is saving a round, however handlers overlap: it does
\* not grow without bound.
BufferBounded == Len(updates) < AGG_COUNT + Cardinality(Saving)

\* As long as no two handlers save at the same time, every update that was
\* accepted is in exactly one round or still in the buffer: none is lost and
\* none counts twice.
ExactlyOnceUnlessOverlapped ==
  ~overlapped =>
    \A m \in buffered :
      inRounds[m] = 1 \/ (inRounds[m] = 0 /\ m \in Elements(updates))

\* A proof is accepted again only after at least half of what the cache can
\* hold was accepted since: not before, whatever the mix of requests.
ReplayNeedsEviction ==
  [][\A q \in Requests :
       lastMark'[q] # lastMark[q] /\ lastMark[q] # 0
         => lastMark'[q] - lastMark[q] > SEEN_CACHE_LIMIT \div 2]_vars

\* README.md of the aggregator: /updates "buffers updates and aggregates when
\* buffer size reaches AGGREGATE_COUNT": an update that was accepted is in the
\* buffer or in a round. The code does not keep that: a handler that resumes
\* from saving also throws away what was buffered after an earlier handler
\* emptied the buffer.
NoUpdateLost ==
  \A m \in buffered : m \in Elements(updates) \/ inRounds[m] > 0

=============================================================================
