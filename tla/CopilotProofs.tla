---------------------------- MODULE CopilotProofs ----------------------------
(***************************************************************************)
(* Proofs about Copilot, for any number of cards, retries and handlers left *)
(* over, any length of the queue, and any cards urgent or gated.            *)
(***************************************************************************)
EXTENDS Copilot, SumTheorems, SequenceTheorems

Slot == {Hole} \cup [id : Cards, status : Statuses]
RunRecord ==
  [phase : {"idle", "next", "executing", "posting"}, paused : BOOLEAN,
   cancelRequested : BOOLEAN, stopOnFailure : BOOLEAN, todo : Seq(Cards)]
Bridge ==
  [queue : Seq(Slot), executions : SUBSET Executions, run : RunRecord,
   activeAbort : SUBSET Executions, stored : Seq(Slot)]

\* At most one execution is the run's, and there is one while the run executes;
\* the abort handle is that of one request that is waited for; an execution that
\* backs off has a retry left.
RunsOne(b) ==
  /\ b.run.phase = "executing" <=> \E e \in b.executions : e.by = "run"
  /\ \A e, f \in b.executions : e.by = "run" /\ f.by = "run" => e = f
AbortsOne(b) ==
  /\ \A e \in b.activeAbort : e \in b.executions /\ e.phase = "waiting"
  /\ \A e, f \in b.activeAbort : e = f
RetriesLeft(b) == \A e \in b.executions : e.phase = "backoff" => e.attempt < MaxRetries
WellFormed(b) ==
  b \in Bridge /\ IsFiniteSet(b.executions) /\ RunsOne(b) /\ AbortsOne(b) /\ RetriesLeft(b)

\* A queue of cards created so far, none of them twice.
Proper(q, n) ==
  /\ \A i \in DOMAIN q : q[i].id \in 1 .. n
  /\ \A i, j \in DOMAIN q : q[i].id = q[j].id => i = j

\* The cards marked running are those being executed, each by one execution.
Indexed(b) ==
  /\ \A e \in b.executions :
       e.index \in DOMAIN b.queue /\ b.queue[e.index] = [id |-> e.card, status |-> "running"]
  /\ \A e, f \in b.executions : e.card = f.card => e = f
  /\ \A i \in DOMAIN b.queue :
       b.queue[i].status = "running" => \E e \in b.executions : e.card = b.queue[i].id

\* What the run has yet to execute, nobody executes.
Pending(b) ==
  b.run.phase \in {"next", "executing"} =>
    /\ \A i, j \in DOMAIN b.run.todo : b.run.todo[i] = b.run.todo[j] => i = j
    /\ \A i \in DOMAIN b.run.todo, e \in b.executions : b.run.todo[i] # e.card

Aligned(b, n) == Proper(b.queue, n) /\ Proper(b.stored, n) /\ Indexed(b) /\ Pending(b)

\* One handler is at work for each request that is waited for, but for the
\* cards of which a request was given up.
Waited(b, c) == \E e \in b.executions : e.card = c /\ e.phase = "waiting"
Handled ==
  \A c \in Cards \ gaveUp : handlers[c] = IF Waited(bridge, c) THEN 1 ELSE 0

OtherTypes ==
  /\ planned \in 0 .. NumCards /\ preflightOk \in BOOLEAN
  /\ handlers \in [Cards -> Nat] /\ gaveUp \subseteq Cards /\ displaced \in BOOLEAN

Inv ==
  /\ WellFormed(bridge) /\ OtherTypes
  /\ ~displaced => Aligned(bridge, planned) /\ Handled

-----------------------------------------------------------------------------
(* Positions, filtered and sorted queues.                                   *)

LEMMA CopilotConstants ==
  NumCards \in Nat /\ QueueLimit \in Nat /\ MaxRetries \in Nat /\ Cards \subseteq Nat \ {0}
BY ConstantsAssumption DEF Cards

LEMMA SlotParts ==
  ASSUME NEW card \in Slot
  PROVE  /\ card.id \in 0 .. NumCards
         /\ card.id = 0 => card = Hole
         /\ card.id \in Cards => card.status \in Statuses
BY CopilotConstants DEF Slot, Hole, NoCard, Cards

\* The least of a set of natural numbers.
LEMMA LeastOf ==
  ASSUME NEW I \in SUBSET Nat, I # {}
  PROVE  Min(I) \in I /\ \A j \in I : Min(I) <= j
<1>1. PICK i \in I : \A k \in I : <<k, i>> \notin OpToRel(<, Nat)
  BY NatLessThanWellFounded, WFMin
<1>2. ASSUME NEW j \in I
      PROVE  i <= j
  <2>1. j < i => <<j, i>> \in OpToRel(<, Nat)
    BY DEF OpToRel
  <2>2. ~(j < i)
    BY <1>1, <2>1
  <2> QED
    BY <2>2
<1> QED
  BY <1>2 DEF Min

LEMMA Found ==
  ASSUME NEW q \in Seq(Slot), NEW c
  PROVE  FindIndex(q, c) = 0 \/ (FindIndex(q, c) \in DOMAIN q /\ q[FindIndex(q, c)].id = c)
<1> DEFINE found == {i \in DOMAIN q : q[i].id \in {c, NoCard}}
<1>1. found \in SUBSET Nat
  OBVIOUS
<1> HIDE DEF found
<1>2. found # {} => Min(found) \in found
  BY <1>1, LeastOf
<1>3. FindIndex(q, c) = IF found # {} /\ q[Min(found)].id = c THEN Min(found) ELSE 0
  BY DEF FindIndex, found
<1>4. found \subseteq DOMAIN q
  BY DEF found
<1> QED
  BY <1>2, <1>3, <1>4

\* A filtered queue has cards of the queue of these statuses, each once if the
\* queue has it once.
LEMMA FilteredCards ==
  ASSUME NEW q \in Seq(Slot), NEW statuses
  PROVE  /\ Filtered(q, statuses) \in Seq(Slot)
         /\ \A i \in DOMAIN Filtered(q, statuses) :
              \E j \in DOMAIN q : /\ Filtered(q, statuses)[i] = q[j]
                                  /\ q[j].status \in statuses
         /\ \A n : Proper(q, n) => Proper(Filtered(q, statuses), n)
<1> DEFINE n == Len(q)
           Value(f, i) == IF i = 0 THEN <<>>
                          ELSE IF q[i].status \in statuses THEN Append(f[i - 1], q[i])
                          ELSE f[i - 1]
           Defined(f) == f = [i \in 0 .. n |-> Value(f, i)]
           kept == CHOOSE f : Defined(f)
<1>1. n \in Nat /\ \A i \in 1 .. n : i \in DOMAIN q /\ q[i] \in Slot
  OBVIOUS
<1>2. \E f : Defined(f)
  <2> DEFINE step == [p \in (1 .. n) \X Seq(Slot) |->
                        IF q[p[1]].status \in statuses THEN Append(p[2], q[p[1]]) ELSE p[2]]
  <2>1. step \in [(1 .. n) \X Seq(Slot) -> Seq(Slot)]
    BY <1>1
  <2>2. <<>> \in Seq(Slot)
    OBVIOUS
  <2> HIDE DEF step, n
  <2>3. PICK f \in [0 .. n -> Seq(Slot)] :
          f[0] = <<>> /\ \A i \in 1 .. n : f[i] = step[<<i, f[i - 1]>>]
    <3>1. n \in Nat
      BY <1>1
    <3>2. Stepping(step, n, Seq(Slot))
      BY <2>1 DEF Stepping
    <3>3. \E f : Iterates(f, n, Seq(Slot), <<>>, step)
      BY <3>1, <3>2, <2>2, Recursion
    <3> QED
      BY <3>3 DEF Iterates
  <2>4. ASSUME NEW i \in 0 .. n
        PROVE  f[i] = Value(f, i)
    <3>1. CASE i = 0
      BY <2>3, <3>1
    <3>2. CASE i # 0
      <4>1. i \in 1 .. n /\ i - 1 \in 0 .. n
        BY <1>1, <3>2
      <4>2. f[i - 1] \in Seq(Slot)
        BY <4>1
      <4>3. f[i] = step[<<i, f[i - 1]>>]
        BY <2>3, <4>1
      <4> QED
        BY <3>2, <4>1, <4>2, <4>3 DEF step
    <3> QED
      BY <3>1, <3>2
  <2> HIDE DEF Value
  <2>5. [i \in 0 .. n |-> f[i]] = [i \in 0 .. n |-> Value(f, i)]
    BY <2>4
  <2>6. f = [i \in 0 .. n |-> f[i]]
    OBVIOUS
  <2> QED
    BY <2>5, <2>6
<1>3. Defined(kept)
  <2> HIDE DEF Defined
  <2> QED
    BY <1>2
<1>4. \A i \in 0 .. n : kept[i] = Value(kept, i)
  <2> HIDE DEF Value, kept
  <2> QED
    BY <1>3
<1>5. Filtered(q, statuses) = kept[n]
  BY DEF Filtered
<1> HIDE DEF kept
<1> DEFINE From(k) == /\ kept[k] \in Seq(Slot)
                      /\ \A i \in DOMAIN kept[k] :
                           \E j \in 1 .. k : kept[k][i] = q[j] /\ q[j].status \in statuses
           Once(k) == (\A i, j \in 1 .. n : q[i].id = q[j].id => i = j) =>
                        \A i, j \in DOMAIN kept[k] : kept[k][i].id = kept[k][j].id => i = j
           good == {k \in 0 .. n : From(k) /\ Once(k)}
<1>6. 0 \in good
  <2>1. 0 \in 0 .. n
    BY <1>1
  <2>2. kept[0] = <<>>
    BY <1>4, <2>1
  <2>3. <<>> \in Seq(Slot) /\ DOMAIN <<>> = {}
    OBVIOUS
  <2>4. From(0) /\ Once(0)
    BY <2>2, <2>3
  <2> HIDE DEF From, Once
  <2> QED
    BY <2>1, <2>4
<1>7. ASSUME NEW k \in 1 .. n, k - 1 \in good
      PROVE  k \in good
  <2> DEFINE old == kept[k - 1]
  <2>1. From(k - 1) /\ Once(k - 1)
    BY <1>7
  <2>2. k \in 0 .. n /\ k # 0
    BY <1>1
  <2>3. kept[k] = IF q[k].status \in statuses THEN Append(old, q[k]) ELSE old
    BY <1>4, <2>2
  <2>4. CASE q[k].status \notin statuses
    <3>1. kept[k] = old
      BY <2>3, <2>4
    <3>2. From(k)
      BY <2>1, <3>1
    <3>3. Once(k)
      BY <2>1, <3>1
    <3> HIDE DEF From, Once
    <3> QED
      BY <2>2, <3>2, <3>3
  <2>5. CASE q[k].status \in statuses
    <3>1. kept[k] = Append(old, q[k])
      BY <2>3, <2>5
    <3>2. old \in Seq(Slot) /\ q[k] \in Slot
      BY <1>1, <2>1
    <3> DEFINE m == Len(old)
               new == kept[k]
    <3>3. /\ m \in Nat /\ new \in Seq(Slot) /\ Len(new) = m + 1 /\ DOMAIN old = 1 .. m
          /\ DOMAIN new = 1 .. (m + 1) /\ new[m + 1] = q[k]
          /\ \A i \in 1 .. m : new[i] = old[i]
      BY <3>1, <3>2
    <3>4. \A i \in 1 .. m : \E j \in 1 .. k - 1 : old[i] = q[j] /\ q[j].status \in statuses
      BY <2>1, <3>3
    <3> HIDE DEF m, new, old
    <3>5. \A i \in 1 .. (m + 1) : i = m + 1 \/ i \in 1 .. m
      BY <3>3
    <3>6. \A j \in 1 .. k - 1 : j \in 1 .. k /\ j \in 1 .. n /\ j # k
      BY <1>1
    <3>7. k \in 1 .. k
      BY <1>1
    <3>8. \A i \in DOMAIN new : \E j \in 1 .. k : new[i] = q[j] /\ q[j].status \in statuses
      BY <2>5, <3>3, <3>4, <3>5, <3>6, <3>7
    <3>9. ASSUME \A i, j \in 1 .. n : q[i].id = q[j].id => i = j
          PROVE  \A i, j \in DOMAIN new : new[i].id = new[j].id => i = j
      <4>1. \A i, j \in 1 .. m : old[i].id = old[j].id => i = j
        BY <2>1, <3>3, <3>9 DEF old
      <4>2. \A i \in 1 .. m : old[i].id # q[k].id
        BY <3>4, <3>6, <3>9
      <4> QED
        BY <3>3, <3>5, <4>1, <4>2
    <3>10. From(k) /\ Once(k)
      BY <3>3, <3>8, <3>9 DEF new
    <3> HIDE DEF From, Once
    <3> QED
      BY <2>2, <3>10
  <2> QED
    BY <2>4, <2>5
<1>8. n \in good
  <2> HIDE DEF good, n
  <2>1. \A k \in 0 .. n : k \in good
    BY <1>1, <1>6, <1>7, UpTo
  <2> QED
    BY <1>1, <2>1
<1>9. From(n) /\ Once(n)
  BY <1>8
<1>10. DOMAIN q = 1 .. n
  OBVIOUS
<1>11. ASSUME NEW limit, Proper(q, limit)
       PROVE  Proper(kept[n], limit)
  <2> HIDE DEF n
  <2> QED
    BY <1>9, <1>10, <1>11 DEF Proper
<1> QED
  BY <1>5, <1>9, <1>10, <1>11

\* A sorted queue has the cards of the queue, each as often.
LEMMA SortedCards ==
  ASSUME NEW q \in Seq(Slot), NEW sorted \in sortQueue(q)
  PROVE  /\ sorted \in Seq(Slot)
         /\ Len(sorted) = Len(q)
         /\ \A i \in DOMAIN sorted : \E j \in DOMAIN q : sorted[i] = q[j]
         /\ \A n : Proper(q, n) => Proper(sorted, n)
<1> DEFINE rank(i) == IF q[i].id \in Urgent THEN 0 ELSE 1
           Before(i, j) == \/ rank(i) < rank(j)
                           \/ rank(i) = rank(j) /\ q[i].id < q[j].id
                           \/ rank(i) = rank(j) /\ q[i].id = q[j].id /\ i < j
<1>1. PICK order \in [DOMAIN q -> DOMAIN q] :
        /\ \A i, j \in DOMAIN q : i < j => Before(order[i], order[j])
        /\ sorted = [i \in DOMAIN q |-> q[order[i]]]
  BY DEF sortQueue
<1>2. \A i \in DOMAIN q : q[i].id \in Nat /\ i \in Nat
  BY SlotParts, CopilotConstants
<1>3. \A i \in DOMAIN q : rank(i) \in Nat /\ ~Before(i, i)
  BY <1>2
<1> HIDE DEF Before
<1>4. \A i, j \in DOMAIN q : order[i] = order[j] => i = j
  <2> SUFFICES ASSUME NEW i \in DOMAIN q, NEW j \in DOMAIN q, order[i] = order[j], i # j
               PROVE  FALSE
    OBVIOUS
  <2>1. i < j \/ j < i
    BY <1>2
  <2>2. Before(order[i], order[j]) \/ Before(order[j], order[i])
    BY <1>1, <2>1
  <2> QED
    BY <1>3, <2>2
<1>5. DOMAIN q = 1 .. Len(q) /\ Len(q) \in Nat
  OBVIOUS
<1>6. sorted \in [1 .. Len(q) -> Slot]
  BY <1>1, <1>5
<1>7. sorted \in Seq(Slot) /\ Len(sorted) = Len(q) /\ DOMAIN sorted = DOMAIN q
  BY <1>5, <1>6
<1>8. ASSUME NEW n, Proper(q, n)
      PROVE  Proper(sorted, n)
  BY <1>1, <1>4, <1>7, <1>8 DEF Proper
<1> QED
  BY <1>1, <1>7, <1>8

-----------------------------------------------------------------------------
(* The fields of the bridge after each of the operators.                    *)

LEMMA BridgeParts ==
  ASSUME NEW b \in Bridge
  PROVE  /\ b.queue \in Seq(Slot) /\ b.stored \in Seq(Slot)
         /\ b.executions \in SUBSET Executions /\ b.activeAbort \in SUBSET Executions
         /\ b.run \in RunRecord
BY DEF Bridge

LEMMA QueueParts ==
  ASSUME NEW q \in Seq(Slot)
  PROVE  Len(q) \in Nat /\ DOMAIN q = 1 .. Len(q) /\ \A i \in DOMAIN q : q[i] \in Slot
OBVIOUS

LEMMA Assigned ==
  ASSUME NEW q \in Seq(Slot), NEW index \in Nat \ {0}, NEW card \in Slot
  PROVE  /\ Assign(q, index, card) \in Seq(Slot)
         /\ index \in DOMAIN q =>
              /\ DOMAIN Assign(q, index, card) = DOMAIN q
              /\ \A i \in DOMAIN q :
                   Assign(q, index, card)[i] = IF i = index THEN card ELSE q[i]
<1> DEFINE n == Len(q)
           top == Max({index, n})
<1>1. n \in Nat /\ DOMAIN q = 1 .. n /\ \A i \in 1 .. n : q[i] \in Slot
  OBVIOUS
<1> HIDE DEF n
<1>2. top = IF index >= n THEN index ELSE n
  <2> DEFINE high == IF index >= n THEN index ELSE n
  <2>1. high \in {index, n} /\ \A y \in {index, n} : high >= y
    BY <1>1
  <2>2. \A x \in {index, n} : (\A y \in {index, n} : x >= y) => x = high
    BY <1>1
  <2> HIDE DEF high
  <2>3. top = high
    BY <2>1, <2>2 DEF Max
  <2> QED
    BY <2>3 DEF high
<1> HIDE DEF top
<1>3. top \in Nat
  BY <1>1, <1>2
<1>4. Assign(q, index, card) =
        [i \in 1 .. top |-> CASE i = index -> card
                              [] i # index /\ i <= n -> q[i]
                              [] OTHER -> Hole]
  BY DEF Assign, top, n
<1>5. Hole \in Slot
  BY DEF Slot
<1>6. \A i \in 1 .. top : i # index /\ i <= n => i \in 1 .. n
  BY <1>1, <1>3
<1>7. Assign(q, index, card) \in [1 .. top -> Slot]
  BY <1>1, <1>4, <1>5, <1>6
<1>8. Assign(q, index, card) \in Seq(Slot)
  BY <1>3, <1>7
<1>9. index \in 1 .. n => top = n
  BY <1>1, <1>2
<1>10. ASSUME index \in 1 .. n, NEW i \in 1 .. n
       PROVE  Assign(q, index, card)[i] = IF i = index THEN card ELSE q[i]
  BY <1>1, <1>4, <1>9, <1>10
<1> QED
  BY <1>1, <1>7, <1>8, <1>9, <1>10

LEMMA PersistedFields ==
  ASSUME NEW b \in Bridge
  PROVE  /\ Persisted(b) \in Bridge
         /\ Persisted(b).queue = b.queue /\ Persisted(b).executions = b.executions
         /\ Persisted(b).run = b.run /\ Persisted(b).activeAbort = b.activeAbort
         /\ Persisted(b).stored = b.queue
BY DEF Persisted, Bridge

LEMMA EndedFields ==
  ASSUME NEW b \in Bridge
  PROVE  /\ Ended(b) \in Bridge
         /\ Ended(b).queue = b.queue /\ Ended(b).executions = b.executions
         /\ Ended(b).run.phase = "posting" /\ Ended(b).activeAbort = {}
         /\ Ended(b).stored = b.queue
<1> DEFINE run == [NotRunning EXCEPT !.phase = "posting"]
           after == [b EXCEPT !.run = run, !.activeAbort = {}]
<1>1. run \in RunRecord /\ run.phase = "posting"
  <2>1. <<>> \in Seq(Cards)
    OBVIOUS
  <2> QED
    BY <2>1 DEF NotRunning, RunRecord
<1> HIDE DEF run
<1>2. /\ after \in Bridge /\ after.queue = b.queue /\ after.executions = b.executions
      /\ after.run = run /\ after.activeAbort = {}
  BY <1>1 DEF Bridge
<1>3. Ended(b) = Persisted(after)
  BY DEF Ended, run
<1> HIDE DEF after
<1> QED
  BY <1>1, <1>2, <1>3, PersistedFields

\* What a run does when executeAction has returned: it goes on or ends.
LEMMA ReturnedFields ==
  ASSUME NEW b \in Bridge, NEW by, NEW status
  PROVE  LET r == Returned(b, by, status)
         IN  /\ r \in Bridge
             /\ r.queue = b.queue /\ r.executions = b.executions
             /\ r.activeAbort = b.activeAbort \/ r.activeAbort = {}
             /\ r.stored = b.stored \/ r.stored = b.queue
             /\ by # "run" => r.run = b.run
             /\ by = "run" => \/ r.run.phase = "posting"
                              \/ r.run.phase = "next" /\ r.run.todo = b.run.todo
<1>1. CASE by # "run"
  BY <1>1 DEF Returned
<1>2. CASE by = "run" /\ status = "failed" /\ b.run.stopOnFailure
  BY <1>2, EndedFields DEF Returned, Continued
<1>3. CASE by = "run" /\ ~(status = "failed" /\ b.run.stopOnFailure)
  <2> DEFINE r == [b EXCEPT !.run.phase = "next"]
  <2>1. Returned(b, by, status) = r
    BY <1>3 DEF Returned, Continued
  <2>2. b.run \in RunRecord
    BY BridgeParts
  <2>3. r.run = [b.run EXCEPT !.phase = "next"]
    BY DEF Bridge
  <2>4. r.run \in RunRecord /\ r.run.phase = "next" /\ r.run.todo = b.run.todo
    BY <2>2, <2>3 DEF RunRecord
  <2>5. /\ r \in Bridge /\ r.queue = b.queue /\ r.executions = b.executions
        /\ r.activeAbort = b.activeAbort /\ r.stored = b.stored
    BY <2>4 DEF Bridge
  <2> HIDE DEF r
  <2> QED
    BY <1>3, <2>1, <2>4, <2>5
<1> QED
  BY <1>1, <1>2, <1>3

-----------------------------------------------------------------------------
(* A request that ends.                                                     *)

Retried(e, outcome) == outcome = "temporary" /\ e.attempt < MaxRetries
EndStatus(e, outcome) ==
  CASE outcome = "ok" -> "completed"
    [] Retried(e, outcome) -> "running"
    [] OTHER -> "failed"
EndCard(e, outcome) == [id |-> e.card, status |-> EndStatus(e, outcome)]
BackingOff(e, outcome) ==
  IF Retried(e, outcome) THEN {[e EXCEPT !.phase = "backoff"]} ELSE {}

LEMMA EndStatusIs ==
  ASSUME NEW e \in Executions, NEW outcome
  PROVE  /\ EndStatus(e, outcome) \in Statuses
         /\ EndStatus(e, outcome) = "running" <=> Retried(e, outcome)
         /\ EndCard(e, outcome) \in Slot
<1>1. Retried(e, outcome) => outcome # "ok"
  BY DEF Retried
<1>2. /\ EndStatus(e, outcome) \in Statuses
      /\ EndStatus(e, outcome) = "running" <=> Retried(e, outcome)
  BY <1>1 DEF EndStatus, Statuses
<1>3. e.card \in Cards
  BY DEF Executions
<1> QED
  BY <1>2, <1>3 DEF EndCard, Slot

LEMMA BackingOffIs ==
  ASSUME NEW e \in Executions, NEW outcome, NEW f \in BackingOff(e, outcome)
  PROVE  /\ Retried(e, outcome) /\ f \in Executions
         /\ f.card = e.card /\ f.by = e.by /\ f.index = e.index /\ f.phase = "backoff"
         /\ f.attempt < MaxRetries
BY DEF BackingOff, Executions, Retried

LEMMA SettledFields ==
  ASSUME NEW b \in Bridge, NEW e \in Executions, NEW outcome
  PROVE  LET s == Settled(b, e, outcome)
         IN  /\ s \in Bridge
             /\ s.queue = Assign(b.queue, e.index, EndCard(e, outcome))
             /\ s.executions = (b.executions \ {e}) \union BackingOff(e, outcome)
             /\ s.activeAbort = {}
             /\ s.stored = b.stored \/ s.stored = s.queue
             /\ Retried(e, outcome) \/ e.by # "run" => s.run = b.run
             /\ ~Retried(e, outcome) /\ e.by = "run" =>
                  \/ s.run.phase = "posting"
                  \/ s.run.phase = "next" /\ s.run.todo = b.run.todo
<1> DEFINE queue == Assign(b.queue, e.index, EndCard(e, outcome))
           executions == (b.executions \ {e}) \union BackingOff(e, outcome)
           written == [b EXCEPT !.queue = queue, !.executions = executions, !.activeAbort = {}]
<1>1. queue \in Seq(Slot)
  <2>1. b.queue \in Seq(Slot) /\ e.index \in Nat \ {0}
    BY DEF Bridge, Executions
  <2> QED
    BY <2>1, EndStatusIs, Assigned
<1>2. executions \in SUBSET Executions
  BY BackingOffIs DEF Bridge
<1>3. Settled(b, e, outcome) =
        IF Retried(e, outcome) THEN written
        ELSE Returned(Persisted(written), e.by, EndStatus(e, outcome))
  BY DEF Settled, AbortAfterCleanup, Retried, EndStatus, EndCard, BackingOff
<1> HIDE DEF queue, executions
<1>4. /\ written \in Bridge /\ written.queue = queue /\ written.executions = executions
      /\ written.activeAbort = {} /\ written.stored = b.stored /\ written.run = b.run
  BY <1>1, <1>2 DEF Bridge
<1> HIDE DEF written
<1> DEFINE saved == Persisted(written)
           r == Returned(saved, e.by, EndStatus(e, outcome))
<1>5. /\ saved \in Bridge /\ saved.queue = queue /\ saved.executions = executions
      /\ saved.run = b.run /\ saved.activeAbort = {} /\ saved.stored = queue
  BY <1>4, PersistedFields
<1> HIDE DEF saved
<1>6. /\ r \in Bridge /\ r.queue = queue /\ r.executions = executions
      /\ r.activeAbort = {} /\ r.stored = queue
      /\ e.by # "run" => r.run = b.run
      /\ e.by = "run" => \/ r.run.phase = "posting"
                         \/ r.run.phase = "next" /\ r.run.todo = b.run.todo
  BY <1>5, ReturnedFields
<1>7. Settled(b, e, outcome) = IF Retried(e, outcome) THEN written ELSE r
  BY <1>3 DEF saved
<1> HIDE DEF r
<1> QED
  BY <1>4, <1>6, <1>7 DEF queue, executions

LEMMA SettledWellFormed ==
  ASSUME NEW b, WellFormed(b), NEW e \in b.executions, NEW outcome
  PROVE  WellFormed(Settled(b, e, outcome))
<1> DEFINE s == Settled(b, e, outcome)
           backing == BackingOff(e, outcome)
<1>1. b \in Bridge /\ e \in Executions /\ IsFiniteSet(b.executions)
  BY DEF WellFormed, Bridge
<1>2. /\ s \in Bridge /\ s.activeAbort = {}
      /\ s.executions = (b.executions \ {e}) \union backing
      /\ Retried(e, outcome) \/ e.by # "run" => s.run = b.run
      /\ ~Retried(e, outcome) /\ e.by = "run" => s.run.phase \in {"posting", "next"}
  BY <1>1, SettledFields
<1>3. \A f \in backing : Retried(e, outcome) /\ f.by = e.by /\ f.attempt < MaxRetries
  BY <1>1, BackingOffIs
<1>4. Retried(e, outcome) => \E f : backing = {f}
  BY DEF BackingOff
<1>5. ~Retried(e, outcome) => backing = {}
  BY DEF BackingOff
<1> HIDE DEF s, backing
<1>6. IsFiniteSet(s.executions)
  <2>1. IsFiniteSet(backing)
    BY <1>4, <1>5, FS_EmptySet, FS_Singleton
  <2>2. IsFiniteSet(b.executions \ {e})
    BY <1>1, FS_Difference, FS_Singleton
  <2>3. IsFiniteSet((b.executions \ {e}) \union backing)
    BY <2>1, <2>2, FS_Union
  <2> QED
    BY <1>2, <2>3
<1>7. RunsOne(s)
  <2>1. RunsOne(b)
    BY DEF WellFormed
  <2>2. ASSUME NEW f \in s.executions, NEW g \in s.executions, f.by = "run", g.by = "run"
        PROVE  f = g
    <3>1. CASE e.by = "run"
      <4>1. \A h \in b.executions \ {e} : h.by # "run"
        BY <2>1, <3>1 DEF RunsOne
      <4> QED
        BY <1>2, <1>4, <1>5, <2>2, <4>1
    <3>2. CASE e.by # "run"
      BY <1>2, <1>3, <2>1, <2>2, <3>2 DEF RunsOne
    <3> QED
      BY <3>1, <3>2
  <2>3. s.run.phase = "executing" <=> \E f \in s.executions : f.by = "run"
    <3>1. CASE e.by # "run"
      <4>1. (\E f \in s.executions : f.by = "run") <=> \E f \in b.executions : f.by = "run"
        BY <1>2, <1>3, <3>1
      <4> QED
        BY <1>2, <2>1, <3>1, <4>1 DEF RunsOne
    <3>2. CASE e.by = "run" /\ Retried(e, outcome)
      <4>1. \E f \in s.executions : f.by = "run"
        BY <1>2, <1>3, <1>4, <3>2
      <4> QED
        BY <1>2, <2>1, <3>2, <4>1 DEF RunsOne
    <3>3. CASE e.by = "run" /\ ~Retried(e, outcome)
      <4>1. \A h \in b.executions \ {e} : h.by # "run"
        BY <2>1, <3>3 DEF RunsOne
      <4> QED
        BY <1>2, <1>5, <3>3, <4>1
    <3> QED
      BY <3>1, <3>2, <3>3
  <2> QED
    BY <2>2, <2>3 DEF RunsOne
<1>8. RetriesLeft(s)
  BY <1>2, <1>3 DEF WellFormed, RetriesLeft
<1> QED
  BY <1>2, <1>6, <1>7, <1>8 DEF WellFormed, AbortsOne, s

LEMMA SettledAligned ==
  ASSUME NEW b, WellFormed(b), NEW n, Aligned(b, n), NEW e \in b.executions, NEW outcome
  PROVE  Aligned(Settled(b, e, outcome), n)
<1> DEFINE s == Settled(b, e, outcome)
           backing == BackingOff(e, outcome)
           card == EndCard(e, outcome)
<1>1. b \in Bridge /\ e \in Executions /\ e.index \in Nat \ {0}
  BY DEF WellFormed, Bridge, Executions
<1>2. /\ s.activeAbort = {}
      /\ s.executions = (b.executions \ {e}) \union backing
      /\ s.queue = Assign(b.queue, e.index, card)
      /\ s.stored = b.stored \/ s.stored = s.queue
      /\ Retried(e, outcome) \/ e.by # "run" => s.run = b.run
      /\ ~Retried(e, outcome) /\ e.by = "run" =>
           s.run.phase = "posting" \/ (s.run.phase = "next" /\ s.run.todo = b.run.todo)
  BY <1>1, SettledFields
<1>3. /\ card.id = e.card /\ card = [id |-> e.card, status |-> card.status]
      /\ card.status = "running" <=> Retried(e, outcome)
  BY <1>1, EndStatusIs DEF EndCard
<1>4. \A f \in backing : Retried(e, outcome) /\ f.card = e.card /\ f.index = e.index
  BY <1>1, BackingOffIs
<1>5. Retried(e, outcome) => \E f : backing = {f}
  BY DEF BackingOff
<1>6. ~Retried(e, outcome) => backing = {}
  BY DEF BackingOff
<1>7. /\ e.index \in DOMAIN b.queue
      /\ b.queue[e.index] = [id |-> e.card, status |-> "running"]
  BY DEF Aligned, Indexed
<1>8. /\ DOMAIN s.queue = DOMAIN b.queue
      /\ \A i \in DOMAIN b.queue : s.queue[i] = IF i = e.index THEN card ELSE b.queue[i]
  <2>1. b.queue \in Seq(Slot) /\ card \in Slot
    BY <1>1, BridgeParts, EndStatusIs
  <2> DEFINE q == b.queue
             index == e.index
             new == Assign(q, index, card)
  <2>2. q \in Seq(Slot) /\ index \in Nat \ {0} /\ index \in DOMAIN q /\ s.queue = new
    BY <1>1, <1>2, <1>7, <2>1
  <2> HIDE DEF s, card, q, index
  <2>3. DOMAIN new = DOMAIN q /\ \A i \in DOMAIN q : new[i] = IF i = index THEN card ELSE q[i]
    BY <2>1, <2>2, Assigned
  <2> QED
    BY <2>2, <2>3 DEF q, index
<1> HIDE DEF s, backing, card
<1>9. Proper(b.queue, n) /\ Proper(b.stored, n) /\ Indexed(b) /\ Pending(b)
  BY DEF Aligned
<1>10. \A i \in DOMAIN b.queue : s.queue[i].id = b.queue[i].id
  BY <1>3, <1>7, <1>8
<1>11. Proper(s.queue, n)
  BY <1>8, <1>9, <1>10 DEF Proper
<1>12. Proper(s.stored, n)
  BY <1>2, <1>9, <1>11
<1>13. \A f \in b.executions \ {e} : f.card # e.card /\ f.index # e.index
  <2> SUFFICES ASSUME NEW f \in b.executions, f # e
               PROVE  f.card # e.card /\ f.index # e.index
    OBVIOUS
  <2>1. f.card # e.card
    BY <1>9 DEF Indexed
  <2>2. b.queue[f.index].id = f.card
    <3>1. b.queue[f.index] = [id |-> f.card, status |-> "running"]
      BY <1>9 DEF Indexed
    <3> QED
      BY <3>1
  <2>3. b.queue[e.index].id = e.card
    BY <1>7
  <2> QED
    BY <2>1, <2>2, <2>3
<1>14. \A f \in s.executions : \E g \in b.executions : f.card = g.card
  BY <1>2, <1>4
<1>15. Indexed(s)
  <2>1. ASSUME NEW f \in s.executions
        PROVE  /\ f.index \in DOMAIN s.queue
               /\ s.queue[f.index] = [id |-> f.card, status |-> "running"]
    <3>1. CASE f \in backing
      BY <1>3, <1>4, <1>7, <1>8, <3>1
    <3>2. CASE f \in b.executions \ {e}
      BY <1>8, <1>9, <1>13, <3>2 DEF Indexed
    <3> QED
      BY <1>2, <3>1, <3>2
  <2>2. ASSUME NEW f \in s.executions, NEW g \in s.executions, f.card = g.card
        PROVE  f = g
    <3>1. CASE f \in backing /\ g \in backing
      BY <1>5, <1>6, <3>1
    <3>2. CASE f \in backing /\ g \in b.executions \ {e}
      BY <1>4, <1>13, <2>2, <3>2
    <3>3. CASE f \in b.executions \ {e} /\ g \in backing
      BY <1>4, <1>13, <2>2, <3>3
    <3>4. CASE f \in b.executions \ {e} /\ g \in b.executions \ {e}
      BY <1>9, <2>2, <3>4 DEF Indexed
    <3> QED
      BY <1>2, <3>1, <3>2, <3>3, <3>4
  <2>3. ASSUME NEW i \in DOMAIN s.queue, s.queue[i].status = "running"
        PROVE  \E f \in s.executions : f.card = s.queue[i].id
    <3>1. CASE i = e.index
      <4>1. Retried(e, outcome) /\ s.queue[i].id = e.card
        BY <1>3, <1>7, <1>8, <2>3, <3>1
      <4>2. PICK f \in backing : TRUE
        BY <1>5, <4>1
      <4> QED
        BY <1>2, <1>4, <4>1, <4>2
    <3>2. CASE i # e.index
      <4>1. i \in DOMAIN b.queue /\ b.queue[i].status = "running" /\ s.queue[i] = b.queue[i]
        BY <1>8, <2>3, <3>2
      <4>2. PICK f \in b.executions : f.card = b.queue[i].id
        BY <1>9, <4>1 DEF Indexed
      <4>3. f # e
        <5>1. b.queue[i].id # b.queue[e.index].id
          BY <1>7, <1>9, <3>2, <4>1 DEF Proper
        <5> QED
          BY <1>7, <4>2, <5>1
      <4> QED
        BY <1>2, <4>1, <4>2, <4>3
    <3> QED
      BY <3>1, <3>2
  <2> QED
    BY <2>1, <2>2, <2>3 DEF Indexed
<1>16. Pending(s)
  <2>1. SUFFICES ASSUME s.run.phase \in {"next", "executing"}
                 PROVE  /\ \A i, j \in DOMAIN s.run.todo : s.run.todo[i] = s.run.todo[j] => i = j
                        /\ \A i \in DOMAIN s.run.todo, f \in s.executions : s.run.todo[i] # f.card
    BY DEF Pending
  <2>2. s.run.todo = b.run.todo /\ b.run.phase \in {"next", "executing"}
    <3>1. e.by = "run" => b.run.phase = "executing"
      BY DEF WellFormed, RunsOne
    <3> QED
      BY <1>2, <2>1, <3>1
  <2> QED
    BY <1>9, <1>14, <2>2 DEF Pending
<1> QED
  BY <1>11, <1>12, <1>15, <1>16 DEF Aligned, s

-----------------------------------------------------------------------------
(* Requests that end one after the other.                                   *)

\* An enumeration of a finite set has each of its elements once.
LEMMA Enumerated ==
  ASSUME NEW L, IsFiniteSet(L), NEW requests \in SetToSeqs(L)
  PROVE  /\ Cardinality(L) \in Nat /\ requests \in [1 .. Cardinality(L) -> L]
         /\ Len(requests) = Cardinality(L)
         /\ \A i, j \in 1 .. Cardinality(L) : i # j => requests[i] # requests[j]
         /\ \A e \in L : \E i \in 1 .. Cardinality(L) : requests[i] = e
<1> DEFINE m == Cardinality(L)
<1>1. m \in Nat
  BY FS_CardinalityType
<1>2. requests \in [1 .. m -> L] /\ \A i, j \in 1 .. m : i # j => requests[i] # requests[j]
  BY DEF SetToSeqs
<1>3. IsFiniteSet(1 .. m) /\ Cardinality(1 .. m) = m
  BY <1>1, FS_Interval
<1>4. requests \in Injection(1 .. m, L)
  BY <1>2 DEF Injection, IsInjective
<1>5. requests \in Surjection(1 .. m, L)
  BY <1>3, <1>4, FS_Injection
<1>6. \A e \in L : \E i \in 1 .. m : requests[i] = e
  BY <1>5 DEF Surjection
<1>7. Len(requests) = m
  BY <1>1, <1>2
<1> QED
  BY <1>1, <1>2, <1>6, <1>7

\* The function that SettledInTurn defines exists, and so is what it is defined as.
Turns(after, b, m, requests, outcome) ==
  /\ after[0] = b
  /\ \A i \in 1 .. m : after[i] = Settled(after[i - 1], requests[i], outcome)
  /\ SettledInTurn(b, requests, outcome) = after[m]

LEMMA SettlingInTurn ==
  ASSUME NEW b \in Bridge, NEW m \in Nat, NEW requests \in [1 .. m -> Executions], NEW outcome
  PROVE  \E after : Turns(after, b, m, requests, outcome)
<1> DEFINE Value(f, i) == IF i = 0 THEN b ELSE Settled(f[i - 1], requests[i], outcome)
           Defined(f) == f = [i \in 0 .. Len(requests) |-> Value(f, i)]
           after == CHOOSE f : Defined(f)
<1>1. Len(requests) = m
  OBVIOUS
<1>2. \E f : Defined(f)
  <2> DEFINE step == [p \in (1 .. m) \X Bridge |-> Settled(p[2], requests[p[1]], outcome)]
  <2>1. ASSUME NEW p \in (1 .. m) \X Bridge
        PROVE  Settled(p[2], requests[p[1]], outcome) \in Bridge
    <3>1. p[2] \in Bridge /\ requests[p[1]] \in Executions
      OBVIOUS
    <3> QED
      BY <3>1, SettledFields
  <2>2. Stepping(step, m, Bridge)
    BY <2>1 DEF Stepping
  <2>3. \A i \in 1 .. m, x \in Bridge : step[<<i, x>>] = Settled(x, requests[i], outcome)
    OBVIOUS
  <2> HIDE DEF step
  <2>4. PICK f : Iterates(f, m, Bridge, b, step)
    BY <2>2, Recursion
  <2>5. ASSUME NEW i \in 0 .. m
        PROVE  f[i] = Value(f, i)
    <3>1. CASE i = 0
      BY <2>4, <3>1 DEF Iterates
    <3>2. CASE i # 0
      <4>1. i \in 1 .. m /\ i - 1 \in 0 .. m
        BY <3>2
      <4>2. f[i - 1] \in Bridge /\ f[i] = step[<<i, f[i - 1]>>]
        BY <2>4, <4>1 DEF Iterates
      <4> QED
        BY <2>3, <3>2, <4>1, <4>2
    <3> QED
      BY <3>1, <3>2
  <2> HIDE DEF Value
  <2>6. [i \in 0 .. m |-> f[i]] = [i \in 0 .. m |-> Value(f, i)]
    BY <2>5
  <2>7. f = [i \in 0 .. m |-> f[i]]
    BY <2>4 DEF Iterates
  <2> QED
    BY <1>1, <2>6, <2>7
<1>3. Defined(after)
  <2> HIDE DEF Defined
  <2> QED
    BY <1>2
<1>4. \A i \in 0 .. m : after[i] = Value(after, i)
  <2> HIDE DEF Value, after
  <2> QED
    BY <1>1, <1>3
<1>5. SettledInTurn(b, requests, outcome) = after[Len(requests)]
  BY DEF SettledInTurn
<1> HIDE DEF after
<1>6. after[0] = b
  BY <1>4
<1>7. \A i \in 1 .. m : after[i] = Settled(after[i - 1], requests[i], outcome)
  BY <1>4
<1> QED
  BY <1>1, <1>5, <1>6, <1>7 DEF Turns

\* The bridge stays as it should be, the other executions go on, and what is
\* left of those that ended backs off.
LEMMA TurnsTaken ==
  ASSUME NEW b, WellFormed(b), NEW L \in SUBSET b.executions,
         NEW requests \in SetToSeqs(L), NEW outcome
  PROVE  LET s == SettledInTurn(b, requests, outcome)
         IN  /\ WellFormed(s)
             /\ \A n : Aligned(b, n) => Aligned(s, n)
             /\ \A f \in s.executions : f \in b.executions \ L \/ f.phase = "backoff"
             /\ \A f \in b.executions \ L : f \in s.executions
<1> DEFINE m == Cardinality(L)
<1>1. IsFiniteSet(L) /\ b \in Bridge /\ L \subseteq Executions
  BY FS_Subset DEF WellFormed, Bridge
<1>2. /\ m \in Nat /\ requests \in [1 .. m -> L]
      /\ \A i, j \in 1 .. m : i # j => requests[i] # requests[j]
      /\ \A e \in L : \E i \in 1 .. m : requests[i] = e
  BY <1>1, Enumerated
<1> HIDE DEF m
<1>3. PICK after : /\ after[0] = b
                   /\ \A i \in 1 .. m : after[i] = Settled(after[i - 1], requests[i], outcome)
                   /\ SettledInTurn(b, requests, outcome) = after[m]
  <2>1. requests \in [1 .. m -> Executions]
    BY <1>1, <1>2
  <2>2. \E after : Turns(after, b, m, requests, outcome)
    BY <1>1, <1>2, <2>1, SettlingInTurn
  <2> QED
    BY <2>2 DEF Turns
<1> DEFINE Left(k) == b.executions \ {requests[i] : i \in 1 .. k}
           Shaped(k) == WellFormed(after[k]) /\ \A n : Aligned(b, n) => Aligned(after[k], n)
           Known(k) == /\ \A f \in after[k].executions : f \in Left(k) \/ f.phase = "backoff"
                       /\ \A f \in Left(k) : f \in after[k].executions
           good == {k \in 0 .. m : Shaped(k) /\ Known(k)}
<1>4. 0 \in good
  <2>1. 0 \in 0 .. m
    BY <1>2
  <2>2. Left(0) = b.executions
    OBVIOUS
  <2> HIDE DEF Left
  <2> QED
    BY <1>3, <2>1, <2>2
<1>5. ASSUME NEW k \in 1 .. m, k - 1 \in good
      PROVE  k \in good
  <2> DEFINE old == after[k - 1]
             new == after[k]
             e == requests[k]
  <2>1. Shaped(k - 1) /\ Known(k - 1)
    BY <1>5
  <2>2. k \in 0 .. m /\ e \in L /\ new = Settled(old, e, outcome)
    BY <1>2, <1>3
  <2>3. e \in Left(k - 1) /\ Left(k) = Left(k - 1) \ {e}
    <3>1. \A i \in 1 .. k : i = k \/ i \in 1 .. k - 1
      BY <1>2
    <3>2. \A i \in 1 .. k - 1 : i \in 1 .. k /\ i \in 1 .. m /\ i # k
      BY <1>2
    <3>3. k \in 1 .. k
      BY <1>2
    <3>4. {requests[i] : i \in 1 .. k} = {requests[i] : i \in 1 .. k - 1} \cup {e}
      BY <3>1, <3>2, <3>3
    <3>5. e \notin {requests[i] : i \in 1 .. k - 1}
      BY <1>2, <3>2
    <3> QED
      BY <2>2, <3>4, <3>5
  <2> HIDE DEF Left, old, new, e
  <2>4. e \in old.executions /\ WellFormed(old)
    BY <2>1, <2>3 DEF old
  <2>5. Shaped(k)
    <3>1. WellFormed(new)
      BY <2>2, <2>4, SettledWellFormed
    <3>2. ASSUME NEW n, Aligned(b, n)
          PROVE  Aligned(new, n)
      <4>1. Aligned(old, n)
        BY <2>1, <3>2 DEF old
      <4> QED
        BY <2>2, <2>4, <4>1, SettledAligned
    <3> QED
      BY <3>1, <3>2 DEF new
  <2>6. new.executions = (old.executions \ {e}) \union BackingOff(e, outcome)
    <3>1. old \in Bridge /\ e \in Executions
      BY <1>1, <2>2, <2>4 DEF WellFormed
    <3> QED
      BY <2>2, <3>1, SettledFields
  <2>7. \A f \in BackingOff(e, outcome) : f.phase = "backoff"
    BY <1>1, <2>2, BackingOffIs
  <2>8. Known(k)
    <3>1. /\ \A f \in old.executions : f \in Left(k - 1) \/ f.phase = "backoff"
          /\ \A f \in Left(k - 1) : f \in old.executions
      BY <2>1 DEF old
    <3>2. /\ \A f \in new.executions : f \in Left(k) \/ f.phase = "backoff"
          /\ \A f \in Left(k) : f \in new.executions
      BY <2>3, <2>6, <2>7, <3>1
    <3> QED
      BY <3>2 DEF new
  <2> HIDE DEF Shaped, Known
  <2> QED
    BY <2>2, <2>5, <2>8
<1>6. m \in good
  <2> HIDE DEF good
  <2>1. \A k \in 0 .. m : k \in good
    BY <1>2, <1>4, <1>5, UpTo
  <2> QED
    BY <1>2, <2>1
<1>7. Left(m) = b.executions \ L
  <2>1. {requests[i] : i \in 1 .. m} = L
    BY <1>2
  <2> QED
    BY <2>1
<1> HIDE DEF Left
<1>8. Shaped(m) /\ Known(m)
  BY <1>6
<1> QED
  BY <1>3, <1>7, <1>8

-----------------------------------------------------------------------------
(* An action that begins.                                                   *)

LEMMA Marked ==
  ASSUME NEW q \in Seq(Slot), NEW i \in DOMAIN q, q[i].id \in Cards, NEW status \in Statuses
  PROVE  LET r == [q EXCEPT ![i].status = status]
         IN  /\ r \in Seq(Slot) /\ DOMAIN r = DOMAIN q
             /\ r[i] = [id |-> q[i].id, status |-> status]
             /\ \A j \in DOMAIN q : j # i => r[j] = q[j]
<1> DEFINE r == [q EXCEPT ![i].status = status]
           n == Len(q)
<1>1. n \in Nat /\ DOMAIN q = 1 .. n /\ \A j \in 1 .. n : q[j] \in Slot
  OBVIOUS
<1>2. q[i] \in [id : Cards, status : Statuses]
  <2>1. q[i] # Hole
    BY ConstantsAssumption DEF Hole, NoCard, Cards
  <2> QED
    BY <1>1, <2>1 DEF Slot
<1>3. [q[i] EXCEPT !.status = status] = [id |-> q[i].id, status |-> status]
  BY <1>2
<1>4. DOMAIN r = 1 .. n /\ r[i] = [id |-> q[i].id, status |-> status]
  BY <1>1, <1>3
<1>5. \A j \in 1 .. n : j # i => r[j] = q[j]
  BY <1>1
<1>6. [id |-> q[i].id, status |-> status] \in Slot
  BY DEF Slot
<1>7. \A j \in 1 .. n : r[j] \in Slot
  BY <1>1, <1>4, <1>5, <1>6
<1>8. r = [j \in 1 .. n |-> r[j]]
  BY <1>1
<1> HIDE DEF r
<1>9. r \in [1 .. n -> Slot]
  BY <1>7, <1>8
<1>10. r \in Seq(Slot)
  BY <1>1, <1>9
<1> QED
  BY <1>1, <1>4, <1>5, <1>10 DEF r

LEMMA PersistedWell ==
  ASSUME NEW b, WellFormed(b)
  PROVE  /\ WellFormed(Persisted(b))
         /\ \A n : Aligned(b, n) => Aligned(Persisted(b), n)
<1>1. b \in Bridge
  BY DEF WellFormed
<1> QED
  BY <1>1, PersistedFields DEF WellFormed, RunsOne, AbortsOne, RetriesLeft, Aligned, Indexed, Pending

LEMMA ReturnedWell ==
  ASSUME NEW b, WellFormed(b), NEW by, NEW status, by = "run" => b.run.phase = "next"
  PROVE  /\ WellFormed(Returned(b, by, status))
         /\ \A n : Aligned(b, n) => Aligned(Returned(b, by, status), n)
<1> DEFINE r == Returned(b, by, status)
<1>1. b \in Bridge
  BY DEF WellFormed
<1>2. /\ r \in Bridge
      /\ r.queue = b.queue /\ r.executions = b.executions
      /\ r.activeAbort = b.activeAbort \/ r.activeAbort = {}
      /\ r.stored = b.stored \/ r.stored = b.queue
      /\ by # "run" => r.run = b.run
      /\ by = "run" => r.run.phase = "posting" \/ (r.run.phase = "next" /\ r.run.todo = b.run.todo)
  BY <1>1, ReturnedFields
<1> HIDE DEF r
<1>3. RunsOne(r)
  BY <1>2 DEF WellFormed, RunsOne
<1>4. AbortsOne(r)
  BY <1>2 DEF WellFormed, AbortsOne
<1>5. WellFormed(r)
  BY <1>2, <1>3, <1>4 DEF WellFormed, RetriesLeft
<1>6. ASSUME NEW n, Aligned(b, n)
      PROVE  Aligned(r, n)
  <2>1. Proper(r.queue, n) /\ Proper(r.stored, n)
    BY <1>2, <1>6 DEF Aligned
  <2>2. Indexed(r)
    BY <1>2, <1>6 DEF Aligned, Indexed
  <2>3. Pending(r)
    BY <1>2, <1>6 DEF Aligned, Pending
  <2> QED
    BY <2>1, <2>2, <2>3 DEF Aligned
<1> QED
  BY <1>5, <1>6 DEF r

\* A card that the context does not let run.
LEMMA BlockedWell ==
  ASSUME NEW b, WellFormed(b), NEW i \in DOMAIN b.queue, b.queue[i].id \in Cards
  PROVE  LET x == [b EXCEPT !.queue[i].status = "blocked"]
         IN  /\ WellFormed(x) /\ x.executions = b.executions /\ x.run = b.run
             /\ \A n : Aligned(b, n) /\ (\A e \in b.executions : e.card # b.queue[i].id)
                         => Aligned(x, n)
<1> DEFINE x == [b EXCEPT !.queue[i].status = "blocked"]
           queue == [b.queue EXCEPT ![i].status = "blocked"]
<1>1. b \in Bridge /\ b.queue \in Seq(Slot)
  BY BridgeParts DEF WellFormed
<1>2. /\ queue \in Seq(Slot) /\ DOMAIN queue = DOMAIN b.queue
      /\ queue[i] = [id |-> b.queue[i].id, status |-> "blocked"]
      /\ \A j \in DOMAIN b.queue : j # i => queue[j] = b.queue[j]
  <2>1. "blocked" \in Statuses
    BY DEF Statuses
  <2> QED
    BY <1>1, <2>1, Marked
<1>3. x = [b EXCEPT !.queue = queue]
  BY <1>1 DEF Bridge
<1> HIDE DEF queue
<1>4. /\ x \in Bridge /\ x.queue = queue /\ x.executions = b.executions /\ x.run = b.run
      /\ x.activeAbort = b.activeAbort /\ x.stored = b.stored
  BY <1>1, <1>2, <1>3 DEF Bridge
<1> HIDE DEF x
<1>5. WellFormed(x)
  BY <1>4 DEF WellFormed, RunsOne, AbortsOne, RetriesLeft
<1>6. ASSUME NEW n, Aligned(b, n), \A e \in b.executions : e.card # b.queue[i].id
      PROVE  Aligned(x, n)
  <2>1. Proper(b.queue, n) /\ Proper(b.stored, n) /\ Indexed(b) /\ Pending(b)
    BY <1>6 DEF Aligned
  <2>2. \A j \in DOMAIN b.queue : queue[j].id = b.queue[j].id
    BY <1>2
  <2>3. Proper(x.queue, n) /\ Proper(x.stored, n) /\ Pending(x)
    BY <1>2, <1>4, <2>1, <2>2 DEF Proper, Pending
  <2>4. ASSUME NEW e \in b.executions
        PROVE  e.index \in DOMAIN queue /\ queue[e.index] = [id |-> e.card, status |-> "running"]
    <3>1. /\ e.index \in DOMAIN b.queue
          /\ b.queue[e.index] = [id |-> e.card, status |-> "running"]
      BY <2>1 DEF Indexed
    <3>2. b.queue[e.index].id = e.card
      BY <3>1
    <3>3. e.index # i
      BY <1>6, <3>2
    <3> QED
      BY <1>2, <3>1, <3>3
  <2>5. ASSUME NEW j \in DOMAIN queue, queue[j].status = "running"
        PROVE  \E e \in b.executions : e.card = queue[j].id
    <3>1. queue[i].status = "blocked"
      BY <1>2
    <3>2. j # i
      BY <2>5, <3>1
    <3>3. j \in DOMAIN b.queue /\ queue[j] = b.queue[j]
      BY <1>2, <3>2
    <3> QED
      BY <2>1, <2>5, <3>3 DEF Indexed
  <2>6. Indexed(x)
    BY <1>4, <2>1, <2>4, <2>5 DEF Indexed
  <2> QED
    BY <2>3, <2>6 DEF Aligned
<1> QED
  BY <1>4, <1>5, <1>6 DEF x

\* A card that begins to run, by an execution that keeps its index.
Begun(b, e) ==
  [b EXCEPT !.queue[e.index].status = "running",
            !.executions = @ \union {e},
            !.activeAbort = {e},
            !.run.phase = IF e.by = "run" THEN "executing" ELSE @]

LEMMA BegunWell ==
  ASSUME NEW b, WellFormed(b), NEW e \in Executions, e.phase = "waiting",
         e.index \in DOMAIN b.queue, b.queue[e.index].id = e.card,
         e.by = "run" => b.run.phase = "next"
  PROVE  LET x == Begun(b, e)
         IN  /\ WellFormed(x) /\ x.executions = b.executions \union {e}
             /\ \A n : /\ Aligned(b, n)
                       /\ \A f \in b.executions : f.card # e.card
                       /\ b.run.phase \in {"next", "executing"} =>
                            \A j \in DOMAIN b.run.todo : b.run.todo[j] # e.card
                       => Aligned(x, n)
<1> DEFINE x == Begun(b, e)
           i == e.index
           queue == [b.queue EXCEPT ![i].status = "running"]
           executions == b.executions \union {e}
           phase == IF e.by = "run" THEN "executing" ELSE b.run.phase
           run == [b.run EXCEPT !.phase = phase]
<1>1. b \in Bridge /\ b.queue \in Seq(Slot) /\ b.run \in RunRecord /\ e.card \in Cards
  BY BridgeParts DEF WellFormed, Executions
<1>2. /\ queue \in Seq(Slot) /\ DOMAIN queue = DOMAIN b.queue
      /\ queue[i] = [id |-> e.card, status |-> "running"]
      /\ \A j \in DOMAIN b.queue : j # i => queue[j] = b.queue[j]
  <2>1. "running" \in Statuses
    BY DEF Statuses
  <2> QED
    BY <1>1, <2>1, Marked
<1>3. run \in RunRecord /\ run.phase = phase /\ run.todo = b.run.todo
  BY <1>1 DEF RunRecord
<1>4. x = [b EXCEPT !.queue = queue, !.executions = executions, !.activeAbort = {e}, !.run = run]
  BY <1>1 DEF Bridge, Begun
<1>5. executions \in SUBSET Executions /\ {e} \in SUBSET Executions
  BY <1>1 DEF Bridge
<1> HIDE DEF queue, executions, run
<1>6. /\ x \in Bridge /\ x.queue = queue /\ x.executions = executions /\ x.run = run
      /\ x.activeAbort = {e} /\ x.stored = b.stored
  BY <1>1, <1>2, <1>3, <1>4, <1>5 DEF Bridge
<1> HIDE DEF x
<1>7. WellFormed(x)
  <2>1. IsFiniteSet(b.executions) /\ RunsOne(b)
    BY DEF WellFormed
  <2>2. IsFiniteSet(executions)
    BY <2>1, FS_AddElement DEF executions
  <2>3. RunsOne(x)
    BY <1>3, <1>6, <2>1 DEF RunsOne, executions
  <2>4. AbortsOne(x)
    BY <1>6 DEF AbortsOne, executions
  <2>5. RetriesLeft(x)
    BY <1>6 DEF WellFormed, RetriesLeft, executions
  <2> QED
    BY <1>6, <2>2, <2>3, <2>4, <2>5 DEF WellFormed
<1>8. ASSUME NEW n, Aligned(b, n), \A f \in b.executions : f.card # e.card,
             b.run.phase \in {"next", "executing"} =>
               \A j \in DOMAIN b.run.todo : b.run.todo[j] # e.card
      PROVE  Aligned(x, n)
  <2>1. Proper(b.queue, n) /\ Proper(b.stored, n) /\ Indexed(b) /\ Pending(b)
    BY <1>8 DEF Aligned
  <2>2. \A j \in DOMAIN b.queue : queue[j].id = b.queue[j].id
    BY <1>2
  <2>3. Proper(x.queue, n) /\ Proper(x.stored, n)
    BY <1>2, <1>6, <2>1, <2>2 DEF Proper
  <2>4. Pending(x)
    <3>1. phase \in {"next", "executing"} => b.run.phase \in {"next", "executing"}
      OBVIOUS
    <3> QED
      BY <1>3, <1>6, <1>8, <2>1, <3>1 DEF Pending, executions
  <2>5. ASSUME NEW f \in executions
        PROVE  f.index \in DOMAIN queue /\ queue[f.index] = [id |-> f.card, status |-> "running"]
    <3>1. CASE f = e
      BY <1>2, <3>1
    <3>2. CASE f # e
      <4>1. f \in b.executions
        BY <3>2 DEF executions
      <4>2. /\ f.index \in DOMAIN b.queue
            /\ b.queue[f.index] = [id |-> f.card, status |-> "running"]
        BY <2>1, <4>1 DEF Indexed
      <4>3. b.queue[f.index].id = f.card
        BY <4>2
      <4>4. f.index # i
        BY <1>8, <4>1, <4>3
      <4> QED
        BY <1>2, <4>2, <4>4
    <3> QED
      BY <3>1, <3>2
  <2>6. ASSUME NEW j \in DOMAIN queue, queue[j].status = "running"
        PROVE  \E f \in executions : f.card = queue[j].id
    <3>1. CASE j = i
      <4>1. queue[i].id = e.card
        BY <1>2
      <4> QED
        BY <3>1, <4>1 DEF executions
    <3>2. CASE j # i
      <4>1. j \in DOMAIN b.queue /\ queue[j] = b.queue[j]
        BY <1>2, <3>2
      <4> QED
        BY <2>1, <2>6, <4>1 DEF Indexed, executions
    <3> QED
      BY <3>1, <3>2
  <2>7. \A f, g \in executions : f.card = g.card => f = g
    BY <1>8, <2>1 DEF Indexed, executions
  <2>8. Indexed(x)
    BY <1>6, <2>5, <2>6, <2>7 DEF Indexed
  <2> QED
    BY <2>3, <2>4, <2>8 DEF Aligned
<1> QED
  BY <1>6, <1>7, <1>8 DEF x, executions

LEMMA ExecutedWell ==
  ASSUME NEW b, WellFormed(b), NEW c \in Cards, NEW by \in {"run", "user"},
         by = "run" => b.run.phase = "next"
  PROVE  LET x == Executed(b, c, by)
         IN  /\ WellFormed(x)
             /\ \/ x.executions = b.executions
                \/ \E e \in Executions : /\ e.card = c /\ e.phase = "waiting"
                                         /\ x.executions = b.executions \union {e}
             /\ \A n : /\ Aligned(b, n)
                       /\ \A f \in b.executions : f.card # c
                       /\ b.run.phase \in {"next", "executing"} =>
                            \A j \in DOMAIN b.run.todo : b.run.todo[j] # c
                       => Aligned(x, n)
<1> DEFINE i == FindIndex(b.queue, c)
           x == Executed(b, c, by)
           e == [card |-> c, by |-> by, index |-> i, attempt |-> 0, phase |-> "waiting"]
<1>1. b \in Bridge /\ b.queue \in Seq(Slot)
  BY BridgeParts DEF WellFormed
<1>2. i = 0 \/ (i \in DOMAIN b.queue /\ b.queue[i].id = c)
  BY <1>1, Found
<1>3. DOMAIN b.queue \subseteq Nat \ {0}
  BY <1>1, QueueParts
<1> HIDE DEF i
<1>4. ASSUME NEW y, WellFormed(y), y.executions = b.executions, y.run = b.run, NEW status,
             x = Returned(y, by, status),
             \A n : Aligned(b, n) /\ (\A f \in b.executions : f.card # c) => Aligned(y, n)
      PROVE  /\ WellFormed(x) /\ x.executions = b.executions
             /\ \A n : Aligned(b, n) /\ (\A f \in b.executions : f.card # c) => Aligned(x, n)
  <2>1. y \in Bridge
    BY <1>4 DEF WellFormed
  <2>2. x.executions = b.executions
    BY <1>4, <2>1, ReturnedFields
  <2>3. by = "run" => y.run.phase = "next"
    BY <1>4
  <2> HIDE DEF x
  <2> QED
    BY <1>4, <2>2, <2>3, ReturnedWell
<1>5. CASE i = 0
  <2>1. x = Returned(b, by, "failed")
    BY <1>5 DEF Executed, i
  <2> QED
    BY <1>4, <2>1
<1>6. CASE i > 0 /\ b.queue[i].status = "completed"
  <2>1. x = Returned(b, by, "completed")
    BY <1>6 DEF Executed, i
  <2> QED
    BY <1>4, <2>1
<1>7. CASE i > 0 /\ b.queue[i].status # "completed" /\ getPreflightFailure(c)
  <2> DEFINE blocked == [b EXCEPT !.queue[i].status = "blocked"]
             y == Persisted(blocked)
  <2>1. x = Returned(y, by, "blocked")
    BY <1>7 DEF Executed, i
  <2>2. i \in DOMAIN b.queue /\ b.queue[i].id = c
    BY <1>2, <1>7
  <2>3. /\ WellFormed(blocked) /\ blocked.executions = b.executions /\ blocked.run = b.run
        /\ \A n : Aligned(b, n) /\ (\A f \in b.executions : f.card # c) => Aligned(blocked, n)
    BY <2>2, BlockedWell
  <2> HIDE DEF blocked, x
  <2>4. WellFormed(y) /\ \A n : Aligned(blocked, n) => Aligned(y, n)
    BY <2>3, PersistedWell
  <2>5. y.executions = b.executions /\ y.run = b.run
    <3>1. blocked \in Bridge
      BY <2>3 DEF WellFormed
    <3> QED
      BY <2>3, <3>1, PersistedFields
  <2> HIDE DEF y
  <2> QED
    BY <1>4, <2>1, <2>3, <2>4, <2>5 DEF x
<1>8. CASE i > 0 /\ b.queue[i].status # "completed" /\ ~getPreflightFailure(c)
  <2>1. i \in DOMAIN b.queue /\ b.queue[i].id = c /\ i \in Nat \ {0}
    BY <1>2, <1>3, <1>8
  <2>2. 0 \in 0 .. MaxRetries
    BY CopilotConstants
  <2>3. /\ e \in Executions /\ e.phase = "waiting" /\ e.index = i /\ e.card = c /\ e.by = by
    BY <2>1, <2>2 DEF Executions
  <2>4. x = Begun(b, e)
    BY <1>8 DEF Executed, Begun, i
  <2> HIDE DEF e, x
  <2>5. /\ WellFormed(x) /\ x.executions = b.executions \union {e}
        /\ \A n : /\ Aligned(b, n)
                  /\ \A f \in b.executions : f.card # e.card
                  /\ b.run.phase \in {"next", "executing"} =>
                       \A j \in DOMAIN b.run.todo : b.run.todo[j] # e.card
                  => Aligned(x, n)
    BY <2>1, <2>3, <2>4, BegunWell
  <2> QED
    BY <2>3, <2>5 DEF x
<1>9. i = 0 \/ i > 0
  BY <1>2, <1>3
<1> QED
  BY <1>5, <1>6, <1>7, <1>8, <1>9

\* Another run, of as many executions.
LEMMA RunReplaced ==
  ASSUME NEW b, WellFormed(b), NEW run \in RunRecord,
         run.phase = "executing" <=> b.run.phase = "executing"
  PROVE  LET x == [b EXCEPT !.run = run]
         IN  /\ WellFormed(x) /\ x.run = run
             /\ x.queue = b.queue /\ x.executions = b.executions /\ x.activeAbort = b.activeAbort
             /\ \A n : Aligned(b, n) /\ Pending(x) => Aligned(x, n)
<1> DEFINE x == [b EXCEPT !.run = run]
<1>1. b \in Bridge
  BY DEF WellFormed
<1>2. /\ x \in Bridge /\ x.run = run /\ x.queue = b.queue /\ x.executions = b.executions
      /\ x.activeAbort = b.activeAbort /\ x.stored = b.stored
  BY <1>1 DEF Bridge
<1> HIDE DEF x
<1>3. WellFormed(x)
  BY <1>2 DEF WellFormed, RunsOne, AbortsOne, RetriesLeft
<1>4. ASSUME NEW n, Aligned(b, n), Pending(x)
      PROVE  Aligned(x, n)
  BY <1>2, <1>4 DEF Aligned, Indexed
<1> QED
  BY <1>2, <1>3, <1>4 DEF x

\* Another queue, saved.
LEMMA QueueReplaced ==
  ASSUME NEW b, WellFormed(b), NEW q \in Seq(Slot)
  PROVE  LET x == Persisted([b EXCEPT !.queue = q])
         IN  /\ WellFormed(x) /\ x.executions = b.executions
             /\ \A n, m : /\ Aligned(b, n) /\ b.executions = {}
                          /\ Proper(q, m) /\ (\A i \in DOMAIN q : q[i].status # "running")
                          => Aligned(x, m)
<1> DEFINE y == [b EXCEPT !.queue = q]
           x == Persisted(y)
<1>1. b \in Bridge
  BY DEF WellFormed
<1>2. /\ y \in Bridge /\ y.run = b.run /\ y.queue = q /\ y.executions = b.executions
      /\ y.activeAbort = b.activeAbort
  BY <1>1 DEF Bridge
<1> HIDE DEF y
<1>3. /\ x \in Bridge /\ x.run = b.run /\ x.queue = q /\ x.executions = b.executions
      /\ x.activeAbort = b.activeAbort /\ x.stored = q
  BY <1>2, PersistedFields
<1> HIDE DEF x
<1>4. WellFormed(x)
  BY <1>3 DEF WellFormed, RunsOne, AbortsOne, RetriesLeft
<1>5. ASSUME NEW n, NEW m, Aligned(b, n), b.executions = {}, Proper(q, m),
             \A i \in DOMAIN q : q[i].status # "running"
      PROVE  Aligned(x, m)
  <2>1. Pending(x)
    BY <1>3, <1>5 DEF Aligned, Pending
  <2>2. Indexed(x)
    BY <1>3, <1>5 DEF Indexed
  <2> QED
    BY <1>3, <1>5, <2>1, <2>2 DEF Aligned
<1> QED
  BY <1>3, <1>4, <1>5 DEF x, y

LEMMA EndedWell ==
  ASSUME NEW b, WellFormed(b), b.run.phase = "next"
  PROVE  /\ WellFormed(Ended(b)) /\ Ended(b).executions = b.executions
         /\ \A n : Aligned(b, n) => Aligned(Ended(b), n)
<1>1. b \in Bridge
  BY DEF WellFormed
<1> QED
  BY <1>1, EndedFields DEF WellFormed, RunsOne, AbortsOne, RetriesLeft, Aligned, Indexed, Pending

-----------------------------------------------------------------------------
(* The handlers.                                                            *)

LEMMA StartedHandlers ==
  ASSUME handlers \in [Cards -> Nat], NEW b, IsFiniteSet(b.executions)
  PROVE  /\ Started(b) \in [Cards -> Nat]
         /\ b.executions \subseteq bridge.executions => Started(b) = handlers
         /\ Shown => \A e : b.executions \ bridge.executions = {e} /\ e.phase = "waiting" =>
              \A c \in Cards : Started(b)[c] = handlers[c] + IF c = e.card THEN 1 ELSE 0
<1> DEFINE New(c) ==
      {e \in b.executions \ bridge.executions : e.card = c /\ e.phase = "waiting"}
<1>1. \A c : IsFiniteSet(New(c))
  BY FS_Subset
<1> HIDE DEF New
<1>2. \A c : Cardinality(New(c)) \in Nat
  BY <1>1, FS_CardinalityType
<1>3. \A c : Requests(b, c) = Cardinality(New(c))
  BY DEF Requests, New
<1>4. Started(b) \in [Cards -> Nat]
  BY <1>2, <1>3 DEF Started
<1>5. ASSUME b.executions \subseteq bridge.executions
      PROVE  Started(b) = handlers
  <2>1. \A c : New(c) = {}
    BY <1>5 DEF New
  <2>2. \A c : Requests(b, c) = 0
    BY <1>3, <2>1, FS_EmptySet
  <2>3. \A c \in Cards : handlers[c] + Requests(b, c) = handlers[c]
    BY <2>2
  <2> QED
    BY <2>3 DEF Started
<1>6. ASSUME Shown, NEW e, b.executions \ bridge.executions = {e}, e.phase = "waiting",
             NEW c \in Cards
      PROVE  Started(b)[c] = handlers[c] + IF c = e.card THEN 1 ELSE 0
  <2>1. New(c) = IF c = e.card THEN {e} ELSE {}
    BY <1>6 DEF New
  <2>2. Requests(b, c) = IF c = e.card THEN 1 ELSE 0
    BY <1>3, <2>1, FS_EmptySet, FS_Singleton
  <2> QED
    BY <1>6, <2>2 DEF Started
<1> QED
  BY <1>4, <1>5, <1>6

\* An aligned queue has no hole.
LEMMA AlignedShown ==
  ASSUME planned \in Nat, Aligned(bridge, planned)
  PROVE  Shown
BY DEF Aligned, Proper, Shown, Hole, NoCard

\* An execution takes the place of those of its card, none of which waited.
LEMMA HandledStarted ==
  ASSUME WellFormed(bridge), OtherTypes, Aligned(bridge, planned), Handled,
         NEW e, e.phase = "waiting", NEW S, \A f \in S : f.card = e.card,
         \A f \in bridge.executions : f.card = e.card => f.phase # "waiting",
         WellFormed(bridge)', bridge'.executions = (bridge.executions \ S) \union {e},
         handlers' = Started(bridge'), gaveUp' = gaveUp
  PROVE  Handled'
<1>1. handlers \in [Cards -> Nat] /\ IsFiniteSet(bridge'.executions) /\ Shown
  BY AlignedShown DEF OtherTypes, WellFormed
<1>2. bridge'.executions \ bridge.executions = {e}
  OBVIOUS
<1> DEFINE b == bridge'
<1>3. \A c \in Cards : handlers'[c] = handlers[c] + IF c = e.card THEN 1 ELSE 0
  <2>1. IsFiniteSet(b.executions) /\ b.executions \ bridge.executions = {e}
    BY <1>1, <1>2
  <2>2. handlers' = Started(b)
    OBVIOUS
  <2> HIDE DEF b
  <2> QED
    BY <1>1, <2>1, <2>2, StartedHandlers
<1>4. ~Waited(bridge, e.card) /\ Waited(bridge', e.card)
  BY DEF Waited
<1>5. \A c \in Cards : c # e.card => (Waited(bridge', c) <=> Waited(bridge, c))
  BY DEF Waited
<1>6. \A c \in Cards \ gaveUp : handlers[c] = IF Waited(bridge, c) THEN 1 ELSE 0
  BY DEF Handled
<1>7. \A c \in Cards \ gaveUp' : handlers'[c] = IF Waited(bridge', c) THEN 1 ELSE 0
  BY <1>3, <1>4, <1>5, <1>6
<1> QED
  BY <1>7 DEF Handled

\* Nothing starts, and the executions that wait are the same.
LEMMA HandledKept ==
  ASSUME Handled, handlers' = handlers, gaveUp \subseteq gaveUp',
         \A c \in Cards \ gaveUp' : Waited(bridge, c)' <=> Waited(bridge, c)
  PROVE  Handled'
<1>1. \A c \in Cards \ gaveUp' : handlers'[c] = IF Waited(bridge', c) THEN 1 ELSE 0
  BY DEF Handled
<1> QED
  BY <1>1 DEF Handled

-----------------------------------------------------------------------------
(* The steps that replace the queue, or save it.                            *)

LEMMA InvParts ==
  ASSUME Inv
  PROVE  /\ WellFormed(bridge) /\ OtherTypes
         /\ ~displaced => Aligned(bridge, planned) /\ Handled
BY DEF Inv

\* A card that is not marked running is not executed.
LEMMA NotExecuted ==
  ASSUME NEW b, NEW n, Aligned(b, n), NEW i \in DOMAIN b.queue, b.queue[i].status # "running"
  PROVE  \A e \in b.executions : e.card # b.queue[i].id
<1> SUFFICES ASSUME NEW e \in b.executions, e.card = b.queue[i].id
             PROVE  FALSE
  OBVIOUS
<1>1. e.index \in DOMAIN b.queue /\ b.queue[e.index] = [id |-> e.card, status |-> "running"]
  BY DEF Aligned, Indexed
<1>2. b.queue[e.index].id = e.card /\ b.queue[e.index].status = "running"
  BY <1>1
<1>3. e.index = i
  BY <1>1, <1>2 DEF Aligned, Proper
<1> QED
  BY <1>2, <1>3

\* The queue with the cards of a plan, sorted and cut.
LEMMA PlannedQueue ==
  ASSUME NEW q \in Seq(Slot), NEW p \in Nat, NEW n \in Nat, p + n <= NumCards,
         NEW created, created = [i \in 1 .. n |-> [id |-> p + i, status |-> "queued"]],
         NEW sorted \in sortQueue(q \o created)
  PROVE  LET r == SubSeq(sorted, 1, Min({Len(sorted), QueueLimit}))
         IN  /\ r \in Seq(Slot)
             /\ Proper(q, p) => Proper(r, p + n)
             /\ (\A i \in DOMAIN q : q[i].status # "running") =>
                  \A i \in DOMAIN r : r[i].status # "running"
<1> DEFINE all == q \o created
           k == Min({Len(sorted), QueueLimit})
           r == SubSeq(sorted, 1, k)
           l == Len(q)
<1>1. \A i \in 1 .. n : created[i].id = p + i /\ created[i].status = "queued"
  OBVIOUS
<1>2. \A i \in 1 .. n : created[i] \in Slot
  <2>1. ASSUME NEW i \in 1 .. n
        PROVE  p + i \in Cards /\ "queued" \in Statuses
    BY CopilotConstants DEF Cards, Statuses
  <2> QED
    BY <2>1 DEF Slot
<1>3. created \in Seq(Slot) /\ Len(created) = n /\ DOMAIN created = 1 .. n
  <2> DEFINE new == created
  <2>1. DOMAIN new = 1 .. n /\ new \in [1 .. n -> Slot]
    BY <1>2
  <2> HIDE DEF new
  <2>2. new \in Seq(Slot) /\ Len(new) = n
    BY <2>1
  <2> QED
    BY <2>1, <2>2 DEF new
<1>4. /\ l \in Nat /\ DOMAIN q = 1 .. l /\ all \in Seq(Slot) /\ DOMAIN all = 1 .. (l + n)
      /\ \A i \in 1 .. l : all[i] = q[i]
      /\ \A i \in 1 .. n : all[l + i] = created[i]
  <2>1. l \in Nat /\ DOMAIN q = 1 .. l
    OBVIOUS
  <2> DEFINE new == created
  <2>2. new \in Seq(Slot) /\ Len(new) = n
    BY <1>3
  <2> HIDE DEF new
  <2>3. /\ q \o new \in Seq(Slot) /\ DOMAIN (q \o new) = 1 .. (l + n)
        /\ \A i \in 1 .. l : (q \o new)[i] = q[i]
        /\ \A i \in 1 .. n : (q \o new)[l + i] = new[i]
    BY <2>1, <2>2
  <2> QED
    BY <2>1, <2>3 DEF new
<1> HIDE DEF all, l
<1>5. \A i \in 1 .. (l + n) : i \in 1 .. l \/ \E j \in 1 .. n : i = l + j
  <2> SUFFICES ASSUME NEW i \in 1 .. (l + n), i \notin 1 .. l
               PROVE  \E j \in 1 .. n : i = l + j
    OBVIOUS
  <2>1. i - l \in 1 .. n /\ i = l + (i - l)
    BY <1>4
  <2> QED
    BY <2>1
<1>6. ASSUME Proper(q, p)
      PROVE  Proper(all, p + n)
  <2>1. \A i \in 1 .. l : all[i].id \in 1 .. p
    BY <1>4, <1>6 DEF Proper
  <2>2. \A i \in 1 .. n : all[l + i].id = p + i
    BY <1>1, <1>4
  <2>3. \A i, j \in 1 .. l : all[i].id = all[j].id => i = j
    BY <1>4, <1>6 DEF Proper
  <2>4. \A i \in 1 .. (l + n) : all[i].id \in 1 .. (p + n)
    BY <1>5, <2>1, <2>2
  <2>5. \A i, j \in 1 .. (l + n) : all[i].id = all[j].id => i = j
    <3> TAKE i, j \in 1 .. (l + n)
    <3> HAVE all[i].id = all[j].id
    <3>1. CASE i \in 1 .. l /\ j \in 1 .. l
      BY <2>3, <3>1
    <3>2. CASE i \in 1 .. l /\ j \notin 1 .. l
      BY <1>5, <2>1, <2>2, <3>2
    <3>3. CASE i \notin 1 .. l /\ j \in 1 .. l
      BY <1>5, <2>1, <2>2, <3>3
    <3>4. CASE i \notin 1 .. l /\ j \notin 1 .. l
      <4>1. PICK x \in 1 .. n : i = l + x
        BY <1>5, <3>4
      <4>2. PICK y \in 1 .. n : j = l + y
        BY <1>5, <3>4
      <4>3. p + x = p + y
        BY <2>2, <4>1, <4>2
      <4> QED
        BY <1>4, <4>1, <4>2, <4>3
    <3> QED
      BY <3>1, <3>2, <3>3, <3>4
  <2> QED
    BY <1>4, <2>4, <2>5 DEF Proper
<1>7. ASSUME \A i \in DOMAIN q : q[i].status # "running"
      PROVE  \A i \in DOMAIN all : all[i].status # "running"
  <2>1. \A i \in 1 .. l : all[i].status # "running"
    BY <1>4, <1>7
  <2>2. \A i \in 1 .. n : all[l + i].status # "running"
    BY <1>1, <1>4
  <2>3. \A i \in 1 .. (l + n) : all[i].status # "running"
    BY <1>5, <2>1, <2>2
  <2> QED
    BY <1>4, <2>3
<1>8. /\ sorted \in Seq(Slot)
      /\ \A i \in DOMAIN sorted : \E j \in DOMAIN all : sorted[i] = all[j]
      /\ \A limit : Proper(all, limit) => Proper(sorted, limit)
  <2>1. all \in Seq(Slot) /\ sorted \in sortQueue(all)
    BY <1>4 DEF all
  <2> QED
    BY <2>1, SortedCards
<1>9. k \in Nat /\ k <= Len(sorted)
  <2>1. Len(sorted) \in Nat /\ QueueLimit \in Nat
    BY <1>8, CopilotConstants
  <2>2. {Len(sorted), QueueLimit} \in SUBSET Nat /\ {Len(sorted), QueueLimit} # {}
    BY <2>1
  <2>3. k \in {Len(sorted), QueueLimit} /\ \A j \in {Len(sorted), QueueLimit} : k <= j
    BY <2>2, LeastOf
  <2> QED
    BY <2>1, <2>3
<1> HIDE DEF k
<1>10. /\ r \in Seq(Slot) /\ DOMAIN r = 1 .. k
       /\ \A i \in 1 .. k : i \in DOMAIN sorted /\ r[i] = sorted[i]
  BY <1>8, <1>9
<1> HIDE DEF r
<1>11. \A limit : Proper(sorted, limit) => Proper(r, limit)
  BY <1>10 DEF Proper
<1>12. Proper(q, p) => Proper(r, p + n)
  BY <1>6, <1>8, <1>11
<1>13. (\A i \in DOMAIN q : q[i].status # "running") =>
         \A i \in DOMAIN r : r[i].status # "running"
  BY <1>7, <1>8, <1>10
<1> QED
  BY <1>10, <1>12, <1>13 DEF r, k

LEMMA PlanStep ==
  ASSUME Inv, NEW n \in Cards, Plan(n)
  PROVE  Inv'
<1> DEFINE created == [i \in 1 .. n |-> [id |-> planned + i, status |-> "queued"]]
<1>1. /\ WellFormed(bridge) /\ OtherTypes
      /\ ~displaced => Aligned(bridge, planned) /\ Handled
  BY InvParts
<1>2. PICK sorted \in sortQueue(bridge.queue \o created) :
        bridge' = Persisted([bridge EXCEPT !.queue =
                               SubSeq(sorted, 1, Min({Len(sorted), QueueLimit}))])
  BY DEF Plan
<1>3. /\ planned + n <= NumCards /\ planned' = planned + n
      /\ displaced' = (displaced \/ bridge.executions # {})
      /\ preflightOk' = preflightOk /\ handlers' = handlers /\ gaveUp' = gaveUp
  BY DEF Plan
<1> DEFINE r == SubSeq(sorted, 1, Min({Len(sorted), QueueLimit}))
<1>4. n \in Nat /\ planned \in Nat /\ bridge.queue \in Seq(Slot)
  BY <1>1, CopilotConstants, BridgeParts DEF OtherTypes, WellFormed
<1>5. /\ r \in Seq(Slot)
      /\ Proper(bridge.queue, planned) => Proper(r, planned + n)
      /\ (\A i \in DOMAIN bridge.queue : bridge.queue[i].status # "running") =>
           \A i \in DOMAIN r : r[i].status # "running"
  <2> DEFINE new == created
  <2>1. new = [i \in 1 .. n |-> [id |-> planned + i, status |-> "queued"]]
    OBVIOUS
  <2>2. sorted \in sortQueue(bridge.queue \o new)
    OBVIOUS
  <2> HIDE DEF new
  <2> QED
    BY <1>3, <1>4, <2>1, <2>2, PlannedQueue
<1>6. bridge' = Persisted([bridge EXCEPT !.queue = r])
  BY <1>2
<1> HIDE DEF r, created
<1>7. /\ WellFormed(bridge') /\ bridge'.executions = bridge.executions
      /\ \A k, m : /\ Aligned(bridge, k) /\ bridge.executions = {}
                   /\ Proper(r, m) /\ (\A i \in DOMAIN r : r[i].status # "running")
                   => Aligned(bridge', m)
  BY <1>1, <1>5, <1>6, QueueReplaced
<1>8. OtherTypes'
  BY <1>1, <1>3, <1>4, CopilotConstants DEF OtherTypes
<1>9. ASSUME ~displaced'
      PROVE  Aligned(bridge', planned') /\ Handled'
  <2>1. Aligned(bridge, planned) /\ Handled /\ bridge.executions = {}
    BY <1>1, <1>3, <1>9
  <2>2. \A i \in DOMAIN bridge.queue : bridge.queue[i].status # "running"
    BY <2>1 DEF Aligned, Indexed
  <2>3. Proper(r, planned')
    BY <1>3, <1>5, <2>1 DEF Aligned
  <2>4. Handled'
    BY <1>3, <1>7, <2>1, HandledKept DEF Waited
  <2> QED
    BY <1>5, <1>7, <2>1, <2>2, <2>3, <2>4
<1> QED
  BY <1>7, <1>8, <1>9 DEF Inv

LEMMA ClearStep ==
  ASSUME Inv, clearQueue
  PROVE  Inv'
<1>1. /\ WellFormed(bridge) /\ OtherTypes
      /\ ~displaced => Aligned(bridge, planned) /\ Handled
  BY InvParts
<1>2. /\ bridge' = Persisted([bridge EXCEPT !.queue = <<>>])
      /\ displaced' = (displaced \/ bridge.executions # {}) /\ planned' = planned
      /\ preflightOk' = preflightOk /\ handlers' = handlers /\ gaveUp' = gaveUp
  BY DEF clearQueue
<1> DEFINE r == <<>>
<1>3. r \in Seq(Slot) /\ DOMAIN r = {}
  OBVIOUS
<1> HIDE DEF r
<1>4. Proper(r, planned)
  BY <1>3 DEF Proper
<1>5. /\ WellFormed(bridge') /\ bridge'.executions = bridge.executions
      /\ \A k, m : /\ Aligned(bridge, k) /\ bridge.executions = {}
                   /\ Proper(r, m) /\ (\A i \in DOMAIN r : r[i].status # "running")
                   => Aligned(bridge', m)
  <2>1. bridge' = Persisted([bridge EXCEPT !.queue = r])
    BY <1>2 DEF r
  <2> QED
    BY <1>1, <1>3, <2>1, QueueReplaced
<1>6. OtherTypes'
  BY <1>1, <1>2 DEF OtherTypes
<1>7. ASSUME ~displaced'
      PROVE  Aligned(bridge', planned') /\ Handled'
  <2>1. Aligned(bridge, planned) /\ Handled /\ bridge.executions = {}
    BY <1>1, <1>2, <1>7
  <2>2. Handled'
    BY <1>2, <1>5, <2>1, HandledKept DEF Waited
  <2> QED
    BY <1>2, <1>3, <1>4, <1>5, <2>1, <2>2
<1> QED
  BY <1>5, <1>6, <1>7 DEF Inv

LEMMA ContextStep ==
  ASSUME Inv, setContext
  PROVE  Inv'
<1>1. /\ WellFormed(bridge) /\ OtherTypes
      /\ ~displaced => Aligned(bridge, planned) /\ Handled
  BY InvParts
<1>2. /\ bridge' = Persisted(bridge) /\ preflightOk' = ~preflightOk /\ planned' = planned
      /\ handlers' = handlers /\ gaveUp' = gaveUp /\ displaced' = displaced
  BY DEF setContext
<1>3. /\ WellFormed(bridge') /\ bridge'.executions = bridge.executions
      /\ \A n : Aligned(bridge, n) => Aligned(bridge', n)
  <2>1. bridge \in Bridge
    BY <1>1 DEF WellFormed
  <2> QED
    BY <1>1, <1>2, <2>1, PersistedWell, PersistedFields
<1>4. OtherTypes'
  BY <1>1, <1>2 DEF OtherTypes
<1>5. Handled => Handled'
  BY <1>2, <1>3, HandledKept DEF Waited
<1> QED
  BY <1>1, <1>2, <1>3, <1>4, <1>5 DEF Inv

-----------------------------------------------------------------------------
(* The steps of the run, and of the user on it.                             *)

LEMMA ExecutedStep ==
  ASSUME Inv, NEW b, WellFormed(b), b.executions = bridge.executions,
         NEW c \in Cards, NEW by \in {"run", "user"}, by = "run" => b.run.phase = "next",
         ~displaced => /\ Aligned(b, planned)
                       /\ \A e \in b.executions : e.card # c
                       /\ b.run.phase \in {"next", "executing"} =>
                            \A j \in DOMAIN b.run.todo : b.run.todo[j] # c,
         bridge' = Executed(b, c, by), handlers' = Started(bridge'),
         UNCHANGED <<planned, preflightOk, gaveUp, displaced>>
  PROVE  Inv'
<1>1. /\ WellFormed(bridge) /\ OtherTypes
      /\ ~displaced => Aligned(bridge, planned) /\ Handled
  BY InvParts
<1> DEFINE x == bridge'
<1>2. /\ WellFormed(x)
      /\ \/ x.executions = b.executions
         \/ \E e \in Executions : /\ e.card = c /\ e.phase = "waiting"
                                  /\ x.executions = b.executions \union {e}
      /\ \A n : /\ Aligned(b, n)
                /\ \A f \in b.executions : f.card # c
                /\ b.run.phase \in {"next", "executing"} =>
                     \A j \in DOMAIN b.run.todo : b.run.todo[j] # c
                => Aligned(x, n)
  <2>1. x = Executed(b, c, by)
    OBVIOUS
  <2> HIDE DEF x
  <2> QED
    BY <2>1, ExecutedWell
<1>3. /\ Started(x) \in [Cards -> Nat]
      /\ x.executions \subseteq bridge.executions => Started(x) = handlers
  <2>1. handlers \in [Cards -> Nat] /\ IsFiniteSet(x.executions)
    BY <1>1, <1>2 DEF OtherTypes, WellFormed
  <2> HIDE DEF x
  <2> QED
    BY <2>1, StartedHandlers
<1>4. OtherTypes'
  BY <1>1, <1>3 DEF OtherTypes
<1>5. ASSUME ~displaced
      PROVE  Handled'
  <2>1. Aligned(bridge, planned) /\ Handled /\ \A e \in bridge.executions : e.card # c
    BY <1>1, <1>5
  <2>2. CASE x.executions = b.executions
    <3>1. handlers' = handlers
      BY <1>3, <2>2
    <3> QED
      BY <2>1, <2>2, <3>1, HandledKept DEF Waited
  <2>3. CASE \E e \in Executions : /\ e.card = c /\ e.phase = "waiting"
                                   /\ x.executions = b.executions \union {e}
    <3>1. PICK e \in Executions : /\ e.card = c /\ e.phase = "waiting"
                                  /\ x.executions = b.executions \union {e}
      BY <2>3
    <3> DEFINE S == {}
    <3>2. bridge'.executions = (bridge.executions \ S) \union {e} /\ \A f \in S : f.card = e.card
      BY <3>1
    <3> HIDE DEF S
    <3>3. \A f \in bridge.executions : f.card = e.card => f.phase # "waiting"
      BY <2>1, <3>1
    <3>4. WellFormed(bridge)' /\ gaveUp' = gaveUp
      BY <1>2
    <3> QED
      BY <1>1, <2>1, <3>1, <3>2, <3>3, <3>4, HandledStarted
  <2> QED
    BY <1>2, <2>2, <2>3
<1> QED
  BY <1>2, <1>4, <1>5 DEF Inv

LEMMA RunOneStep ==
  ASSUME Inv, NEW c \in Cards, RunOne(c)
  PROVE  Inv'
<1>1. WellFormed(bridge) /\ (~displaced => Aligned(bridge, planned))
  BY InvParts
<1>2. PICK i \in DOMAIN bridge.queue :
        bridge.queue[i].id = c /\ bridge.queue[i].status # "running"
  BY DEF RunOne
<1>3. /\ bridge.run.phase = "idle" /\ bridge' = Executed(bridge, c, "user")
      /\ handlers' = Started(bridge') /\ UNCHANGED <<planned, preflightOk, gaveUp, displaced>>
  BY DEF RunOne
<1>4. ASSUME ~displaced
      PROVE  \A e \in bridge.executions : e.card # c
  <2>1. Aligned(bridge, planned)
    BY <1>1, <1>4
  <2>2. \A e \in bridge.executions : e.card # bridge.queue[i].id
    BY <1>2, <2>1, NotExecuted
  <2> QED
    BY <1>2, <2>2
<1> DEFINE by == "user"
<1>5. /\ by \in {"run", "user"} /\ (by = "run" => bridge.run.phase = "next")
      /\ bridge' = Executed(bridge, c, by)
  BY <1>3
<1>6. ~displaced => /\ Aligned(bridge, planned)
                    /\ \A e \in bridge.executions : e.card # c
                    /\ bridge.run.phase \in {"next", "executing"} =>
                         \A j \in DOMAIN bridge.run.todo : bridge.run.todo[j] # c
  BY <1>1, <1>3, <1>4
<1> HIDE DEF by
<1> QED
  BY <1>1, <1>3, <1>5, <1>6, ExecutedStep

LEMMA RunNextStep ==
  ASSUME Inv, RunNext
  PROVE  Inv'
<1>1. /\ WellFormed(bridge) /\ OtherTypes
      /\ ~displaced => Aligned(bridge, planned) /\ Handled
  BY InvParts
<1>2. /\ bridge.run.phase = "next" /\ handlers' = Started(bridge')
      /\ UNCHANGED <<planned, preflightOk, gaveUp, displaced>>
  BY DEF RunNext
<1>3. CASE bridge.run.cancelRequested \/ bridge.run.todo = <<>>
  <2>1. bridge' = Ended(bridge)
    BY <1>3 DEF RunNext
  <2>2. /\ WellFormed(bridge') /\ bridge'.executions = bridge.executions
        /\ \A n : Aligned(bridge, n) => Aligned(bridge', n)
    BY <1>1, <1>2, <2>1, EndedWell
  <2>3. handlers' = handlers
    <3> DEFINE x == bridge'
    <3>1. handlers \in [Cards -> Nat] /\ IsFiniteSet(x.executions)
      BY <1>1, <2>2 DEF OtherTypes, WellFormed
    <3>2. x.executions \subseteq bridge.executions /\ handlers' = Started(x)
      BY <1>2, <2>2
    <3> HIDE DEF x
    <3> QED
      BY <3>1, <3>2, StartedHandlers
  <2>4. OtherTypes'
    BY <1>1, <1>2, <2>3 DEF OtherTypes
  <2>5. Handled => Handled'
    BY <1>2, <2>2, <2>3, HandledKept DEF Waited
  <2> QED
    BY <1>1, <1>2, <2>2, <2>4, <2>5 DEF Inv
<1>4. CASE ~bridge.run.cancelRequested /\ bridge.run.todo # <<>>
  <2> DEFINE todo == bridge.run.todo
             run == [bridge.run EXCEPT !.todo = Tail(@)]
             b == [bridge EXCEPT !.run = run]
  <2>1. bridge \in Bridge /\ bridge.run \in RunRecord /\ todo \in Seq(Cards) /\ todo # <<>>
    BY <1>1, <1>4, BridgeParts DEF WellFormed, RunRecord
  <2>2. /\ Head(todo) \in Cards /\ Tail(todo) \in Seq(Cards) /\ 1 \in DOMAIN todo
        /\ Head(todo) = todo[1] /\ Len(todo) \in Nat
        /\ \A j \in DOMAIN Tail(todo) : /\ j + 1 \in DOMAIN todo /\ j + 1 # 1
                                        /\ Tail(todo)[j] = todo[j + 1]
    BY <2>1
  <2>3. bridge' = Executed(b, Head(todo), "run")
    <3>1. [bridge EXCEPT !.run.todo = Tail(@)] = b
      BY <2>1 DEF Bridge
    <3> QED
      BY <1>4, <3>1 DEF RunNext
  <2>4. /\ run \in RunRecord /\ run.phase = bridge.run.phase /\ run.todo = Tail(todo)
    BY <2>1, <2>2 DEF RunRecord
  <2> DEFINE rest == Tail(todo)
  <2> HIDE DEF run
  <2>5. /\ WellFormed(b) /\ b.run = run /\ b.executions = bridge.executions
        /\ \A n : Aligned(bridge, n) /\ Pending(b) => Aligned(b, n)
    BY <1>1, <2>4, RunReplaced
  <2> HIDE DEF b
  <2>6. ASSUME ~displaced
        PROVE  /\ Aligned(b, planned)
               /\ \A e \in b.executions : e.card # Head(todo)
               /\ \A j \in DOMAIN b.run.todo : b.run.todo[j] # Head(todo)
    <3>1. /\ \A i, j \in DOMAIN todo : todo[i] = todo[j] => i = j
          /\ \A i \in DOMAIN todo, e \in bridge.executions : todo[i] # e.card
      BY <1>1, <1>2, <2>6 DEF Aligned, Pending
    <3>2. DOMAIN rest \subseteq Nat
      BY <2>2
    <3> HIDE DEF rest, todo
    <3>3. \A i, j \in DOMAIN rest : rest[i] = rest[j] => i = j
      <4> TAKE i, j \in DOMAIN rest
      <4> HAVE rest[i] = rest[j]
      <4>1. i + 1 = j + 1
        BY <2>2, <3>1 DEF rest
      <4> QED
        BY <3>2, <4>1
    <3>4. \A j \in DOMAIN rest : rest[j] # Head(todo)
      BY <2>2, <3>1 DEF rest
    <3>5. \A j \in DOMAIN rest, e \in bridge.executions : rest[j] # e.card
      BY <2>2, <3>1 DEF rest
    <3>6. b.run.todo = rest
      BY <2>4, <2>5 DEF rest
    <3>7. Pending(b)
      BY <2>5, <3>3, <3>5, <3>6 DEF Pending
    <3> QED
      BY <1>1, <2>2, <2>5, <2>6, <3>1, <3>4, <3>6, <3>7
  <2>7. b.run.phase = "next"
    BY <1>2, <2>4, <2>5
  <2> DEFINE c == Head(todo)
  <2>8. c \in Cards /\ bridge' = Executed(b, c, "run")
    BY <2>2, <2>3
  <2>9. ~displaced => /\ Aligned(b, planned)
                      /\ \A e \in b.executions : e.card # c
                      /\ \A j \in DOMAIN b.run.todo : b.run.todo[j] # c
    BY <2>6
  <2> HIDE DEF c
  <2> QED
    BY <1>2, <2>5, <2>7, <2>8, <2>9, ExecutedStep
<1> QED
  BY <1>3, <1>4

\* A step that replaces the run only.
LEMMA RunStep ==
  ASSUME Inv, NEW run \in RunRecord, bridge' = [bridge EXCEPT !.run = run],
         run.phase = "executing" <=> bridge.run.phase = "executing",
         ~displaced => Pending(bridge'),
         UNCHANGED <<planned, preflightOk, handlers, gaveUp, displaced>>
  PROVE  Inv'
<1>1. /\ WellFormed(bridge) /\ OtherTypes
      /\ ~displaced => Aligned(bridge, planned) /\ Handled
  BY InvParts
<1>2. /\ WellFormed(bridge') /\ bridge'.executions = bridge.executions
      /\ \A n : Aligned(bridge, n) /\ Pending(bridge') => Aligned(bridge', n)
  BY <1>1, RunReplaced
<1>3. OtherTypes'
  BY <1>1 DEF OtherTypes
<1>4. Handled => Handled'
  BY <1>2, HandledKept DEF Waited
<1> QED
  BY <1>1, <1>2, <1>3, <1>4 DEF Inv

LEMMA RunAllStep ==
  ASSUME Inv, NEW stop \in BOOLEAN, RunAll(stop)
  PROVE  Inv'
<1> DEFINE q == bridge.queue
           queued == NotYetRunning(q)
           todo == [i \in DOMAIN queued |-> queued[i].id]
           run == [NotRunning EXCEPT !.phase = "next", !.stopOnFailure = stop, !.todo = todo]
<1>1. WellFormed(bridge) /\ (~displaced => Aligned(bridge, planned))
  BY InvParts
<1>2. /\ Shown /\ bridge.run.phase = "idle" /\ bridge' = [bridge EXCEPT !.run = run]
      /\ UNCHANGED <<planned, preflightOk, handlers, gaveUp, displaced>>
  BY DEF RunAll
<1>3. bridge \in Bridge /\ q \in Seq(Slot)
  BY <1>1, BridgeParts DEF WellFormed
<1>4. /\ queued \in Seq(Slot)
      /\ \A i \in DOMAIN queued : \E j \in DOMAIN q : /\ queued[i] = q[j]
                                                      /\ q[j].status # "running"
      /\ \A n : Proper(q, n) => Proper(queued, n)
  <2> DEFINE wanted == Statuses \ {"running"}
  <2>1. queued = Filtered(q, wanted) /\ \A status \in wanted : status # "running"
    BY DEF NotYetRunning
  <2> HIDE DEF q, queued, wanted
  <2>2. /\ Filtered(q, wanted) \in Seq(Slot)
        /\ \A i \in DOMAIN Filtered(q, wanted) :
             \E j \in DOMAIN q : /\ Filtered(q, wanted)[i] = q[j]
                                 /\ q[j].status \in wanted
        /\ \A n : Proper(q, n) => Proper(Filtered(q, wanted), n)
    BY <1>3, FilteredCards
  <2> QED
    BY <2>1, <2>2
<1>5. \A i \in DOMAIN queued : queued[i].id \in Cards
  <2>1. \A j \in DOMAIN q : q[j] \in Slot /\ q[j] # Hole
    BY <1>2, <1>3 DEF Shown
  <2>2. \A j \in DOMAIN q : q[j].id \in Cards
    BY <2>1, SlotParts DEF Slot
  <2> QED
    BY <1>4, <2>2
<1> HIDE DEF queued
<1>6. todo \in Seq(Cards) /\ DOMAIN todo = DOMAIN queued
  <2>1. Len(queued) \in Nat /\ DOMAIN queued = 1 .. Len(queued)
    BY <1>4
  <2>2. todo \in [1 .. Len(queued) -> Cards]
    BY <1>5, <2>1
  <2> HIDE DEF todo
  <2> QED
    BY <2>1, <2>2
<1>7. \A i \in DOMAIN queued : todo[i] = queued[i].id
  OBVIOUS
<1> HIDE DEF todo
<1>8. run \in RunRecord /\ run.phase = "next" /\ run.todo = todo
  BY <1>6 DEF NotRunning, RunRecord
<1> HIDE DEF run
<1>9. bridge'.run = run /\ bridge'.executions = bridge.executions
  BY <1>1, <1>2, <1>3, <1>8 DEF Bridge
<1>10. ASSUME ~displaced
       PROVE  Pending(bridge')
  <2>1. Aligned(bridge, planned)
    BY <1>1, <1>10
  <2>2. Proper(queued, planned)
    BY <1>4, <2>1 DEF Aligned
  <2>3. \A i, j \in DOMAIN todo : todo[i] = todo[j] => i = j
    BY <1>6, <1>7, <2>2 DEF Proper
  <2>4. \A j \in DOMAIN q : q[j].status # "running" =>
          \A e \in bridge.executions : e.card # q[j].id
    BY <2>1, NotExecuted
  <2> HIDE DEF q
  <2>5. \A i \in DOMAIN todo, e \in bridge.executions : todo[i] # e.card
    BY <1>4, <1>6, <1>7, <2>4
  <2> QED
    BY <1>8, <1>9, <2>3, <2>5 DEF Pending
<1> QED
  BY <1>2, <1>8, <1>10, RunStep

LEMMA PostStep ==
  ASSUME Inv, postTranscript
  PROVE  Inv'
<1> DEFINE run == [bridge.run EXCEPT !.phase = "idle"]
<1>1. bridge \in Bridge /\ bridge.run \in RunRecord
  BY InvParts, BridgeParts DEF WellFormed
<1>2. bridge' = [bridge EXCEPT !.run = run] /\ bridge.run.phase = "posting"
  BY <1>1 DEF postTranscript, Bridge
<1>3. run \in RunRecord /\ run.phase = "idle"
  BY <1>1 DEF RunRecord
<1> HIDE DEF run
<1>4. Pending(bridge')
  BY <1>1, <1>2, <1>3 DEF Pending, Bridge
<1> QED
  BY <1>2, <1>3, <1>4, RunStep DEF postTranscript

\* What is asked of the run while it is at work.
LEMMA RunAsked ==
  ASSUME Inv, NEW run \in RunRecord, run.phase = bridge.run.phase, run.todo = bridge.run.todo
  PROVE  LET b == [bridge EXCEPT !.run = run]
         IN  /\ WellFormed(b)
             /\ b.executions = bridge.executions /\ b.activeAbort = bridge.activeAbort
             /\ ~displaced => Aligned(b, planned)
<1> DEFINE b == [bridge EXCEPT !.run = run]
<1>1. WellFormed(bridge) /\ (~displaced => Aligned(bridge, planned))
  BY InvParts
<1>2. /\ WellFormed(b) /\ b.run = run
      /\ b.executions = bridge.executions /\ b.activeAbort = bridge.activeAbort
      /\ \A n : Aligned(bridge, n) /\ Pending(b) => Aligned(b, n)
  BY <1>1, RunReplaced
<1> HIDE DEF b
<1>3. Pending(bridge) => Pending(b)
  BY <1>2 DEF Pending
<1> QED
  BY <1>1, <1>2, <1>3 DEF Aligned, b

LEMMA PauseStep ==
  ASSUME Inv, pauseQueueExecution \/ resumeQueueExecution
  PROVE  Inv'
<1>1. bridge \in Bridge /\ bridge.run \in RunRecord
  BY InvParts, BridgeParts DEF WellFormed
<1>2. PICK paused \in BOOLEAN :
        /\ bridge' = [bridge EXCEPT !.run.paused = paused]
        /\ UNCHANGED <<planned, preflightOk, handlers, gaveUp, displaced>>
  BY DEF pauseQueueExecution, resumeQueueExecution
<1> DEFINE run == [bridge.run EXCEPT !.paused = paused]
<1>3. bridge' = [bridge EXCEPT !.run = run]
  BY <1>1, <1>2 DEF Bridge
<1>4. run \in RunRecord /\ run.phase = bridge.run.phase /\ run.todo = bridge.run.todo
  BY <1>1 DEF RunRecord
<1> HIDE DEF run
<1>5. ~displaced => Aligned(bridge', planned)
  BY <1>3, <1>4, RunAsked
<1> QED
  BY <1>2, <1>3, <1>4, <1>5, RunStep DEF Aligned

-----------------------------------------------------------------------------
(* The steps that end requests.                                             *)

LEMMA CancelStep ==
  ASSUME Inv, cancelQueueExecution
  PROVE  Inv'
<1> DEFINE run == [bridge.run EXCEPT !.cancelRequested = TRUE, !.paused = FALSE]
           asked == [bridge EXCEPT !.run = run]
           L == bridge.activeAbort
<1>1. /\ WellFormed(bridge) /\ OtherTypes
      /\ ~displaced => Aligned(bridge, planned) /\ Handled
  BY InvParts
<1>2. bridge \in Bridge /\ bridge.run \in RunRecord
  BY <1>1, BridgeParts DEF WellFormed
<1>3. PICK requests \in SetToSeqs(L) : bridge' = SettledInTurn(asked, requests, "cancelled")
  <2>1. [bridge EXCEPT !.run.cancelRequested = TRUE, !.run.paused = FALSE] = asked
    BY <1>2 DEF Bridge
  <2> HIDE DEF asked
  <2> QED
    BY <2>1 DEF cancelQueueExecution
<1>4. /\ gaveUp' = gaveUp \union {e.card : e \in L}
      /\ UNCHANGED <<planned, preflightOk, handlers, displaced>>
  BY DEF cancelQueueExecution
<1>5. run \in RunRecord /\ run.phase = bridge.run.phase /\ run.todo = bridge.run.todo
  BY <1>2 DEF RunRecord
<1> HIDE DEF run
<1>6. /\ WellFormed(asked) /\ asked.executions = bridge.executions
      /\ ~displaced => Aligned(asked, planned)
  BY <1>5, RunAsked
<1> HIDE DEF asked, L
<1>7. L \in SUBSET asked.executions /\ L \subseteq Executions
  BY <1>1, <1>2, <1>6 DEF WellFormed, AbortsOne, Bridge, L
<1>8. /\ WellFormed(bridge')
      /\ \A n : Aligned(asked, n) => Aligned(bridge', n)
      /\ \A f \in bridge'.executions : f \in asked.executions \ L \/ f.phase = "backoff"
      /\ \A f \in asked.executions \ L : f \in bridge'.executions
  BY <1>3, <1>6, <1>7, TurnsTaken
<1>9. OtherTypes'
  <2>1. {e.card : e \in L} \subseteq Cards
    BY <1>7 DEF Executions
  <2> QED
    BY <1>1, <1>4, <2>1 DEF OtherTypes
<1>10. ASSUME NEW c \in Cards \ gaveUp'
       PROVE  Waited(bridge', c) <=> Waited(bridge, c)
  <2>1. \A e \in L : e.card # c
    BY <1>4, <1>10
  <2> QED
    BY <1>6, <1>8, <2>1 DEF Waited
<1>11. Handled => Handled'
  BY <1>4, <1>10, HandledKept
<1> QED
  BY <1>1, <1>4, <1>6, <1>8, <1>9, <1>11 DEF Inv

LEMMA AnswerStep ==
  ASSUME Inv, NEW c \in Cards, NEW outcome, Answer(c, outcome)
  PROVE  Inv'
<1> DEFINE L == {e \in bridge.executions : e.card = c /\ e.phase = "waiting"}
<1>1. /\ WellFormed(bridge) /\ OtherTypes
      /\ ~displaced => Aligned(bridge, planned) /\ Handled
  BY InvParts
<1>2. PICK requests \in SetToSeqs(L) : bridge' = SettledInTurn(bridge, requests, outcome)
  BY DEF Answer
<1>3. /\ handlers[c] > 0 /\ handlers' = [handlers EXCEPT ![c] = @ - 1]
      /\ UNCHANGED <<planned, preflightOk, gaveUp, displaced>>
  BY DEF Answer
<1>4. L \in SUBSET bridge.executions
  OBVIOUS
<1>5. \A e : e \in L <=> e \in bridge.executions /\ e.card = c /\ e.phase = "waiting"
  OBVIOUS
<1> HIDE DEF L
<1>6. /\ WellFormed(bridge')
      /\ \A n : Aligned(bridge, n) => Aligned(bridge', n)
      /\ \A f \in bridge'.executions : f \in bridge.executions \ L \/ f.phase = "backoff"
      /\ \A f \in bridge.executions \ L : f \in bridge'.executions
  BY <1>1, <1>2, <1>4, TurnsTaken
<1>7. handlers \in [Cards -> Nat] /\ handlers' \in [Cards -> Nat]
  BY <1>1, <1>3 DEF OtherTypes
<1>8. OtherTypes'
  BY <1>1, <1>3, <1>7 DEF OtherTypes
<1>9. ~Waited(bridge', c)
  BY <1>5, <1>6 DEF Waited
<1>10. \A d \in Cards : d # c => (Waited(bridge', d) <=> Waited(bridge, d))
  BY <1>5, <1>6 DEF Waited
<1>11. ASSUME Handled
       PROVE  Handled'
  <2>1. ASSUME NEW d \in Cards \ gaveUp
        PROVE  handlers'[d] = IF Waited(bridge', d) THEN 1 ELSE 0
    <3>1. handlers[d] = IF Waited(bridge, d) THEN 1 ELSE 0
      BY <1>11 DEF Handled
    <3>2. CASE d = c
      BY <1>3, <1>7, <1>9, <3>1, <3>2
    <3>3. CASE d # c
      BY <1>3, <1>7, <1>10, <3>1, <3>3
    <3> QED
      BY <3>2, <3>3
  <2> QED
    BY <1>3, <2>1 DEF Handled
<1> QED
  BY <1>1, <1>3, <1>6, <1>8, <1>11 DEF Inv

LEMMA TimeOutStep ==
  ASSUME Inv, NEW e \in bridge.executions, TimeOut(e)
  PROVE  Inv'
<1> DEFINE outcome == "temporary"
<1>1. /\ WellFormed(bridge) /\ OtherTypes
      /\ ~displaced => Aligned(bridge, planned) /\ Handled
  BY InvParts
<1>2. bridge \in Bridge /\ e \in Executions /\ e.card \in Cards
  BY <1>1 DEF WellFormed, Bridge, Executions
<1>3. /\ bridge' = Settled(bridge, e, outcome) /\ gaveUp' = gaveUp \union {e.card}
      /\ UNCHANGED <<planned, preflightOk, handlers, displaced>>
  BY DEF TimeOut
<1> HIDE DEF outcome
<1>4. /\ WellFormed(bridge')
      /\ \A n : Aligned(bridge, n) => Aligned(bridge', n)
  BY <1>1, <1>3, SettledWellFormed, SettledAligned
<1>5. bridge'.executions = (bridge.executions \ {e}) \union BackingOff(e, outcome)
  BY <1>2, <1>3, SettledFields
<1>6. \A f \in BackingOff(e, outcome) : f.card = e.card
  BY <1>2, BackingOffIs
<1>7. OtherTypes'
  BY <1>1, <1>2, <1>3 DEF OtherTypes
<1>8. \A c \in Cards \ gaveUp' : Waited(bridge', c) <=> Waited(bridge, c)
  BY <1>3, <1>5, <1>6 DEF Waited
<1>9. Handled => Handled'
  BY <1>3, <1>8, HandledKept
<1> QED
  BY <1>1, <1>3, <1>4, <1>7, <1>9 DEF Inv

\* The next attempt, while there is one.
LEMMA RetryStep ==
  ASSUME Inv, NEW e \in bridge.executions, Retry(e)
  PROVE  Inv'
<1> DEFINE again == [e EXCEPT !.phase = "waiting", !.attempt = @ + 1]
           executions == (bridge.executions \ {e}) \union {again}
           x == bridge'
<1>1. /\ WellFormed(bridge) /\ OtherTypes
      /\ ~displaced => Aligned(bridge, planned) /\ Handled
  BY InvParts
<1>2. bridge \in Bridge /\ e \in Executions /\ IsFiniteSet(bridge.executions)
  BY <1>1 DEF WellFormed, Bridge
<1>3. /\ e.phase = "backoff" /\ handlers' = Started(bridge')
      /\ x = [bridge EXCEPT !.executions = executions, !.activeAbort = {again}]
      /\ UNCHANGED <<planned, preflightOk, gaveUp, displaced>>
  BY DEF Retry
<1>4. e.attempt \in 0 .. MaxRetries /\ e.attempt < MaxRetries
  BY <1>1, <1>2, <1>3 DEF WellFormed, RetriesLeft, Executions
<1>5. /\ again \in Executions /\ again.card = e.card /\ again.by = e.by
      /\ again.index = e.index /\ again.phase = "waiting"
  <2>1. e.attempt + 1 \in 0 .. MaxRetries
    BY <1>4, CopilotConstants
  <2> QED
    BY <1>2, <2>1 DEF Executions
<1> HIDE DEF again
<1>6. executions \in SUBSET Executions /\ IsFiniteSet(executions)
  <2>1. IsFiniteSet(bridge.executions \ {e}) /\ IsFiniteSet({again})
    BY <1>2, FS_Difference, FS_Singleton
  <2> QED
    BY <1>2, <1>5, <2>1, FS_Union DEF Bridge
<1>7. \A f : f \in executions <=> (f \in bridge.executions /\ f # e) \/ f = again
  OBVIOUS
<1> HIDE DEF executions
<1>8. /\ x \in Bridge /\ x.queue = bridge.queue /\ x.executions = executions
      /\ x.run = bridge.run /\ x.activeAbort = {again} /\ x.stored = bridge.stored
  BY <1>2, <1>3, <1>5, <1>6 DEF Bridge
<1> HIDE DEF x
<1>9. WellFormed(x)
  <2>1. RunsOne(x)
    <3>1. RunsOne(bridge)
      BY <1>1 DEF WellFormed
    <3>2. (\E f \in executions : f.by = "run") <=> (\E f \in bridge.executions : f.by = "run")
      BY <1>5, <1>7
    <3>3. \A f, g \in executions : f.by = "run" /\ g.by = "run" => f = g
      BY <1>5, <1>7, <3>1 DEF RunsOne
    <3> QED
      BY <1>8, <3>1, <3>2, <3>3 DEF RunsOne
  <2>2. AbortsOne(x)
    BY <1>5, <1>7, <1>8 DEF AbortsOne
  <2>3. RetriesLeft(x)
    BY <1>1, <1>5, <1>7, <1>8 DEF WellFormed, RetriesLeft
  <2> QED
    BY <1>6, <1>8, <2>1, <2>2, <2>3 DEF WellFormed
<1>10. ASSUME ~displaced
       PROVE  Aligned(x, planned) /\ Handled'
  <2>1. Aligned(bridge, planned) /\ Handled
    BY <1>1, <1>10
  <2>2. Indexed(bridge) /\ Pending(bridge)
    BY <2>1 DEF Aligned
  <2>3. \A f \in bridge.executions : f.card = e.card => f = e
    BY <2>2 DEF Indexed
  <2>4. \A f \in executions : \E g \in bridge.executions : f.card = g.card /\ f.index = g.index
    BY <1>5, <1>7
  <2>5. \A g \in bridge.executions : \E f \in executions : f.card = g.card
    BY <1>5, <1>7
  <2>6. \A f, g \in executions : f.card = g.card => f = g
    <3>1. \A f, g \in bridge.executions : f.card = g.card => f = g
      BY <2>2 DEF Indexed
    <3> QED
      BY <1>5, <1>7, <2>3, <3>1
  <2>7. Indexed(x)
    <3>1. ASSUME NEW f \in executions
          PROVE  /\ f.index \in DOMAIN bridge.queue
                 /\ bridge.queue[f.index] = [id |-> f.card, status |-> "running"]
      <4>1. PICK g \in bridge.executions : f.card = g.card /\ f.index = g.index
        BY <2>4
      <4> QED
        BY <2>2, <4>1 DEF Indexed
    <3>2. ASSUME NEW i \in DOMAIN bridge.queue, bridge.queue[i].status = "running"
          PROVE  \E f \in executions : f.card = bridge.queue[i].id
      <4>1. PICK g \in bridge.executions : g.card = bridge.queue[i].id
        BY <2>2, <3>2 DEF Indexed
      <4>2. PICK f \in executions : f.card = g.card
        BY <2>5
      <4> QED
        BY <4>1, <4>2
    <3> QED
      BY <1>8, <2>6, <3>1, <3>2 DEF Indexed
  <2>8. Pending(x)
    BY <1>8, <2>2, <2>4 DEF Pending
  <2>9. Aligned(x, planned)
    BY <1>8, <2>1, <2>7, <2>8 DEF Aligned
  <2>10. Handled'
    <3> DEFINE S == {e}
    <3>1. \A f \in S : f.card = again.card
      BY <1>5
    <3>2. \A f \in bridge.executions : f.card = again.card => f.phase # "waiting"
      BY <1>3, <1>5, <2>3
    <3>3. bridge'.executions = (bridge.executions \ S) \union {again}
      BY <1>8 DEF x, executions
    <3>4. WellFormed(bridge)' /\ gaveUp' = gaveUp
      BY <1>3, <1>9 DEF x
    <3> HIDE DEF S
    <3> QED
      BY <1>1, <1>3, <1>5, <2>1, <3>1, <3>2, <3>3, <3>4, HandledStarted
  <2> QED
    BY <2>9, <2>10
<1>11. OtherTypes'
  <2>1. handlers \in [Cards -> Nat]
    BY <1>1 DEF OtherTypes
  <2>2. Started(x) \in [Cards -> Nat]
    BY <1>6, <1>8, <2>1, StartedHandlers
  <2> QED
    BY <1>1, <1>3, <2>2 DEF OtherTypes, x
<1> QED
  BY <1>3, <1>9, <1>10, <1>11 DEF Inv, x

LEMMA ReloadStep ==
  ASSUME Inv, Reload
  PROVE  Inv'
<1> DEFINE kept == Filtered(bridge.stored, Restored)
           readable == \A i \in DOMAIN bridge.stored : bridge.stored[i] # Hole
           queue == IF readable THEN kept ELSE <<>>
<1>1. /\ WellFormed(bridge) /\ OtherTypes
      /\ ~displaced => Aligned(bridge, planned) /\ Handled
  BY InvParts
<1>2. bridge.stored \in Seq(Slot)
  BY <1>1, BridgeParts DEF WellFormed
<1>3. /\ bridge' = [queue |-> queue, executions |-> {}, run |-> NotRunning,
                    activeAbort |-> {}, stored |-> queue]
      /\ handlers' = [c \in Cards |-> 0] /\ gaveUp' = {}
      /\ UNCHANGED <<planned, preflightOk, displaced>>
  BY DEF Reload
<1>4. /\ kept \in Seq(Slot)
      /\ \A i \in DOMAIN kept : kept[i].status \in Restored
      /\ \A n : Proper(bridge.stored, n) => Proper(kept, n)
  BY <1>2, FilteredCards
<1> HIDE DEF kept, readable
<1>5. /\ queue \in Seq(Slot)
      /\ \A i \in DOMAIN queue : queue[i].status # "running"
      /\ \A n : Proper(bridge.stored, n) => Proper(queue, n)
  <2> DEFINE none == <<>>
  <2>1. none \in Seq(Slot) /\ DOMAIN none = {}
    OBVIOUS
  <2>2. queue = kept \/ queue = none
    OBVIOUS
  <2> HIDE DEF queue, none
  <2>3. \A n : Proper(none, n)
    BY <2>1 DEF Proper
  <2>4. \A i \in DOMAIN kept : kept[i].status # "running"
    BY <1>4 DEF Restored
  <2>5. CASE queue = kept
    BY <1>4, <2>4, <2>5
  <2>6. CASE queue = none
    BY <2>1, <2>3, <2>6
  <2> QED
    BY <2>2, <2>5, <2>6
<1> HIDE DEF queue
<1>6. NotRunning \in RunRecord /\ NotRunning.phase = "idle"
  <2>1. <<>> \in Seq(Cards)
    OBVIOUS
  <2> QED
    BY <2>1 DEF NotRunning, RunRecord
<1>7. /\ bridge' \in Bridge /\ bridge'.queue = queue /\ bridge'.executions = {}
      /\ bridge'.run.phase = "idle" /\ bridge'.activeAbort = {} /\ bridge'.stored = queue
  BY <1>3, <1>5, <1>6 DEF Bridge
<1>8. WellFormed(bridge')
  BY <1>7, FS_EmptySet DEF WellFormed, RunsOne, AbortsOne, RetriesLeft
<1>9. OtherTypes'
  BY <1>1, <1>3 DEF OtherTypes
<1>10. ASSUME ~displaced'
       PROVE  Aligned(bridge', planned') /\ Handled'
  <2>1. Proper(queue, planned)
    BY <1>1, <1>3, <1>5, <1>10 DEF Aligned
  <2>2. Indexed(bridge') /\ Pending(bridge')
    BY <1>5, <1>7 DEF Indexed, Pending
  <2>3. \A c \in Cards : ~Waited(bridge', c) /\ handlers'[c] = 0
    BY <1>3, <1>7 DEF Waited
  <2>4. Handled'
    BY <2>3 DEF Handled
  <2> QED
    BY <1>3, <1>7, <2>1, <2>2, <2>4 DEF Aligned
<1> QED
  BY <1>8, <1>9, <1>10 DEF Inv

-----------------------------------------------------------------------------
(* The theorems.                                                            *)

LEMMA InitInv == Init => Inv
<1> SUFFICES ASSUME Init PROVE Inv
  OBVIOUS
<1>1. <<>> \in Seq(Slot) /\ DOMAIN <<>> = {} /\ <<>> \in Seq(Cards)
  OBVIOUS
<1>2. NotRunning \in RunRecord /\ NotRunning.phase = "idle"
  BY <1>1 DEF NotRunning, RunRecord
<1>3. /\ bridge \in Bridge /\ bridge.queue = <<>> /\ bridge.executions = {}
      /\ bridge.run.phase = "idle" /\ bridge.activeAbort = {} /\ bridge.stored = <<>>
  BY <1>1, <1>2 DEF Init, Bridge
<1>4. WellFormed(bridge)
  BY <1>3, FS_EmptySet DEF WellFormed, RunsOne, AbortsOne, RetriesLeft
<1>5. Aligned(bridge, planned)
  BY <1>1, <1>3 DEF Aligned, Proper, Indexed, Pending
<1>6. OtherTypes
  <2>1. planned \in 0 .. NumCards /\ gaveUp \subseteq Cards
    BY CopilotConstants DEF Init
  <2>2. handlers \in [Cards -> Nat]
    BY DEF Init
  <2>3. preflightOk \in BOOLEAN /\ displaced \in BOOLEAN
    BY DEF Init
  <2> QED
    BY <2>1, <2>2, <2>3 DEF OtherTypes
<1>7. Handled
  BY <1>3 DEF Init, Handled, Waited
<1> QED
  BY <1>4, <1>5, <1>6, <1>7 DEF Inv

LEMMA NextInv == Inv /\ [Next]_vars => Inv'
<1> SUFFICES ASSUME Inv, [Next]_vars PROVE Inv'
  OBVIOUS
<1>1. ASSUME NEW n \in Cards, Plan(n) PROVE Inv'
  BY <1>1, PlanStep
<1>2. CASE clearQueue
  BY <1>2, ClearStep
<1>3. CASE setContext
  BY <1>3, ContextStep
<1>4. ASSUME NEW c \in Cards, RunOne(c) PROVE Inv'
  BY <1>4, RunOneStep
<1>5. ASSUME NEW stop \in BOOLEAN, RunAll(stop) PROVE Inv'
  BY <1>5, RunAllStep
<1>6. CASE RunNext
  BY <1>6, RunNextStep
<1>7. CASE postTranscript
  BY <1>7, PostStep
<1>8. CASE pauseQueueExecution \/ resumeQueueExecution
  BY <1>8, PauseStep
<1>9. CASE cancelQueueExecution
  BY <1>9, CancelStep
<1>10. ASSUME NEW c \in Cards, NEW outcome, Answer(c, outcome) PROVE Inv'
  BY <1>10, AnswerStep
<1>11. ASSUME NEW e \in bridge.executions, TimeOut(e) PROVE Inv'
  BY <1>11, TimeOutStep
<1>12. ASSUME NEW e \in bridge.executions, Retry(e) PROVE Inv'
  BY <1>12, RetryStep
<1>13. CASE Reload
  BY <1>13, ReloadStep
<1>14. CASE UNCHANGED vars
  BY <1>14 DEF vars, Inv, OtherTypes, Handled, Waited
<1> QED
  BY <1>1, <1>2, <1>3, <1>4, <1>5, <1>6, <1>7, <1>8, <1>9, <1>10, <1>11, <1>12, <1>13, <1>14
  DEF Next

LEMMA InvTypeOK == Inv => TypeOK
<1> SUFFICES ASSUME Inv PROVE TypeOK
  OBVIOUS
<1>1. WellFormed(bridge) /\ OtherTypes
  BY InvParts
<1>2. bridge \in Bridge /\ RunsOne(bridge) /\ AbortsOne(bridge)
  BY <1>1 DEF WellFormed
<1>3. \A q \in {bridge.queue, bridge.stored} :
        \A i \in DOMAIN q : q[i] = Hole \/ q[i] \in [id : Cards, status : Statuses]
  BY <1>2, BridgeParts, QueueParts DEF Slot
<1>4. Cardinality(bridge.activeAbort) <= 1
  <2>1. CASE bridge.activeAbort = {}
    BY <2>1, FS_EmptySet
  <2>2. CASE bridge.activeAbort # {}
    <3>1. PICK e \in bridge.activeAbort : TRUE
      BY <2>2
    <3>2. bridge.activeAbort = {e}
      BY <1>2, <3>1 DEF AbortsOne
    <3>3. Cardinality(bridge.activeAbort) = 1
      BY <3>2, FS_Singleton
    <3> QED
      BY <3>3
  <2> QED
    BY <2>1, <2>2
<1>5. bridge.executions \subseteq Executions /\ bridge.run.phase \in {"idle", "next", "executing", "posting"}
  BY <1>2, BridgeParts DEF RunRecord
<1>6. bridge.activeAbort \subseteq {e \in bridge.executions : e.phase = "waiting"}
  BY <1>2 DEF AbortsOne
<1> QED
  BY <1>1, <1>2, <1>3, <1>4, <1>5, <1>6 DEF TypeOK, OtherTypes, RunsOne

LEMMA InvRunningIsExecuted == Inv => RunningIsExecuted
<1> SUFFICES ASSUME Inv PROVE RunningIsExecuted
  OBVIOUS
<1>1. ASSUME ~displaced
      PROVE  /\ \A i, j \in DOMAIN bridge.queue :
                  bridge.queue[i].id = bridge.queue[j].id => i = j
             /\ \A i \in DOMAIN bridge.queue :
                  bridge.queue[i].status = "running"
                    <=> Cardinality({e \in bridge.executions : e.card = bridge.queue[i].id}) = 1
             /\ \A e \in bridge.executions :
                  e.index <= Len(bridge.queue) /\ bridge.queue[e.index].id = e.card
  <2>1. Aligned(bridge, planned) /\ bridge.queue \in Seq(Slot)
    BY <1>1, InvParts, BridgeParts DEF WellFormed
  <2> DEFINE By(i) == {e \in bridge.executions : e.card = bridge.queue[i].id}
  <2>2. ASSUME NEW i \in DOMAIN bridge.queue, bridge.queue[i].status = "running"
        PROVE  Cardinality(By(i)) = 1
    <3>1. PICK e \in bridge.executions : e.card = bridge.queue[i].id
      BY <2>1, <2>2 DEF Aligned, Indexed
    <3>2. By(i) = {e}
      BY <2>1, <3>1 DEF Aligned, Indexed
    <3> QED
      BY <3>2, FS_Singleton
  <2>3. ASSUME NEW i \in DOMAIN bridge.queue, bridge.queue[i].status # "running"
        PROVE  Cardinality(By(i)) # 1
    <3>1. By(i) = {}
      BY <2>1, <2>3, NotExecuted
    <3> QED
      BY <3>1, FS_EmptySet
  <2>4. ASSUME NEW e \in bridge.executions
        PROVE  e.index <= Len(bridge.queue) /\ bridge.queue[e.index].id = e.card
    <3>1. /\ e.index \in DOMAIN bridge.queue
          /\ bridge.queue[e.index] = [id |-> e.card, status |-> "running"]
      BY <2>1 DEF Aligned, Indexed
    <3>2. bridge.queue[e.index].id = e.card
      BY <3>1
    <3> QED
      BY <2>1, <3>1, <3>2
  <2> QED
    BY <2>1, <2>2, <2>3, <2>4 DEF Aligned, Proper
<1> QED
  BY <1>1, InvTypeOK DEF RunningIsExecuted

\* As long as the queue is not replaced during an execution, the cards marked
\* running are those being executed, each by one execution, at the index that
\* executeAction keeps across its awaits: whatever the requests, retries,
\* timeouts, cancels and reloads. And whatever happens, the abort handle is that
\* of a request that is waited for.
THEOREM IndexStaysRight == Spec => []RunningIsExecuted
<1>1. Inv => RunningIsExecuted
  BY InvRunningIsExecuted
<1> QED
  BY <1>1, InitInv, NextInv, PTL DEF Spec

\* Two handlers are at work on one card only if a request of the card was given
\* up while its handler was at work, or the queue was replaced under it.
THEOREM OverlapsAreExplained == Spec => []OverlapOnlyAfterGivingUp
<1>1. Inv => OverlapOnlyAfterGivingUp
  <2>1. ASSUME Inv, NEW c \in Cards, handlers[c] > 1
        PROVE  c \in gaveUp \/ displaced
    BY <2>1, InvParts DEF Handled
  <2> QED
    BY <2>1 DEF OverlapOnlyAfterGivingUp
<1> QED
  BY <1>1, InitInv, NextInv, PTL DEF Spec

=============================================================================
