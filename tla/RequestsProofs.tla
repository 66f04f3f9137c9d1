--------------------------- MODULE RequestsProofs ---------------------------
(***************************************************************************)
(* Proofs about UpdateBuffer, for any number of handlers and requests, any *)
(* round size and any size of the cache, and about TradeExecution, for any *)
(* number of trades and orders, any number of attempts and any wallet.      *)
(***************************************************************************)
EXTENDS UpdateBuffer, TradeExecution, FiniteSetTheorems, TLAPS

USE DEF Marks

Half == SEEN_CACHE_LIMIT \div 2

\* What is known of half the limit of the cache.
LEMMA HalfBounds ==
  /\ Half \in Nat /\ Half <= SEEN_CACHE_LIMIT
  /\ SEEN_CACHE_LIMIT > 1 => Half > 0
BY ConstantsAssumption DEF Half

\* What the cache keeps when it overflows: a suffix, all of it when half of the
\* limit is nothing.
LEMMA KeptIsSuffix ==
  ASSUME NEW S, NEW s \in Seq(S), Overflows(Len(s))
  PROVE  LET keep == IF Half = 0 THEN Len(s) ELSE Half
         IN /\ keep \in 0 .. Len(s)
            /\ Half <= keep
            /\ Kept(s) \in Seq(S)
            /\ Len(Kept(s)) = keep
            /\ \A i \in 1 .. keep : Kept(s)[i] = s[Len(s) - keep + i]
<1>1. Half \in Nat /\ Half <= Len(s) /\ Len(s) \in Nat
  BY HalfBounds, ConstantsAssumption DEF Overflows
<1>2. CASE Half = 0
  BY <1>1, <1>2 DEF Kept, Half
<1>3. CASE Half # 0
  <2>1. Kept(s) = SubSeq(s, Len(s) - Half + 1, Len(s))
    BY <1>3 DEF Kept, Half
  <2>. HIDE DEF Half
  <2>. QED  BY <1>1, <1>3, <2>1
<1>. QED  BY <1>2, <1>3

-----------------------------------------------------------------------------
\* Types: the buffer, the cache and the histories keep theirs, and the cache
\* its limit (TypeOK of UpdateBuffer).
THEOREM TypeCorrect == Spec => []TypeOK
<1>1. Init => TypeOK
  <2>. SUFFICES ASSUME Init  PROVE TypeOK
    OBVIOUS
  <2>1. updates \in Seq(Marks) /\ seen \in Seq(Requests) /\ Len(seen) = 0
    BY DEF Init
  <2>2. marks = 0 /\ lastMark \in [Requests -> 0 .. marks]
    BY DEF Init
  <2>3. inRounds \in [Marks -> Nat] /\ pc \in [Handlers -> {"idle", "saving"}]
    BY DEF Init
  <2>4. stale \subseteq Requests /\ buffered \subseteq 1 .. marks
    BY DEF Init
  <2>5. overlapped \in BOOLEAN
    BY DEF Init
  <2>. QED  BY <2>1, <2>2, <2>3, <2>4, <2>5, ConstantsAssumption DEF TypeOK
<1>2. TypeOK /\ [Next]_vars => TypeOK'
  <2>. SUFFICES ASSUME TypeOK, [Next]_vars  PROVE TypeOK'
    OBVIOUS
  <2>. USE ConstantsAssumption
  <2>1. ASSUME NEW q \in Requests, MarkSeen(q)
        PROVE  /\ seen' \in Seq(Requests)
               /\ SEEN_CACHE_LIMIT > 1 => Len(seen') <= SEEN_CACHE_LIMIT
               /\ marks' \in 1 .. MaxMarks /\ marks' = marks + 1
               /\ lastMark' \in [Requests -> 0 .. marks']
    <3>1. marks' \in 1 .. MaxMarks /\ marks' = marks + 1
      BY <2>1 DEF MarkSeen, TypeOK
    <3>2. lastMark' \in [Requests -> 0 .. marks']
      BY <2>1, <3>1 DEF MarkSeen, TypeOK
    <3>3. Append(seen, q) \in Seq(Requests)
      BY DEF TypeOK
    <3>4. CASE Overflows(Len(Append(seen, q)))
      <4>1. seen' = Kept(Append(seen, q))
        BY <2>1, <3>4 DEF MarkSeen
      <4>2. SEEN_CACHE_LIMIT > 1 => Half # 0
        BY HalfBounds
      <4>. QED  BY <3>1, <3>2, <3>3, <3>4, <4>1, <4>2, KeptIsSuffix, HalfBounds
    <3>5. CASE ~Overflows(Len(Append(seen, q)))
      <4>1. seen' = Append(seen, q)
        BY <2>1, <3>5 DEF MarkSeen
      <4>. QED  BY <3>1, <3>2, <3>3, <3>5, <4>1 DEF Overflows
    <3>. QED  BY <3>4, <3>5
  <2>2. ASSUME NEW h \in Handlers, NEW q \in Updates, Update(h, q)
        PROVE  TypeOK'
    <3>. USE <2>2
    <3>1. MarkSeen(q) /\ q \in Requests
      BY <2>2 DEF Update, Requests
    <3>2. /\ seen' \in Seq(Requests)
          /\ SEEN_CACHE_LIMIT > 1 => Len(seen') <= SEEN_CACHE_LIMIT
          /\ marks' \in 1 .. MaxMarks /\ marks' = marks + 1
          /\ lastMark' \in [Requests -> 0 .. marks']
      BY <2>1, <3>1
    <3>3. marks' \in Marks
      BY <3>2
    <3>5. updates' \in Seq(Marks) /\ stale' = stale
      BY <3>3 DEF Update, TypeOK
    <3>6. buffered' \subseteq 1 .. marks'
      BY <3>2 DEF Update, TypeOK
    <3>4. pc' \in [Handlers -> {"idle", "saving"}] /\ inRounds' \in [Marks -> Nat]
      <4>1. CASE Full(Len(Append(updates, marks')))
        <5>1. pc' = [pc EXCEPT ![h] = "saving"]
          BY <4>1 DEF Update
        <5>2. inRounds' = [m \in Marks |->
                IF m \in Elements(Append(updates, marks')) THEN inRounds[m] + 1
                                                           ELSE inRounds[m]]
          BY <4>1 DEF Update
        <5>. QED  BY <5>1, <5>2 DEF TypeOK
      <4>2. CASE ~Full(Len(Append(updates, marks')))
        BY <4>2 DEF Update, TypeOK
      <4>. QED  BY <4>1, <4>2
    <3>7. overlapped' \in BOOLEAN
      <4>1. overlapped' = (overlapped \/ Saving # {}) \/ overlapped' = overlapped
        BY DEF Update
      <4>. QED  BY <4>1, Zenon DEF TypeOK
    <3>8. stale' \subseteq Requests /\ marks' \in 0 .. MaxMarks
      BY <3>2, <3>5 DEF TypeOK
    <3>. QED  BY <3>2, <3>4, <3>5, <3>6, <3>7, <3>8, Zenon DEF TypeOK
  <2>3. ASSUME NEW h \in Handlers, RoundsSaved(h)  PROVE TypeOK'
    BY <2>3 DEF RoundsSaved, AfterSaving, TypeOK, history
  <2>4. ASSUME NEW q \in Proofs, ProposeOrVote(q)  PROVE TypeOK'
    <3>1. MarkSeen(q) /\ q \in Requests
      BY <2>4 DEF ProposeOrVote, Requests
    <3>. QED  BY <2>1, <2>4, <3>1 DEF ProposeOrVote, TypeOK, bufferVars
  <2>5. ASSUME NEW q \in Requests, Expire(q)  PROVE TypeOK'
    BY <2>5 DEF Expire, TypeOK, bufferVars, history
  <2>6. CASE UNCHANGED vars
    BY <2>6 DEF TypeOK, vars, bufferVars, history
  <2>. QED  BY <2>2, <2>3, <2>4, <2>5, <2>6 DEF Next
<1>. QED  BY <1>1, <1>2, PTL DEF Spec

-----------------------------------------------------------------------------
\* The handlers that are saving are finitely many, and one more or one fewer
\* after a step of one of them.
LEMMA SavingCounted ==
  ASSUME NEW h \in Handlers, NEW value, pc \in [Handlers -> {"idle", "saving"}],
         pc' = [pc EXCEPT ![h] = value]
  PROVE  /\ IsFiniteSet(Saving) /\ Cardinality(Saving) \in Nat
         /\ value = "saving" => Saving' = Saving \cup {h}
         /\ value = "idle" => Saving' = Saving \ {h}
         /\ pc[h] = "idle" /\ value = "saving"
              => Cardinality(Saving') = Cardinality(Saving) + 1
         /\ IsFiniteSet(Saving') /\ Cardinality(Saving') \in Nat
<1>1. Saving \subseteq Handlers /\ Saving' \subseteq Handlers
  BY DEF Saving
<1>2. IsFiniteSet(Saving) /\ Cardinality(Saving) \in Nat
  BY <1>1, ConstantsAssumption, FS_Subset, FS_CardinalityType
<1>3. IsFiniteSet(Saving') /\ Cardinality(Saving') \in Nat
  BY <1>1, ConstantsAssumption, FS_Subset, FS_CardinalityType
<1>4. value = "saving" => Saving' = Saving \cup {h}
  BY DEF Saving
<1>5. value = "idle" => Saving' = Saving \ {h}
  BY DEF Saving
<1>6. pc[h] = "idle" /\ value = "saving"
        => Cardinality(Saving') = Cardinality(Saving) + 1
  BY <1>2, <1>4, FS_AddElement DEF Saving
<1>. QED  BY <1>2, <1>3, <1>4, <1>5, <1>6

\* However many handlers overlap, the buffer holds fewer updates than a round
\* needs, and one for each handler that is saving a round (BufferBounded of
\* UpdateBuffer): the handler whose update fills the buffer is itself saving.
THEOREM BufferIsBounded == Spec => []BufferBounded
<1>1. Init => BufferBounded
  <2>. SUFFICES ASSUME Init  PROVE BufferBounded
    OBVIOUS
  <2>1. Saving = {} /\ Len(updates) = 0
    BY DEF Init, Saving
  <2>. QED  BY <2>1, FS_EmptySet, ConstantsAssumption DEF BufferBounded
<1>2. TypeOK /\ BufferBounded /\ [Next]_vars => BufferBounded'
  <2>. SUFFICES ASSUME TypeOK, BufferBounded, [Next]_vars  PROVE BufferBounded'
    OBVIOUS
  <2>1. ASSUME UNCHANGED bufferVars  PROVE BufferBounded'
    BY <2>1 DEF bufferVars, BufferBounded, Saving
  <2>2. ASSUME NEW h \in Handlers, NEW q \in Updates, Update(h, q)
        PROVE  BufferBounded'
    <3>1. updates' = Append(updates, marks') /\ pc[h] = "idle"
      BY <2>2 DEF Update
    <3>2. Len(updates') = Len(updates) + 1 /\ Len(updates) \in Nat
      BY <3>1 DEF TypeOK
    <3>3. CASE Full(Len(updates'))
      <4>1. pc' = [pc EXCEPT ![h] = "saving"]
        BY <2>2, <3>1, <3>3 DEF Update
      <4>2. /\ Cardinality(Saving) \in Nat
            /\ Cardinality(Saving') = Cardinality(Saving) + 1
        BY <3>1, <4>1, SavingCounted DEF TypeOK
      <4>. QED  BY <3>2, <4>2, ConstantsAssumption DEF BufferBounded
    <3>4. CASE ~Full(Len(updates'))
      <4>1. pc' = pc
        BY <2>2, <3>1, <3>4 DEF Update
      <4>2. Saving' = Saving
        BY <4>1 DEF Saving
      <4>3. Saving \subseteq Handlers
        BY DEF Saving
      <4>4. Cardinality(Saving) \in Nat
        BY <4>3, ConstantsAssumption, FS_Subset, FS_CardinalityType
      <4>. QED  BY <3>2, <3>4, <4>2, <4>4, ConstantsAssumption DEF BufferBounded, Full
    <3>. QED  BY <3>3, <3>4
  <2>3. ASSUME NEW h \in Handlers, RoundsSaved(h)  PROVE BufferBounded'
    <3>1. pc' = [pc EXCEPT ![h] = "idle"] /\ Len(updates') = 0
      BY <2>3 DEF RoundsSaved, AfterSaving
    <3>2. Cardinality(Saving') \in Nat
      BY <3>1, SavingCounted DEF TypeOK
    <3>. QED  BY <3>1, <3>2, ConstantsAssumption DEF BufferBounded
  <2>4. ASSUME NEW q \in Proofs, ProposeOrVote(q)  PROVE BufferBounded'
    BY <2>1, <2>4 DEF ProposeOrVote
  <2>5. ASSUME NEW q \in Requests, Expire(q)  PROVE BufferBounded'
    BY <2>1, <2>5 DEF Expire
  <2>6. CASE UNCHANGED vars
    BY <2>1, <2>6 DEF vars
  <2>. QED  BY <2>2, <2>3, <2>4, <2>5, <2>6 DEF Next
<1>. QED  BY <1>1, <1>2, TypeCorrect, PTL DEF Spec

-----------------------------------------------------------------------------
\* What makes ExactlyOnceUnlessOverlapped inductive. While one handler saves,
\* the buffer is the round it made and stays full; an update pushed then fills
\* the buffer again, and its handler saves too: they overlap.
OnceInv ==
  /\ \A m \in Marks : m > marks => inRounds[m] = 0
  /\ Elements(updates) \subseteq buffered
  /\ ~overlapped =>
       /\ Saving # {} =>
            /\ Len(updates) >= AGG_COUNT
            /\ \A m \in buffered : inRounds[m] = 1
       /\ Saving = {} =>
            /\ \A m \in Elements(updates) : inRounds[m] = 0
            /\ \A m \in buffered : inRounds[m] = 0 => m \in Elements(updates)
       /\ \A m \in buffered : inRounds[m] \in {0, 1}
       /\ \A g, h \in Saving : g = h

\* Elements of a sequence that one more was appended to.
LEMMA AppendedElements ==
  ASSUME NEW S, NEW s \in Seq(S), NEW x \in S
  PROVE  Elements(Append(s, x)) = Elements(s) \cup {x}
<1>1. /\ Len(Append(s, x)) = Len(s) + 1 /\ Len(s) \in Nat
      /\ \A i \in 1 .. Len(s) : Append(s, x)[i] = s[i]
      /\ Append(s, x)[Len(s) + 1] = x
  OBVIOUS
<1>2. 1 .. Len(s) + 1 = 1 .. Len(s) \cup {Len(s) + 1}
  BY <1>1
<1>. QED  BY <1>1, <1>2 DEF Elements

LEMMA OnceInvHolds == Spec => []OnceInv
<1>1. Init => OnceInv
  BY DEF Init, OnceInv, Saving, Elements
<1>2. TypeOK /\ OnceInv /\ [Next]_vars => OnceInv'
  <2>. SUFFICES ASSUME TypeOK, OnceInv, [Next]_vars  PROVE OnceInv'
    OBVIOUS
  <2>1. ASSUME UNCHANGED bufferVars, UNCHANGED <<buffered, inRounds, overlapped>>,
               marks' \in {marks, marks + 1}
        PROVE  OnceInv'
    <3>1. Saving' = Saving
      BY <2>1 DEF bufferVars, Saving
    <3>2. \A m \in Marks : m > marks' => inRounds'[m] = 0
      BY <2>1 DEF OnceInv, TypeOK
    <3>. QED  BY <2>1, <3>1, <3>2 DEF OnceInv, bufferVars
  <2>2. ASSUME NEW h \in Handlers, NEW q \in Updates, Update(h, q)
        PROVE  OnceInv'
    <3>. DEFINE new == marks + 1
    <3>1. /\ new \in Marks /\ marks' = new
          /\ pc[h] = "idle"
          /\ updates' = Append(updates, new)
          /\ buffered' = buffered \cup {new}
      <4>1. MarkSeen(q)
        BY <2>2 DEF Update
      <4>2. new \in Marks /\ marks' = new
        BY <4>1, ConstantsAssumption DEF MarkSeen, TypeOK
      <4>. QED  BY <2>2, <4>2 DEF Update
    <3>2. /\ Elements(updates') = Elements(updates) \cup {new}
          /\ Len(updates') = Len(updates) + 1 /\ Len(updates) \in Nat
      <4>1. updates \in Seq(Marks)
        BY DEF TypeOK
      <4>2. Elements(Append(updates, new)) = Elements(updates) \cup {new}
        <5>1. new \in Marks
          BY <3>1
        <5>. HIDE DEF new, Marks
        <5>. QED  BY <4>1, <5>1, AppendedElements
      <4>. QED  BY <3>1, <4>1, <4>2
    <3>3. /\ inRounds[new] = 0 /\ new \notin buffered
          /\ \A m \in buffered' : m \in Marks /\ m <= new
          /\ Elements(updates') \subseteq buffered'
      <4>1. new > marks /\ marks \in Nat /\ buffered \subseteq 1 .. marks
        BY ConstantsAssumption DEF TypeOK
      <4>2. inRounds[new] = 0 /\ Elements(updates) \subseteq buffered
        BY <3>1, <4>1 DEF OnceInv
      <4>3. \A m \in buffered' : m \in Marks /\ m <= new
        BY <3>1, <4>1, ConstantsAssumption
      <4>. QED  BY <3>1, <3>2, <4>1, <4>2, <4>3
    <3>4. CASE Full(Len(updates'))
      <4>1. /\ pc' = [pc EXCEPT ![h] = "saving"]
            /\ inRounds' = [m \in Marks |->
                 IF m \in Elements(updates') THEN inRounds[m] + 1 ELSE inRounds[m]]
            /\ overlapped' = (overlapped \/ Saving # {})
        BY <2>2, <3>1, <3>4 DEF Update
      <4>2. Saving' = Saving \cup {h}
        BY <4>1 DEF Saving, TypeOK
      <4>3. ~overlapped' => ~overlapped /\ Saving = {}
        BY <4>1
      <4>4. ASSUME ~overlapped'  PROVE \A m \in buffered' : inRounds'[m] = 1
        <5>. SUFFICES ASSUME NEW m \in buffered'  PROVE inRounds'[m] = 1
          OBVIOUS
        <5>1. m \in Marks
          BY <3>3
        <5>2. CASE m \in Elements(updates')
          <6>1. inRounds[m] = 0
            BY <3>2, <3>3, <4>3, <4>4, <5>2 DEF OnceInv
          <6>. QED  BY <4>1, <5>1, <5>2, <6>1
        <5>3. CASE m \notin Elements(updates')
          <6>1. m \in buffered /\ inRounds[m] \in {0, 1} /\ inRounds[m] # 0
            BY <3>1, <3>2, <4>3, <4>4, <5>3 DEF OnceInv
          <6>. QED  BY <4>1, <5>1, <5>3, <6>1
        <5>. QED  BY <5>2, <5>3
      <4>5. \A m \in Marks : m > marks' => inRounds'[m] = 0
        <5>1. \A m \in Elements(updates') : m <= marks'
          BY <3>1, <3>3
        <5>. QED  BY <3>1, <4>1, <5>1 DEF OnceInv, TypeOK
      <4>6. Len(updates') >= AGG_COUNT
        BY <3>4 DEF Full
      <4>. QED  BY <3>3, <4>2, <4>3, <4>4, <4>5, <4>6 DEF OnceInv
    <3>5. CASE ~Full(Len(updates'))
      <4>1. pc' = pc /\ inRounds' = inRounds /\ overlapped' = overlapped
        BY <2>2, <3>1, <3>5 DEF Update
      <4>2. Saving' = Saving
        BY <4>1 DEF Saving
      <4>3. ~overlapped => Saving = {}
        BY <3>2, <3>5, ConstantsAssumption DEF OnceInv, Full
      <4>4. \A m \in Marks : m > marks' => inRounds'[m] = 0
        BY <3>1, <4>1 DEF OnceInv, TypeOK
      <4>. QED  BY <3>1, <3>2, <3>3, <4>1, <4>2, <4>3, <4>4 DEF OnceInv
    <3>. QED  BY <3>4, <3>5
  <2>3. ASSUME NEW h \in Handlers, RoundsSaved(h)  PROVE OnceInv'
    <3>1. /\ h \in Saving /\ pc' = [pc EXCEPT ![h] = "idle"]
          /\ UNCHANGED history
          /\ Elements(updates') = {}
      BY <2>3 DEF RoundsSaved, AfterSaving, Saving, Elements
    <3>2. Saving' = Saving \ {h}
      BY <3>1 DEF Saving, TypeOK
    <3>3. ~overlapped => Saving' = {}
      BY <3>1, <3>2 DEF OnceInv
    <3>. QED  BY <3>1, <3>3 DEF OnceInv, history
  <2>4. ASSUME NEW q \in Proofs, ProposeOrVote(q)  PROVE OnceInv'
    BY <2>1, <2>4 DEF ProposeOrVote, MarkSeen
  <2>5. ASSUME NEW q \in Requests, Expire(q)  PROVE OnceInv'
    BY <2>1, <2>5 DEF Expire, history
  <2>6. CASE UNCHANGED vars
    BY <2>1, <2>6 DEF vars, history
  <2>. QED  BY <2>2, <2>3, <2>4, <2>5, <2>6 DEF Next
<1>. QED  BY <1>1, <1>2, TypeCorrect, PTL DEF Spec

\* Without overlapping handlers every accepted update is in one round, or in
\* none and still in the buffer (ExactlyOnceUnlessOverlapped of UpdateBuffer).
THEOREM UpdatesCountOnce == Spec => []ExactlyOnceUnlessOverlapped
<1>1. OnceInv => ExactlyOnceUnlessOverlapped
  BY DEF OnceInv, ExactlyOnceUnlessOverlapped
<1>. QED  BY <1>1, OnceInvHolds, PTL

-----------------------------------------------------------------------------
\* What makes ReplayNeedsEviction hold: the cache holds the proofs accepted
\* last, in the order they were accepted, and at least half of its limit was
\* accepted after a proof that it has forgotten.
CacheInv ==
  /\ \A i \in 1 .. Len(seen) : lastMark[seen[i]] = marks - Len(seen) + i
  /\ \A q \in Requests \ Elements(seen) :
       lastMark[q] # 0 => marks - lastMark[q] >= Half

\* Accepting a proof, whether the cache overflows or not.
LEMMA MarkSeenKeepsCacheInv ==
  ASSUME TypeOK, CacheInv, NEW q \in Requests, MarkSeen(q)
  PROVE  CacheInv'
<1>. DEFINE added == Append(seen, q)
            size == Len(added)
<1>1. /\ added \in Seq(Requests) /\ size = Len(seen) + 1 /\ Len(seen) \in Nat
      /\ \A i \in 1 .. Len(seen) : added[i] = seen[i]
      /\ added[size] = q
  BY DEF TypeOK
<1>2. /\ q \notin Elements(seen)
      /\ marks' = marks + 1
      /\ lastMark' = [lastMark EXCEPT ![q] = marks']
      /\ lastMark \in [Requests -> Nat] /\ marks \in Nat
      /\ Half \in Nat
  BY HalfBounds, ConstantsAssumption DEF MarkSeen, TypeOK
<1>3. Elements(added) = Elements(seen) \cup {q}
  BY AppendedElements DEF TypeOK
<1>4. ASSUME NEW i \in 1 .. size  PROVE lastMark'[added[i]] = marks' - size + i
  <2>1. CASE i = size
    BY <1>1, <1>2, <2>1
  <2>2. CASE i # size
    <3>1. i \in 1 .. Len(seen) /\ added[i] = seen[i]
      BY <1>1, <2>2
    <3>2. seen[i] \in Requests /\ seen[i] # q
      BY <1>2, <3>1 DEF Elements, TypeOK
    <3>3. lastMark[seen[i]] = marks - Len(seen) + i
      BY <3>1 DEF CacheInv
    <3>. QED  BY <1>1, <1>2, <3>1, <3>2, <3>3
  <2>. QED  BY <2>1, <2>2
<1>5. ASSUME NEW r \in Requests, r \notin Elements(added), lastMark'[r] # 0
      PROVE  marks' - lastMark'[r] >= Half
  <2>1. r \notin Elements(seen) /\ r # q /\ lastMark'[r] = lastMark[r]
    BY <1>2, <1>3, <1>5
  <2>2. marks - lastMark[r] >= Half
    BY <1>5, <2>1 DEF CacheInv
  <2>. QED  BY <1>2, <2>1, <2>2
<1>6. CASE ~Overflows(size)
  <2>1. seen' = added
    BY <1>6 DEF MarkSeen
  <2>. QED  BY <1>4, <1>5, <2>1 DEF CacheInv
<1>7. CASE Overflows(size)
  <2>. DEFINE keep == IF Half = 0 THEN size ELSE Half
  <2>1. seen' = Kept(added)
    BY <1>7 DEF MarkSeen
  <2>2. /\ keep \in 0 .. size /\ Half <= keep
        /\ Len(seen') = keep
        /\ \A i \in 1 .. keep : seen'[i] = added[size - keep + i]
    BY <1>1, <1>7, <2>1, KeptIsSuffix
  <2>3. ASSUME NEW i \in 1 .. Len(seen')
        PROVE  lastMark'[seen'[i]] = marks' - Len(seen') + i
    <3>1. size - keep + i \in 1 .. size
      BY <1>1, <2>2
    <3>2. lastMark'[added[size - keep + i]] = marks' - size + (size - keep + i)
      BY <1>4, <3>1
    <3>3. seen'[i] = added[size - keep + i]
      BY <2>2
    <3>. HIDE DEF added, size, keep
    <3>. QED  BY <1>1, <1>2, <2>2, <3>2, <3>3
  <2>4. ASSUME NEW r \in Requests, r \notin Elements(seen'), lastMark'[r] # 0
        PROVE  marks' - lastMark'[r] >= Half
    <3>1. CASE r \in Elements(added)
      <4>1. PICK i \in 1 .. size : added[i] = r
        BY <3>1 DEF Elements
      <4>2. i <= size - keep
        <5>1. SUFFICES ASSUME i > size - keep  PROVE FALSE
          BY <1>1, <2>2
        <5>2. i - (size - keep) \in 1 .. Len(seen')
          BY <1>1, <2>2, <5>1
        <5>3. seen'[i - (size - keep)] = r
          <6>. HIDE DEF added, size, keep
          <6>1. seen'[i - (size - keep)] = added[size - keep + (i - (size - keep))]
            BY <2>2, <5>2
          <6>2. size - keep + (i - (size - keep)) = i
            BY <1>1, <2>2
          <6>. QED  BY <4>1, <6>1, <6>2
        <5>. QED  BY <2>4, <5>2, <5>3 DEF Elements
      <4>3. lastMark'[r] = marks' - size + i
        BY <1>4, <4>1
      <4>. QED  BY <1>1, <1>2, <2>2, <4>2, <4>3
    <3>2. CASE r \notin Elements(added)
      BY <1>5, <2>4, <3>2
    <3>. QED  BY <3>1, <3>2
  <2>. QED  BY <2>3, <2>4 DEF CacheInv
<1>. QED  BY <1>6, <1>7

LEMMA CacheInvHolds == Spec => []CacheInv
<1>1. Init => CacheInv
  BY DEF Init, CacheInv
<1>2. TypeOK /\ CacheInv /\ [Next]_vars => CacheInv'
  <2>. SUFFICES ASSUME TypeOK, CacheInv, [Next]_vars  PROVE CacheInv'
    OBVIOUS
  <2>1. ASSUME UNCHANGED <<seen, lastMark, marks>>  PROVE CacheInv'
    BY <2>1 DEF CacheInv
  <2>2. ASSUME NEW h \in Handlers, NEW q \in Updates, Update(h, q)
        PROVE  CacheInv'
    BY <2>2, MarkSeenKeepsCacheInv DEF Update, Requests
  <2>3. ASSUME NEW q \in Proofs, ProposeOrVote(q)  PROVE CacheInv'
    BY <2>3, MarkSeenKeepsCacheInv DEF ProposeOrVote, Requests
  <2>4. ASSUME NEW h \in Handlers, RoundsSaved(h)  PROVE CacheInv'
    BY <2>1, <2>4 DEF RoundsSaved, history
  <2>5. ASSUME NEW q \in Requests, Expire(q)  PROVE CacheInv'
    BY <2>1, <2>5 DEF Expire, history
  <2>6. CASE UNCHANGED vars
    BY <2>1, <2>6 DEF vars, history
  <2>. QED  BY <2>2, <2>3, <2>4, <2>5, <2>6 DEF Next
<1>. QED  BY <1>1, <1>2, TypeCorrect, PTL DEF Spec

\* A proof is accepted a second time only after more than half of the cache's
\* limit was accepted since the first (ReplayNeedsEviction of UpdateBuffer).
THEOREM ReplaysNeedEvictions == Spec => ReplayNeedsEviction
<1>. DEFINE Step == \A q \in Requests :
              lastMark'[q] # lastMark[q] /\ lastMark[q] # 0
                => lastMark'[q] - lastMark[q] > SEEN_CACHE_LIMIT \div 2
<1>1. TypeOK /\ CacheInv /\ [Next]_vars => [Step]_vars
  <2>. SUFFICES ASSUME TypeOK, CacheInv, Next  PROVE Step
    OBVIOUS
  <2>1. ASSUME NEW r \in Requests, MarkSeen(r)  PROVE Step
    <3>. SUFFICES ASSUME NEW q \in Requests, lastMark'[q] # lastMark[q],
                         lastMark[q] # 0
                  PROVE  lastMark'[q] - lastMark[q] > Half
      BY DEF Half
    <3>1. /\ r \notin Elements(seen) /\ marks' = marks + 1
          /\ lastMark' = [lastMark EXCEPT ![r] = marks']
          /\ lastMark \in [Requests -> Nat] /\ marks \in Nat
      BY <2>1, ConstantsAssumption DEF MarkSeen, TypeOK
    <3>2. q = r /\ lastMark'[q] = marks + 1
      BY <3>1
    <3>3. marks - lastMark[q] >= Half
      BY <3>1, <3>2 DEF CacheInv
    <3>. QED  BY <3>1, <3>2, <3>3, HalfBounds
  <2>2. ASSUME UNCHANGED lastMark  PROVE Step
    BY <2>2
  <2>3. ASSUME NEW h \in Handlers, NEW q \in Updates, Update(h, q)  PROVE Step
    BY <2>1, <2>3 DEF Update, Requests
  <2>4. ASSUME NEW q \in Proofs, ProposeOrVote(q)  PROVE Step
    BY <2>1, <2>4 DEF ProposeOrVote, Requests
  <2>5. ASSUME NEW h \in Handlers, RoundsSaved(h)  PROVE Step
    BY <2>2, <2>5 DEF RoundsSaved, history
  <2>6. ASSUME NEW q \in Requests, Expire(q)  PROVE Step
    BY <2>2, <2>6 DEF Expire, history
  <2>. QED  BY <2>3, <2>4, <2>5, <2>6 DEF Next
<1>. QED  BY <1>1, TypeCorrect, CacheInvHolds, PTL DEF Spec, ReplayNeedsEviction

-----------------------------------------------------------------------------
(* Trades. What is known of one of them: its record and its requests.       *)

Phases == {"new", "checking", "preparing", "asking", "backoff", "polling", "ended"}
Stages == {"none", "duplicate", "approval", "confirmed", "finalized", "failed"}
TradeRecord(asks) ==
  [phase : Phases, attempt : 0 .. RetryAttempts, ask : 0 .. asks,
   error : {"retryable", "final"}, stage : Stages,
   digest : (0 .. RetryAttempts) \X (0 .. asks)]

Confirmed(tr) == tr.stage \in {"confirmed", "finalized"}

\* A request of an earlier attempt, or of this one and no later than the last.
Issued(tr, r) ==
  \/ r[1] < tr.attempt
  \/ /\ r[1] = tr.attempt /\ r[2] <= tr.ask
     /\ tr.phase \in {"asking", "backoff", "polling", "ended"}

Sound(tr, open, chain, given, asks) ==
  /\ tr \in TradeRecord(asks)
  /\ open \cup chain \cup given \subseteq (0 .. RetryAttempts) \X (1 .. asks)
  /\ open \cap chain = {}
  /\ \A r \in open \cup chain \cup given : Issued(tr, r)
  /\ tr.phase = "asking" => tr.ask >= 1
  /\ tr.phase = "backoff" => tr.attempt < RetryAttempts
  /\ Confirmed(tr) => tr.phase \in {"polling", "ended"}
  /\ tr.phase = "polling" => Confirmed(tr)
  /\ Confirmed(tr) <=> tr.digest \in chain
  /\ ~Confirmed(tr) => tr.digest = NoRequest
  /\ chain \ {tr.digest} \subseteq given

\* Of a request that was not issued nothing can be said yet.
LEMMA NotIssued ==
  ASSUME NEW asks \in Nat, NEW tr, NEW open, NEW chain, NEW given,
         Sound(tr, open, chain, given, asks), NEW r, ~Issued(tr, r)
  PROVE  r \notin open \cup chain \cup given
BY DEF Sound

\* A step that issues no request and neither confirms nor begins an attempt:
\* the trade is checked, refused, prepared, backs off or ends.
LEMMA QuietStep ==
  ASSUME NEW asks \in Nat, NEW tr, NEW open, NEW chain, NEW given,
         Sound(tr, open, chain, given, asks),
         NEW new \in TradeRecord(asks),
         new.attempt = tr.attempt, new.ask = tr.ask, new.digest = tr.digest,
         \/ /\ tr.phase \in {"new", "checking"}
            /\ new.phase \in {"checking", "preparing", "ended"}
         \/ /\ tr.phase \in {"preparing", "asking"}
            /\ new.phase = "ended"
         \/ /\ tr.phase \in {"preparing", "asking"}
            /\ new.phase = "backoff" /\ tr.attempt < RetryAttempts
         \/ tr.phase = "polling" /\ new.phase = "ended",
         Confirmed(new) <=> Confirmed(tr)
  PROVE  Sound(new, open, chain, given, asks)
<1>1. \A r \in open \cup chain \cup given : Issued(new, r)
  <2>1. \A r : Issued(tr, r) => Issued(new, r)
    BY DEF Issued
  <2> QED
    BY <2>1 DEF Sound
<1>2. new.phase \in {"checking", "preparing", "ended", "backoff"}
  OBVIOUS
<1>3. Confirmed(new) => new.phase = "ended"
  BY DEF Sound
<1> QED
  BY <1>1, <1>2, <1>3 DEF Sound

\* The next attempt: all requests there were are of earlier ones.
LEMMA NextAttempt ==
  ASSUME NEW asks \in Nat, NEW tr, NEW open, NEW chain, NEW given,
         Sound(tr, open, chain, given, asks),
         NEW new \in TradeRecord(asks),
         tr.phase = "backoff", new.phase = "preparing",
         new.attempt = tr.attempt + 1, new.stage = tr.stage, new.digest = tr.digest
  PROVE  Sound(new, open, chain, given, asks)
<1>1. tr \in TradeRecord(asks) /\ ~Confirmed(tr) /\ ~Confirmed(new)
  BY DEF Sound, Confirmed
<1>2. ASSUME NEW r \in open \cup chain \cup given
      PROVE  Issued(new, r)
  <2>1. Issued(tr, r) /\ r[1] \in Int
    BY <1>2 DEF Sound
  <2>2. tr.attempt \in Int
    BY <1>1 DEF TradeRecord
  <2> QED
    BY <2>1, <2>2 DEF Issued
<1> QED
  BY <1>1, <1>2 DEF Sound

\* A request is put to the wallet: it is a new one.
LEMMA AskSound ==
  ASSUME NEW asks \in Nat, NEW tr, NEW open, NEW chain, NEW given,
         Sound(tr, open, chain, given, asks),
         NEW new \in TradeRecord(asks),
         new.phase = "asking", new.attempt = tr.attempt, new.ask >= 1,
         new.stage = tr.stage, new.digest = tr.digest,
         tr.phase = "preparing" \/ (tr.phase = "asking" /\ new.ask = tr.ask + 1)
  PROVE  Sound(new, open \cup {<<new.attempt, new.ask>>}, chain, given, asks)
<1> DEFINE r == <<new.attempt, new.ask>>
<1>1. /\ tr \in TradeRecord(asks) /\ ~Confirmed(tr) /\ ~Confirmed(new)
      /\ tr.phase \in {"preparing", "asking"}
  BY DEF Sound, Confirmed
<1>2. /\ new.attempt \in 0 .. RetryAttempts /\ new.ask \in 0 .. asks
      /\ tr.attempt \in Int /\ tr.ask \in Int
  BY <1>1 DEF TradeRecord
<1>3. r \in (0 .. RetryAttempts) \X (1 .. asks)
  BY <1>2
<1>4. ~Issued(tr, r)
  BY <1>1, <1>2 DEF Issued
<1>5. r \notin chain
  BY <1>4, NotIssued
<1>6. Issued(new, r)
  BY <1>2 DEF Issued
<1>7. ASSUME NEW q \in open \cup chain \cup given
      PROVE  Issued(new, q)
  <2>1. Issued(tr, q) /\ q[1] \in Int /\ q[2] \in Int
    BY <1>7 DEF Sound
  <2> QED
    BY <1>1, <1>2, <2>1 DEF Issued
<1> QED
  BY <1>1, <1>3, <1>5, <1>6, <1>7 DEF Sound

\* What the wallet does with a request: it is decided, and executed or not; a
\* request that is executed is given up, too.
DecidedOn(r, open, chain, given, open2, chain2, given2) ==
  /\ open2 = open \ {r}
  /\ chain2 = chain \/ chain2 = chain \cup {r}
  /\ given2 = given \/ given2 = given \cup {r}
  /\ chain2 = chain \/ r \in given2

LEMMA DecisionSound ==
  ASSUME NEW asks \in Nat, NEW tr, NEW open, NEW chain, NEW given,
         Sound(tr, open, chain, given, asks),
         NEW r \in (0 .. RetryAttempts) \X (1 .. asks), Issued(tr, r),
         NEW open2, NEW chain2, NEW given2,
         DecidedOn(r, open, chain, given, open2, chain2, given2)
  PROVE  Sound(tr, open2, chain2, given2, asks)
<1>1. r # NoRequest
  BY DEF NoRequest
<1>2. Confirmed(tr) <=> tr.digest \in chain2
  BY <1>1 DEF Sound, DecidedOn
<1>3. chain2 \ {tr.digest} \subseteq given2
  BY DEF Sound, DecidedOn
<1>4. \A q \in open2 \cup chain2 \cup given2 : Issued(tr, q)
  BY DEF Sound, DecidedOn
<1>5. open2 \cup chain2 \cup given2 \subseteq (0 .. RetryAttempts) \X (1 .. asks)
  BY DEF Sound, DecidedOn
<1>6. open2 \cap chain2 = {}
  BY DEF Sound, DecidedOn
<1> QED
  BY <1>2, <1>3, <1>4, <1>5, <1>6 DEF Sound

\* A request that is given up while it stays open.
LEMMA GivenUpSound ==
  ASSUME NEW asks \in Nat, NEW tr, NEW open, NEW chain, NEW given,
         Sound(tr, open, chain, given, asks),
         NEW r \in (0 .. RetryAttempts) \X (1 .. asks), Issued(tr, r)
  PROVE  Sound(tr, open, chain, given \cup {r}, asks)
<1>1. open \cup chain \cup (given \cup {r}) \subseteq (0 .. RetryAttempts) \X (1 .. asks)
  BY DEF Sound
<1>2. \A q \in open \cup chain \cup (given \cup {r}) : Issued(tr, q)
  BY DEF Sound
<1> QED
  BY <1>1, <1>2 DEF Sound

\* The wallet answers with the digest of the request that was waited for.
LEMMA ConfirmSound ==
  ASSUME NEW asks \in Nat, NEW tr, NEW open, NEW chain, NEW given,
         Sound(tr, open, chain, given, asks), tr.phase = "asking",
         NEW new \in TradeRecord(asks),
         new.phase = "polling", new.stage = "confirmed",
         new.attempt = tr.attempt, new.ask = tr.ask,
         new.digest = <<tr.attempt, tr.ask>>
  PROVE  Sound(new, open \ {new.digest}, chain \cup {new.digest}, given, asks)
<1> DEFINE r == <<tr.attempt, tr.ask>>
<1>1. /\ tr \in TradeRecord(asks) /\ ~Confirmed(tr) /\ Confirmed(new)
      /\ tr.digest = NoRequest /\ tr.ask >= 1
  BY DEF Sound, Confirmed
<1>2. tr.attempt \in 0 .. RetryAttempts /\ tr.ask \in 0 .. asks
  BY <1>1 DEF TradeRecord
<1>3. r \in (0 .. RetryAttempts) \X (1 .. asks)
  BY <1>1, <1>2
<1>4. Issued(new, r)
  BY <1>2 DEF Issued
<1>5. \A q : Issued(tr, q) => Issued(new, q)
  BY DEF Issued
<1>6. NoRequest \notin chain
  BY <1>1 DEF Sound
<1>7. chain \subseteq given
  BY <1>1, <1>6 DEF Sound
<1>8. \A q \in (open \ {r}) \cup (chain \cup {r}) \cup given : Issued(new, q)
  BY <1>4, <1>5 DEF Sound
<1>9. (open \ {r}) \cup (chain \cup {r}) \cup given \subseteq (0 .. RetryAttempts) \X (1 .. asks)
  BY <1>3 DEF Sound
<1>10. (open \ {r}) \cap (chain \cup {r}) = {}
  BY DEF Sound
<1> QED
  BY <1>1, <1>7, <1>8, <1>9, <1>10 DEF Sound

-----------------------------------------------------------------------------
(* The calls, the orders they are for and what the page counts.             *)

WalletRequests == (0 .. RetryAttempts) \X (1 .. Asks)

TradeShape ==
  /\ features \subseteq {"modern", "legacy"}
  /\ orderOf \in [Trades -> Orders]
  /\ trade \in [Trades -> TradeRecord(Asks)]
  /\ openRequests \in [Trades -> SUBSET WalletRequests]
  /\ onchain \in [Trades -> SUBSET WalletRequests]
  /\ givenUp \in [Trades -> SUBSET WalletRequests]
  /\ inFlight \subseteq Orders
  /\ mounted \subseteq Trades
  /\ positions \in [Orders -> Nat]

AllSound ==
  \A t \in Trades : Sound(trade[t], openRequests[t], onchain[t], givenUp[t], Asks)

Counted(o) == {t \in mounted : orderOf[t] = o /\ Confirmed(trade[t])}

\* What the page knows: each call that was made from it and goes on holds its key.
PageInv ==
  /\ \A t \in mounted : trade[t].phase # "new"
  /\ \A t \in mounted : trade[t].phase # "ended" => orderOf[t] \in inFlight
  /\ \A o \in Orders : positions[o] = Cardinality(Counted(o))
  /\ \A t, u \in mounted :
       t # u /\ orderOf[t] = orderOf[u] => "ended" \in {trade[t].phase, trade[u].phase}

TradeInv == TradeShape /\ AllSound /\ PageInv

LEMMA AsksPositive ==
  ASSUME features \subseteq {"modern", "legacy"}
  PROVE  Asks \in Nat /\ Asks >= 1
<1>1. IsFiniteSet({"modern"}) /\ IsFiniteSet({"legacy"})
  BY FS_Singleton
<1>2. IsFiniteSet({"modern"} \cup {"legacy"})
  BY <1>1, FS_Union
<1>3. features \subseteq {"modern"} \cup {"legacy"}
  OBVIOUS
<1>4. Cardinality(features) \in Nat
  BY <1>2, <1>3, FS_Subset, FS_CardinalityType
<1> QED
  BY <1>4 DEF Asks

\* What a step of one call writes.
CallMoves(t, new, open, chain, given) ==
  /\ trade' = [trade EXCEPT ![t] = new]
  /\ openRequests' = [openRequests EXCEPT ![t] = open]
  /\ onchain' = [onchain EXCEPT ![t] = chain]
  /\ givenUp' = [givenUp EXCEPT ![t] = given]

\* A step of one call: its record and its requests become others that are sound.
LEMMA OneCallSteps ==
  ASSUME TradeShape, AllSound, NEW t \in Trades, NEW new, NEW open, NEW chain, NEW given,
         Sound(new, open, chain, given, Asks),
         CallMoves(t, new, open, chain, given),
         UNCHANGED features
  PROVE  /\ AllSound'
         /\ trade' \in [Trades -> TradeRecord(Asks')]
         /\ openRequests' \in [Trades -> SUBSET WalletRequests']
         /\ onchain' \in [Trades -> SUBSET WalletRequests']
         /\ givenUp' \in [Trades -> SUBSET WalletRequests']
<1>1. Asks' = Asks /\ WalletRequests' = WalletRequests
  BY DEF Asks, WalletRequests
<1>2. /\ new \in TradeRecord(Asks) /\ open \subseteq WalletRequests
      /\ chain \subseteq WalletRequests /\ given \subseteq WalletRequests
  BY DEF Sound, WalletRequests
<1>3. /\ trade'[t] = new /\ openRequests'[t] = open
      /\ onchain'[t] = chain /\ givenUp'[t] = given
      /\ \A u \in Trades \ {t} : /\ trade'[u] = trade[u]
                                 /\ openRequests'[u] = openRequests[u]
                                 /\ onchain'[u] = onchain[u]
                                 /\ givenUp'[u] = givenUp[u]
  BY DEF TradeShape, CallMoves
<1>4. ASSUME NEW u \in Trades
      PROVE  Sound(trade'[u], openRequests'[u], onchain'[u], givenUp'[u], Asks)
  BY <1>3 DEF AllSound
<1>5. AllSound'
  BY <1>1, <1>4 DEF AllSound
<1>6. /\ trade' \in [Trades -> TradeRecord(Asks)]
      /\ openRequests' \in [Trades -> SUBSET WalletRequests]
      /\ onchain' \in [Trades -> SUBSET WalletRequests]
      /\ givenUp' \in [Trades -> SUBSET WalletRequests]
  BY <1>2 DEF TradeShape, CallMoves
<1> QED
  BY <1>1, <1>5, <1>6

\* What the page knows stays right when a call goes on, or ends and frees its key.
LEMMA PageKeeps ==
  ASSUME TradeShape, PageInv, NEW t \in Trades, NEW new,
         trade' = [trade EXCEPT ![t] = new],
         Confirmed(new) <=> Confirmed(trade[t]),
         trade[t].phase \notin {"new", "ended"}, new.phase # "new",
         UNCHANGED <<orderOf, positions, mounted>>,
         \/ inFlight' = inFlight
         \/ inFlight' = KeyFreed(t) /\ new.phase = "ended"
  PROVE  PageInv' /\ inFlight' \subseteq Orders
<1>1. trade'[t] = new /\ \A u \in Trades \ {t} : trade'[u] = trade[u]
  BY DEF TradeShape
<1>2. mounted \subseteq Trades
  BY DEF TradeShape
<1>3. \A u \in mounted : trade'[u].phase # "new"
  BY <1>1, <1>2 DEF PageInv
<1>4. \A o \in Orders : Counted(o)' = Counted(o)
  BY <1>1, <1>2 DEF Counted
<1>5. \A u \in mounted : trade[u].phase = "ended" => trade'[u].phase = "ended"
  BY <1>1, <1>2
<1>6. \A u, v \in mounted :
        u # v /\ orderOf[u] = orderOf[v] => "ended" \in {trade'[u].phase, trade'[v].phase}
  BY <1>5 DEF PageInv
<1>7. ASSUME NEW u \in mounted, trade'[u].phase # "ended"
      PROVE  orderOf[u] \in inFlight'
  <2>1. trade[u].phase # "ended" /\ orderOf[u] \in inFlight
    BY <1>5, <1>7 DEF PageInv
  <2>2. CASE inFlight' = inFlight
    BY <2>1, <2>2
  <2>3. CASE inFlight' = KeyFreed(t) /\ new.phase = "ended"
    <3>1. u # t
      BY <1>1, <1>7, <2>3
    <3>2. t \in mounted => orderOf[u] # orderOf[t]
      BY <2>1, <3>1 DEF PageInv
    <3> QED
      BY <2>1, <2>3, <3>2 DEF KeyFreed
  <2> QED
    BY <2>2, <2>3
<1>8. inFlight' \subseteq Orders
  BY DEF KeyFreed, TradeShape
<1> QED
  BY <1>3, <1>4, <1>6, <1>7, <1>8 DEF PageInv

\* An attempt that fails backs off, if there are more to make, or ends the call.
LEMMA AttemptFailsMoves ==
  ASSUME TradeShape, NEW t \in Trades, NEW error, AttemptFails(t, error)
  PROVE  \E new \in TradeRecord(Asks) :
           /\ trade' = [trade EXCEPT ![t] = new]
           /\ new.attempt = trade[t].attempt /\ new.ask = trade[t].ask
           /\ new.digest = trade[t].digest
           /\ \/ /\ new.phase = "backoff" /\ trade[t].attempt < RetryAttempts
                 /\ new.stage = trade[t].stage /\ inFlight' = inFlight
              \/ new.phase = "ended" /\ new.stage = "failed" /\ inFlight' = KeyFreed(t)
<1>1. trade[t] \in TradeRecord(Asks)
  BY DEF TradeShape
<1>2. CASE error = "retryable" /\ trade[t].attempt < RetryAttempts
  <2> DEFINE new == [trade[t] EXCEPT !.phase = "backoff"]
  <2>1. trade' = [trade EXCEPT ![t] = new] /\ inFlight' = inFlight
    BY <1>2 DEF AttemptFails
  <2>2. /\ new \in TradeRecord(Asks) /\ new.phase = "backoff"
        /\ new.attempt = trade[t].attempt /\ new.ask = trade[t].ask
        /\ new.digest = trade[t].digest /\ new.stage = trade[t].stage
    BY <1>1 DEF TradeRecord, Phases
  <2> HIDE DEF new
  <2> QED
    BY <1>2, <2>1, <2>2
<1>3. CASE ~(error = "retryable" /\ trade[t].attempt < RetryAttempts)
  <2> DEFINE new == [trade[t] EXCEPT !.phase = "ended", !.stage = "failed"]
  <2>1. trade' = [trade EXCEPT ![t] = new] /\ inFlight' = KeyFreed(t)
    BY <1>3 DEF AttemptFails, Ends, TradeShape
  <2>2. /\ new \in TradeRecord(Asks) /\ new.phase = "ended" /\ new.stage = "failed"
        /\ new.attempt = trade[t].attempt /\ new.ask = trade[t].ask
        /\ new.digest = trade[t].digest
    BY <1>1 DEF TradeRecord, Phases, Stages
  <2> HIDE DEF new
  <2> QED
    BY <2>1, <2>2
<1> QED
  BY <1>2, <1>3

\* A call that goes on, whatever becomes of its requests.
LEMMA CallKeeps ==
  ASSUME TradeInv, NEW t \in Trades, NEW new, NEW open, NEW chain, NEW given,
         Sound(new, open, chain, given, Asks),
         CallMoves(t, new, open, chain, given),
         Confirmed(new) <=> Confirmed(trade[t]),
         trade[t].phase \notin {"new", "ended"}, new.phase # "new",
         UNCHANGED <<features, orderOf, positions, mounted>>,
         \/ inFlight' = inFlight
         \/ inFlight' = KeyFreed(t) /\ new.phase = "ended"
  PROVE  TradeInv'
<1>1. TradeShape /\ AllSound /\ PageInv
  BY DEF TradeInv
<1>2. /\ AllSound'
      /\ trade' \in [Trades -> TradeRecord(Asks')]
      /\ openRequests' \in [Trades -> SUBSET WalletRequests']
      /\ onchain' \in [Trades -> SUBSET WalletRequests']
      /\ givenUp' \in [Trades -> SUBSET WalletRequests']
  BY <1>1, OneCallSteps
<1>3. PageInv' /\ inFlight' \subseteq Orders
  BY <1>1, PageKeeps DEF CallMoves
<1>4. TradeShape'
  BY <1>1, <1>2, <1>3 DEF TradeShape
<1> QED
  BY <1>2, <1>3, <1>4 DEF TradeInv

\* A call that goes on without anything said of its requests.
LEMMA QuietCallKeeps ==
  ASSUME TradeInv, NEW t \in Trades, NEW new \in TradeRecord(Asks),
         trade' = [trade EXCEPT ![t] = new],
         new.attempt = trade[t].attempt, new.ask = trade[t].ask,
         new.digest = trade[t].digest,
         \/ /\ trade[t].phase = "checking" /\ new.phase \in {"preparing", "ended"}
         \/ /\ trade[t].phase \in {"preparing", "asking"} /\ new.phase = "ended"
         \/ /\ trade[t].phase \in {"preparing", "asking"} /\ new.phase = "backoff"
            /\ trade[t].attempt < RetryAttempts
         \/ trade[t].phase = "polling" /\ new.phase = "ended",
         Confirmed(new) <=> Confirmed(trade[t]),
         UNCHANGED <<features, orderOf, positions, mounted, openRequests, onchain, givenUp>>,
         \/ inFlight' = inFlight
         \/ inFlight' = KeyFreed(t) /\ new.phase = "ended"
  PROVE  TradeInv'
<1> DEFINE open == openRequests[t]
           chain == onchain[t]
           given == givenUp[t]
<1>1. Asks \in Nat
  BY AsksPositive DEF TradeInv, TradeShape
<1>2. Sound(trade[t], openRequests[t], onchain[t], givenUp[t], Asks)
  BY DEF TradeInv, AllSound
<1>3. Sound(new, open, chain, given, Asks)
  BY <1>1, <1>2, QuietStep
<1>4. CallMoves(t, new, open, chain, given)
  BY DEF TradeInv, TradeShape, CallMoves
<1>5. trade[t].phase \notin {"new", "ended"} /\ new.phase # "new"
  OBVIOUS
<1>6. UNCHANGED <<features, orderOf, positions, mounted>>
  OBVIOUS
<1> HIDE DEF open, chain, given
<1> QED
  BY <1>3, <1>4, <1>5, <1>6, CallKeeps

\* A call is made: it is refused if its key is held, and holds it otherwise.
LEMMA ExecuteKeeps ==
  ASSUME TradeInv, NEW t \in Trades, executeTrade(t)
  PROVE  TradeInv'
<1>1. /\ trade[t].phase = "new" /\ mounted' = mounted \cup {t}
      /\ UNCHANGED <<features, orderOf, openRequests, onchain, positions, givenUp>>
  BY DEF executeTrade
<1>2. /\ TradeShape /\ AllSound /\ PageInv /\ trade[t] \in TradeRecord(Asks)
      /\ Asks \in Nat /\ Sound(trade[t], openRequests[t], onchain[t], givenUp[t], Asks)
      /\ t \notin mounted
  BY <1>1, AsksPositive DEF TradeInv, TradeShape, AllSound, PageInv
<1>3. \E new \in TradeRecord(Asks) :
        /\ trade' = [trade EXCEPT ![t] = new]
        /\ new.attempt = trade[t].attempt /\ new.ask = trade[t].ask
        /\ new.digest = trade[t].digest /\ ~Confirmed(new)
        /\ \/ new.phase = "ended" /\ inFlight' = inFlight
           \/ /\ new.phase = "checking" /\ inFlight' = inFlight \cup {orderOf[t]}
              /\ orderOf[t] \notin inFlight
  <2>1. CASE orderOf[t] \in inFlight
    <3> DEFINE new == [trade[t] EXCEPT !.phase = "ended", !.stage = "duplicate"]
    <3>1. trade' = [trade EXCEPT ![t] = new] /\ inFlight' = inFlight
      BY <1>2, <2>1 DEF executeTrade, TradeShape
    <3>2. /\ new \in TradeRecord(Asks) /\ new.phase = "ended" /\ ~Confirmed(new)
          /\ new.attempt = trade[t].attempt /\ new.ask = trade[t].ask
          /\ new.digest = trade[t].digest
      BY <1>2 DEF TradeRecord, Phases, Stages, Confirmed
    <3> HIDE DEF new
    <3> QED
      BY <3>1, <3>2
  <2>2. CASE orderOf[t] \notin inFlight
    <3> DEFINE new == [trade[t] EXCEPT !.phase = "checking", !.stage = "approval"]
    <3>1. trade' = [trade EXCEPT ![t] = new] /\ inFlight' = inFlight \cup {orderOf[t]}
      BY <1>2, <2>2 DEF executeTrade, TradeShape
    <3>2. /\ new \in TradeRecord(Asks) /\ new.phase = "checking" /\ ~Confirmed(new)
          /\ new.attempt = trade[t].attempt /\ new.ask = trade[t].ask
          /\ new.digest = trade[t].digest
      BY <1>2 DEF TradeRecord, Phases, Stages, Confirmed
    <3> HIDE DEF new
    <3> QED
      BY <2>2, <3>1, <3>2
  <2> QED
    BY <2>1, <2>2
<1>4. PICK new \in TradeRecord(Asks) :
        /\ trade' = [trade EXCEPT ![t] = new]
        /\ new.attempt = trade[t].attempt /\ new.ask = trade[t].ask
        /\ new.digest = trade[t].digest /\ ~Confirmed(new)
        /\ \/ new.phase = "ended" /\ inFlight' = inFlight
           \/ /\ new.phase = "checking" /\ inFlight' = inFlight \cup {orderOf[t]}
              /\ orderOf[t] \notin inFlight
  BY <1>3
<1>5. ~Confirmed(trade[t])
  BY <1>1, <1>2 DEF Sound
<1> DEFINE open == openRequests[t]
           chain == onchain[t]
           given == givenUp[t]
<1>6. Sound(new, open, chain, given, Asks)
  BY <1>1, <1>2, <1>4, <1>5, QuietStep
<1>7. CallMoves(t, new, open, chain, given)
  BY <1>1, <1>2, <1>4 DEF TradeShape, CallMoves
<1> HIDE DEF open, chain, given
<1>8. /\ AllSound'
      /\ trade' \in [Trades -> TradeRecord(Asks')]
      /\ openRequests' \in [Trades -> SUBSET WalletRequests']
      /\ onchain' \in [Trades -> SUBSET WalletRequests']
      /\ givenUp' \in [Trades -> SUBSET WalletRequests']
  BY <1>1, <1>2, <1>4, <1>6, <1>7, OneCallSteps
<1>9. TradeShape'
  BY <1>1, <1>2, <1>4, <1>8 DEF TradeShape
<1>10. PageInv'
  <2>1. /\ trade'[t] = new /\ mounted \subseteq Trades
        /\ \A u \in mounted : trade'[u] = trade[u]
    BY <1>2, <1>4 DEF TradeShape
  <2>2. \A u \in mounted' : trade'[u].phase # "new"
    BY <1>1, <1>2, <1>4, <2>1 DEF PageInv
  <2>3. \A u \in mounted' : trade'[u].phase # "ended" => orderOf[u] \in inFlight'
    BY <1>1, <1>2, <1>4, <2>1 DEF PageInv
  <2>4. \A o \in Orders : Counted(o)' = Counted(o)
    BY <1>1, <1>4, <2>1 DEF Counted
  <2>5. ASSUME NEW u \in mounted', NEW v \in mounted', u # v, orderOf[u] = orderOf[v]
        PROVE  "ended" \in {trade'[u].phase, trade'[v].phase}
    <3>1. CASE u \in mounted /\ v \in mounted
      BY <1>2, <2>1, <2>5, <3>1 DEF PageInv
    <3>2. CASE u = t
      <4>1. v \in mounted
        BY <1>1, <2>5, <3>2
      <4> QED
        BY <1>2, <1>4, <2>1, <2>5, <3>2, <4>1 DEF PageInv
    <3>3. CASE v = t
      <4>1. u \in mounted
        BY <1>1, <2>5, <3>3
      <4> QED
        BY <1>2, <1>4, <2>1, <2>5, <3>3, <4>1 DEF PageInv
    <3> QED
      BY <1>1, <3>1, <3>2, <3>3
  <2> QED
    BY <1>1, <1>2, <2>2, <2>3, <2>4, <2>5 DEF PageInv
<1> QED
  BY <1>8, <1>9, <1>10 DEF TradeInv

\* The steps of a call before and after it asks the wallet.
LEMMA PreparingKeeps ==
  ASSUME TradeInv, NEW t \in Trades,
         ChecksEnd(t) \/ PreparationFails(t) \/ Backoff(t) \/ waitForFinalization(t)
  PROVE  TradeInv'
<1>1. /\ TradeShape /\ AllSound /\ trade[t] \in TradeRecord(Asks) /\ Asks \in Nat
      /\ Sound(trade[t], openRequests[t], onchain[t], givenUp[t], Asks)
  BY AsksPositive DEF TradeInv, TradeShape, AllSound
<1>2. CASE ChecksEnd(t)
  <2>1. /\ trade[t].phase = "checking"
        /\ UNCHANGED <<features, orderOf, openRequests, onchain, positions, mounted, givenUp>>
    BY <1>2 DEF ChecksEnd
  <2>2. ~Confirmed(trade[t])
    BY <1>1, <2>1 DEF Sound
  <2>3. CASE trade' = [trade EXCEPT ![t].phase = "preparing"] /\ inFlight' = inFlight
    <3> DEFINE new == [trade[t] EXCEPT !.phase = "preparing"]
    <3>1. trade' = [trade EXCEPT ![t] = new]
      BY <2>3
    <3>2. /\ new \in TradeRecord(Asks) /\ new.phase = "preparing"
          /\ new.attempt = trade[t].attempt /\ new.ask = trade[t].ask
          /\ new.digest = trade[t].digest /\ new.stage = trade[t].stage
      BY <1>1 DEF TradeRecord, Phases
    <3> HIDE DEF new
    <3>3. Confirmed(new) <=> Confirmed(trade[t])
      BY <3>2 DEF Confirmed
    <3> QED
      BY <2>1, <2>3, <3>1, <3>2, <3>3, QuietCallKeeps
  <2>4. CASE Ends(t, "failed")
    <3> DEFINE new == [trade[t] EXCEPT !.phase = "ended", !.stage = "failed"]
    <3>1. trade' = [trade EXCEPT ![t] = new] /\ inFlight' = KeyFreed(t)
      BY <1>1, <2>4 DEF Ends, TradeShape
    <3>2. /\ new \in TradeRecord(Asks) /\ new.phase = "ended" /\ ~Confirmed(new)
          /\ new.attempt = trade[t].attempt /\ new.ask = trade[t].ask
          /\ new.digest = trade[t].digest
      BY <1>1 DEF TradeRecord, Phases, Stages, Confirmed
    <3> HIDE DEF new
    <3> QED
      BY <2>1, <2>2, <3>1, <3>2, QuietCallKeeps
  <2> QED
    BY <1>2, <2>3, <2>4 DEF ChecksEnd
<1>3. CASE PreparationFails(t)
  <2>1. /\ trade[t].phase = "preparing"
        /\ UNCHANGED <<features, orderOf, openRequests, onchain, positions, mounted, givenUp>>
    BY <1>3 DEF PreparationFails
  <2>2. ~Confirmed(trade[t])
    BY <1>1, <2>1 DEF Sound
  <2>3. PICK error : AttemptFails(t, error)
    BY <1>3 DEF PreparationFails
  <2>4. PICK new \in TradeRecord(Asks) :
           /\ trade' = [trade EXCEPT ![t] = new]
           /\ new.attempt = trade[t].attempt /\ new.ask = trade[t].ask
           /\ new.digest = trade[t].digest
           /\ \/ /\ new.phase = "backoff" /\ trade[t].attempt < RetryAttempts
                 /\ new.stage = trade[t].stage /\ inFlight' = inFlight
              \/ new.phase = "ended" /\ new.stage = "failed" /\ inFlight' = KeyFreed(t)
    BY <1>1, <2>3, AttemptFailsMoves
  <2>5. Confirmed(new) <=> Confirmed(trade[t])
    BY <2>2, <2>4 DEF Confirmed
  <2> QED
    BY <2>1, <2>4, <2>5, QuietCallKeeps
<1>4. CASE Backoff(t)
  <2> DEFINE new == [trade[t] EXCEPT !.phase = "preparing", !.attempt = @ + 1]
  <2>1. /\ trade[t].phase = "backoff" /\ trade' = [trade EXCEPT ![t] = new]
        /\ UNCHANGED <<features, orderOf, openRequests, onchain, inFlight, positions,
                       mounted, givenUp>>
    BY <1>1, <1>4 DEF Backoff, TradeShape
  <2>2. trade[t].attempt \in Nat /\ trade[t].attempt < RetryAttempts /\ RetryAttempts \in Nat
    <3>1. RetryAttempts \in Nat
      BY TradeConstantsAssumption
    <3> QED
      BY <1>1, <2>1, <3>1 DEF Sound, TradeRecord
  <2>3. /\ new.phase = "preparing" /\ new.attempt = trade[t].attempt + 1
        /\ new.stage = trade[t].stage /\ new.digest = trade[t].digest
    BY <1>1 DEF TradeRecord
  <2>4. new \in TradeRecord(Asks)
    <3> DEFINE next == trade[t].attempt + 1
    <3>1. next \in 0 .. RetryAttempts
      BY <2>2
    <3>2. new = [trade[t] EXCEPT !.phase = "preparing", !.attempt = next]
      OBVIOUS
    <3> HIDE DEF next, new
    <3> QED
      BY <1>1, <3>1, <3>2 DEF TradeRecord, Phases
  <2> HIDE DEF new
  <2> DEFINE open == openRequests[t]
             chain == onchain[t]
             given == givenUp[t]
  <2>5. Sound(new, open, chain, given, Asks)
    BY <1>1, <2>1, <2>3, <2>4, NextAttempt
  <2>6. CallMoves(t, new, open, chain, given)
    BY <1>1, <2>1 DEF TradeShape, CallMoves
  <2>7. Confirmed(new) <=> Confirmed(trade[t])
    BY <2>3 DEF Confirmed
  <2>8. trade[t].phase \notin {"new", "ended"} /\ new.phase # "new"
    BY <2>1, <2>3
  <2> HIDE DEF open, chain, given
  <2> QED
    BY <2>1, <2>5, <2>6, <2>7, <2>8, CallKeeps
<1>5. CASE waitForFinalization(t)
  <2>1. /\ trade[t].phase = "polling"
        /\ UNCHANGED <<features, orderOf, openRequests, onchain, positions, mounted, givenUp>>
    BY <1>5 DEF waitForFinalization
  <2>2. Confirmed(trade[t])
    BY <1>1, <2>1 DEF Sound
  <2>3. PICK stage \in {"confirmed", "finalized"} : Ends(t, stage)
    BY <1>5 DEF waitForFinalization
  <2> DEFINE new == [trade[t] EXCEPT !.phase = "ended", !.stage = stage]
  <2>4. trade' = [trade EXCEPT ![t] = new] /\ inFlight' = KeyFreed(t)
    BY <1>1, <2>3 DEF Ends, TradeShape
  <2>5. /\ new \in TradeRecord(Asks) /\ new.phase = "ended" /\ Confirmed(new)
        /\ new.attempt = trade[t].attempt /\ new.ask = trade[t].ask
        /\ new.digest = trade[t].digest
    BY <1>1, <2>3 DEF TradeRecord, Phases, Stages, Confirmed
  <2> HIDE DEF new
  <2> QED
    BY <2>1, <2>2, <2>4, <2>5, QuietCallKeeps
<1> QED
  BY <1>2, <1>3, <1>4, <1>5

\* The wallet is asked for the first time in an attempt.
LEMMA AskKeeps ==
  ASSUME TradeInv, NEW t \in Trades, AskWallet(t)
  PROVE  TradeInv'
<1> DEFINE new == [trade[t] EXCEPT !.phase = "asking", !.ask = 1, !.error = "final"]
           open == openRequests[t]
           chain == onchain[t]
           given == givenUp[t]
<1>1. /\ TradeShape /\ trade[t] \in TradeRecord(Asks) /\ Asks \in Nat /\ Asks >= 1
      /\ Sound(trade[t], open, chain, given, Asks)
  BY AsksPositive DEF TradeInv, TradeShape, AllSound
<1>2. /\ trade[t].phase = "preparing" /\ trade' = [trade EXCEPT ![t] = new]
      /\ openRequests' = [openRequests EXCEPT ![t] = open \cup {<<trade[t].attempt, 1>>}]
      /\ UNCHANGED <<features, orderOf, onchain, inFlight, positions, mounted, givenUp>>
  BY <1>1 DEF AskWallet, Opened, TradeShape
<1>3. /\ new \in TradeRecord(Asks) /\ new.phase = "asking" /\ new.ask = 1
      /\ new.attempt = trade[t].attempt /\ new.stage = trade[t].stage
      /\ new.digest = trade[t].digest
  <2> DEFINE first == 1
  <2>1. first \in 0 .. Asks
    BY <1>1
  <2>2. new = [trade[t] EXCEPT !.phase = "asking", !.ask = first, !.error = "final"]
    OBVIOUS
  <2> HIDE DEF first, new
  <2>3. /\ new \in TradeRecord(Asks) /\ new.phase = "asking" /\ new.ask = first
        /\ new.attempt = trade[t].attempt /\ new.stage = trade[t].stage
        /\ new.digest = trade[t].digest
    BY <1>1, <2>1, <2>2 DEF TradeRecord, Phases
  <2> QED
    BY <2>3 DEF first
<1> HIDE DEF new
<1> DEFINE more == open \cup {<<trade[t].attempt, 1>>}
<1>4. more = open \cup {<<new.attempt, new.ask>>}
  BY <1>3
<1>5. CallMoves(t, new, more, chain, given)
  BY <1>1, <1>2 DEF TradeShape, CallMoves
<1> HIDE DEF open, chain, given, more
<1>6. Sound(new, more, chain, given, Asks)
  BY <1>1, <1>2, <1>3, <1>4, AskSound
<1>7. /\ Confirmed(new) <=> Confirmed(trade[t])
      /\ trade[t].phase \notin {"new", "ended"} /\ new.phase # "new"
  BY <1>2, <1>3 DEF Confirmed
<1> QED
  BY <1>2, <1>5, <1>6, <1>7, CallKeeps

\* What a step learns of its requests, but for those that are open.
Learns(t, chain, given) ==
  /\ onchain' = [onchain EXCEPT ![t] = chain]
  /\ givenUp' = [givenUp EXCEPT ![t] = given]
  /\ UNCHANGED <<features, orderOf, mounted>>

\* A request ends without a digest: the wallet is asked again, or the attempt
\* fails.
LEMMA SettleKeeps ==
  ASSUME TradeInv, NEW t \in Trades, trade[t].phase = "asking",
         NEW answer \in {"nodigest", "error"}, NEW error \in {"retryable", "final"},
         NEW open, NEW chain, NEW given, Sound(trade[t], open, chain, given, Asks),
         Settle(t, answer, error, open), Learns(t, chain, given)
  PROVE  TradeInv'
<1>0. /\ onchain' = [onchain EXCEPT ![t] = chain]
      /\ givenUp' = [givenUp EXCEPT ![t] = given]
      /\ UNCHANGED <<features, orderOf, mounted>>
  BY DEF Learns
<1>1. TradeShape /\ trade[t] \in TradeRecord(Asks) /\ Asks \in Nat
  BY AsksPositive DEF TradeInv, TradeShape
<1>2. CASE AskedAgain(t, answer)
  <2> DEFINE next == trade[t].ask + 1
             new == [trade[t] EXCEPT !.ask = next, !.error = error]
             more == open \cup {<<trade[t].attempt, next>>}
  <2>1. /\ trade' = [trade EXCEPT ![t] = new]
        /\ openRequests' = [openRequests EXCEPT ![t] = more]
        /\ UNCHANGED <<inFlight, positions>>
    BY <1>1, <1>2 DEF Settle, TradeShape
  <2>2. next \in 0 .. Asks /\ next >= 1
    BY <1>1, <1>2 DEF AskedAgain, TradeRecord
  <2>3. /\ new \in TradeRecord(Asks) /\ new.phase = "asking" /\ new.ask = next
        /\ new.attempt = trade[t].attempt /\ new.stage = trade[t].stage
        /\ new.digest = trade[t].digest
    <3> HIDE DEF next
    <3> QED
      BY <1>1, <2>2 DEF TradeRecord, Phases
  <2>4. CallMoves(t, new, more, chain, given)
    BY <1>0, <2>1 DEF CallMoves
  <2> HIDE DEF new
  <2>5. more = open \cup {<<new.attempt, new.ask>>}
    BY <2>3
  <2> HIDE DEF more
  <2>6. Sound(new, more, chain, given, Asks)
    BY <1>1, <2>2, <2>3, <2>5, AskSound
  <2>7. /\ Confirmed(new) <=> Confirmed(trade[t])
        /\ trade[t].phase \notin {"new", "ended"} /\ new.phase # "new"
    BY <2>3 DEF Confirmed
  <2> QED
    BY <1>0, <2>1, <2>4, <2>6, <2>7, CallKeeps
<1>3. CASE ~AskedAgain(t, answer)
  <2>1. /\ openRequests' = [openRequests EXCEPT ![t] = open]
        /\ AttemptFails(t, IF answer = "error" THEN error ELSE trade[t].error)
        /\ positions' = positions
    BY <1>3 DEF Settle
  <2>2. PICK new \in TradeRecord(Asks) :
           /\ trade' = [trade EXCEPT ![t] = new]
           /\ new.attempt = trade[t].attempt /\ new.ask = trade[t].ask
           /\ new.digest = trade[t].digest
           /\ \/ /\ new.phase = "backoff" /\ trade[t].attempt < RetryAttempts
                 /\ new.stage = trade[t].stage /\ inFlight' = inFlight
              \/ new.phase = "ended" /\ new.stage = "failed" /\ inFlight' = KeyFreed(t)
    BY <1>1, <2>1, AttemptFailsMoves
  <2>3. ~Confirmed(trade[t])
    BY DEF Sound
  <2>4. /\ Confirmed(new) <=> Confirmed(trade[t])
        /\ trade[t].phase \notin {"new", "ended"} /\ new.phase # "new"
    BY <2>2, <2>3 DEF Confirmed
  <2>5. CallMoves(t, new, open, chain, given)
    BY <1>0, <2>1, <2>2 DEF CallMoves
  <2>6. Sound(new, open, chain, given, Asks)
    BY <1>1, <2>2, <2>4, QuietStep
  <2> QED
    BY <1>0, <2>1, <2>2, <2>4, <2>5, <2>6, CallKeeps
<1> QED
  BY <1>2, <1>3

\* A trade is confirmed, and counted if the page is still there.
LEMMA ConfirmKeeps ==
  ASSUME TradeInv, NEW t \in Trades, trade[t].phase = "asking",
         NEW error, Settle(t, "digest", error, openRequests[t] \ {Request(t)}),
         onchain' = [onchain EXCEPT ![t] = @ \cup {Request(t)}],
         UNCHANGED <<features, orderOf, mounted, givenUp>>
  PROVE  TradeInv'
<1> DEFINE r == Request(t)
           new == [trade[t] EXCEPT !.phase = "polling", !.stage = "confirmed", !.digest = r]
           open == openRequests[t] \ {r}
           chain == onchain[t] \cup {r}
           given == givenUp[t]
<1>1. /\ TradeShape /\ AllSound /\ PageInv /\ trade[t] \in TradeRecord(Asks) /\ Asks \in Nat
      /\ Sound(trade[t], openRequests[t], onchain[t], givenUp[t], Asks)
  BY AsksPositive DEF TradeInv, TradeShape, AllSound
<1>2. ~AskedAgain(t, "digest")
  BY DEF AskedAgain
<1>3. /\ openRequests' = [openRequests EXCEPT ![t] = open]
      /\ trade' = [trade EXCEPT ![t] = new]
      /\ positions' = IF t \in mounted THEN [positions EXCEPT ![orderOf[t]] = @ + 1]
                                       ELSE positions
      /\ inFlight' = inFlight
  BY <1>1, <1>2 DEF Settle, TradeShape
<1>4. r = <<trade[t].attempt, trade[t].ask>>
  BY DEF Request
<1>5. r \in (0 .. RetryAttempts) \X (0 .. Asks)
  BY <1>1, <1>4 DEF TradeRecord
<1> HIDE DEF r
<1>6. /\ new \in TradeRecord(Asks) /\ new.phase = "polling" /\ new.stage = "confirmed"
      /\ new.attempt = trade[t].attempt /\ new.ask = trade[t].ask /\ new.digest = r
  BY <1>1, <1>5 DEF TradeRecord, Phases, Stages
<1>7. CallMoves(t, new, open, chain, given)
  BY <1>1, <1>3 DEF CallMoves, TradeShape, r
<1> HIDE DEF new
<1>8. Sound(new, open, chain, given, Asks)
  BY <1>1, <1>4, <1>6, ConfirmSound
<1> HIDE DEF open, chain, given
<1>9. /\ AllSound'
      /\ trade' \in [Trades -> TradeRecord(Asks')]
      /\ openRequests' \in [Trades -> SUBSET WalletRequests']
      /\ onchain' \in [Trades -> SUBSET WalletRequests']
      /\ givenUp' \in [Trades -> SUBSET WalletRequests']
  BY <1>1, <1>7, <1>8, OneCallSteps
<1>10. TradeShape'
  BY <1>1, <1>3, <1>9 DEF TradeShape
<1>11. /\ trade'[t] = new /\ \A u \in Trades \ {t} : trade'[u] = trade[u]
       /\ mounted \subseteq Trades /\ ~Confirmed(trade[t]) /\ Confirmed(new)
  BY <1>1, <1>3, <1>6 DEF TradeShape, Sound, Confirmed
<1>12. \A o \in Orders : positions'[o] = Cardinality(Counted(o)')
  <2> SUFFICES ASSUME NEW o \in Orders
               PROVE  positions'[o] = Cardinality(Counted(o)')
    OBVIOUS
  <2>1. positions[o] = Cardinality(Counted(o)) /\ positions \in [Orders -> Nat]
          /\ orderOf[t] \in Orders
    BY <1>1 DEF PageInv, TradeShape
  <2>2. IsFiniteSet(Counted(o)) /\ t \notin Counted(o)
    <3>1. Counted(o) \subseteq Trades
      BY <1>11 DEF Counted
    <3> QED
      BY <1>11, <3>1, TradeConstantsAssumption, FS_Subset DEF Counted
  <2>3. CASE t \in mounted /\ orderOf[t] = o
    <3>1. Counted(o)' = Counted(o) \cup {t}
      BY <1>11, <2>3 DEF Counted
    <3>2. Cardinality(Counted(o) \cup {t}) = Cardinality(Counted(o)) + 1
      BY <2>2, FS_AddElement
    <3> QED
      BY <1>3, <2>1, <2>3, <3>1, <3>2
  <2>4. CASE ~(t \in mounted /\ orderOf[t] = o)
    <3>1. Counted(o)' = Counted(o)
      BY <1>11, <2>4 DEF Counted
    <3>2. positions'[o] = positions[o]
      BY <1>3, <2>1, <2>4
    <3> QED
      BY <2>1, <3>1, <3>2
  <2> QED
    BY <2>3, <2>4
<1>13. /\ \A u \in mounted' : trade'[u].phase # "new"
       /\ \A u \in mounted' : trade'[u].phase # "ended" => orderOf'[u] \in inFlight'
       /\ \A u, v \in mounted' : u # v /\ orderOf'[u] = orderOf'[v] =>
                                   "ended" \in {trade'[u].phase, trade'[v].phase}
  <2>1. \A u \in mounted : /\ trade'[u].phase = "ended" <=> trade[u].phase = "ended"
                           /\ trade'[u].phase # "new"
    BY <1>1, <1>6, <1>11 DEF PageInv
  <2> QED
    BY <1>1, <1>3, <2>1 DEF PageInv
<1> QED
  BY <1>9, <1>10, <1>12, <1>13 DEF TradeInv, PageInv

\* The request that is waited for has been issued.
LEMMA AwaitedIssued ==
  ASSUME TradeInv, NEW t \in Trades, trade[t].phase = "asking"
  PROVE  /\ Request(t) \in (0 .. RetryAttempts) \X (1 .. Asks)
         /\ Issued(trade[t], Request(t))
<1>1. /\ trade[t] \in TradeRecord(Asks) /\ trade[t].ask >= 1
  BY DEF TradeInv, TradeShape, AllSound, Sound
<1>2. trade[t].attempt \in 0 .. RetryAttempts /\ trade[t].ask \in 1 .. Asks
  BY <1>1 DEF TradeRecord
<1> QED
  BY <1>2 DEF Request, Issued

\* The wallet answers the request that is waited for.
LEMMA AnswerKeeps ==
  ASSUME TradeInv, NEW t \in Trades, NEW executed \in BOOLEAN, NEW a \in Answers,
         WalletAnswers(t, executed, a)
  PROVE  TradeInv'
<1> DEFINE r == Request(t)
           open == openRequests[t] \ {r}
           chain == IF executed THEN onchain[t] \cup {r} ELSE onchain[t]
           given == IF executed THEN givenUp[t] \cup {r} ELSE givenUp[t]
<1>1. /\ TradeShape /\ AllSound /\ Asks \in Nat
      /\ Sound(trade[t], openRequests[t], onchain[t], givenUp[t], Asks)
  BY AsksPositive DEF TradeInv, TradeShape, AllSound
<1>2. /\ trade[t].phase = "asking"
      /\ Settle(t, a[1], a[2], open)
      /\ onchain' = IF executed THEN [onchain EXCEPT ![t] = @ \cup {r}] ELSE onchain
      /\ UNCHANGED <<features, orderOf, mounted>>
  BY DEF WalletAnswers
<1>3. CASE a[1] = "digest"
  <2>1. executed /\ givenUp' = givenUp
    BY <1>3 DEF WalletAnswers
  <2> QED
    BY <1>2, <1>3, <2>1, ConfirmKeeps
<1>4. CASE a[1] # "digest"
  <2>1. a[1] \in {"nodigest", "error"} /\ a[2] \in {"retryable", "final"}
    BY <1>4 DEF Answers
  <2>2. givenUp' = [givenUp EXCEPT ![t] = given]
    <3>1. CASE executed
      BY <1>4, <3>1 DEF WalletAnswers, GiveUp
    <3>2. CASE ~executed
      BY <1>1, <3>2 DEF WalletAnswers, TradeShape
    <3> QED
      BY <3>1, <3>2
  <2>3. onchain' = [onchain EXCEPT ![t] = chain]
    BY <1>1, <1>2 DEF TradeShape
  <2>4. r \in (0 .. RetryAttempts) \X (1 .. Asks) /\ Issued(trade[t], r)
    BY <1>2, AwaitedIssued
  <2>5. DecidedOn(r, openRequests[t], onchain[t], givenUp[t], open, chain, given)
    BY DEF DecidedOn
  <2>6. Learns(t, chain, given)
    BY <1>2, <2>2, <2>3 DEF Learns
  <2> HIDE DEF r, open, chain, given
  <2>7. Sound(trade[t], open, chain, given, Asks)
    BY <1>1, <2>4, <2>5, DecisionSound
  <2> QED
    BY <1>2, <2>1, <2>6, <2>7, SettleKeeps
<1> QED
  BY <1>3, <1>4

\* Nobody waits for the request any more; it stays open in the wallet.
LEMMA TimeoutKeeps ==
  ASSUME TradeInv, NEW t \in Trades, RequestTimesOut(t)
  PROVE  TradeInv'
<1> DEFINE r == Request(t)
           open == openRequests[t]
           chain == onchain[t]
           given == givenUp[t] \cup {r}
<1>1. /\ TradeShape /\ Asks \in Nat
      /\ Sound(trade[t], open, chain, givenUp[t], Asks)
  BY AsksPositive DEF TradeInv, TradeShape, AllSound
<1>2. /\ trade[t].phase = "asking"
      /\ Settle(t, "error", "final", open)
      /\ givenUp' = [givenUp EXCEPT ![t] = given]
      /\ UNCHANGED <<features, orderOf, onchain, mounted>>
  BY DEF RequestTimesOut, GiveUp
<1>3. onchain' = [onchain EXCEPT ![t] = chain]
  BY <1>1, <1>2 DEF TradeShape
<1>4. r \in (0 .. RetryAttempts) \X (1 .. Asks) /\ Issued(trade[t], r)
  BY <1>2, AwaitedIssued
<1> HIDE DEF r, open, chain
<1>5. Sound(trade[t], open, chain, given, Asks)
  BY <1>1, <1>4, GivenUpSound
<1> HIDE DEF given
<1>6. Learns(t, chain, given)
  BY <1>2, <1>3 DEF Learns
<1> QED
  BY <1>2, <1>5, <1>6, SettleKeeps

\* The wallet's user decides late.
LEMMA LateDecisionKeeps ==
  ASSUME TradeInv, NEW t \in Trades, NEW r \in openRequests[t], NEW approved \in BOOLEAN,
         LateDecision(t, r, approved)
  PROVE  TradeInv'
<1> DEFINE tr == trade[t]
           open == openRequests[t] \ {r}
           chain == IF approved THEN onchain[t] \cup {r} ELSE onchain[t]
           given == givenUp[t]
<1>1. /\ TradeShape /\ AllSound /\ PageInv /\ Asks \in Nat
      /\ Sound(tr, openRequests[t], onchain[t], given, Asks)
  BY AsksPositive DEF TradeInv, TradeShape, AllSound
<1>2. /\ r \in given /\ UNCHANGED <<features, orderOf, trade, inFlight, positions,
                                    mounted, givenUp>>
      /\ CallMoves(t, tr, open, chain, given)
  BY <1>1 DEF LateDecision, CallMoves, TradeShape
<1>3. r \in (0 .. RetryAttempts) \X (1 .. Asks) /\ Issued(tr, r)
  BY <1>1 DEF Sound
<1>3a. DecidedOn(r, openRequests[t], onchain[t], given, open, chain, given)
  BY <1>2 DEF DecidedOn
<1> HIDE DEF tr, open, chain, given
<1>4. Sound(tr, open, chain, given, Asks)
  BY <1>1, <1>3, <1>3a, DecisionSound
<1>5. /\ AllSound'
      /\ trade' \in [Trades -> TradeRecord(Asks')]
      /\ openRequests' \in [Trades -> SUBSET WalletRequests']
      /\ onchain' \in [Trades -> SUBSET WalletRequests']
      /\ givenUp' \in [Trades -> SUBSET WalletRequests']
  BY <1>1, <1>2, <1>4, OneCallSteps
<1>6. TradeShape'
  BY <1>1, <1>2, <1>5 DEF TradeShape
<1>7. PageInv'
  BY <1>1, <1>2 DEF PageInv, Counted
<1> QED
  BY <1>5, <1>6, <1>7 DEF TradeInv

\* The user leaves the page: nothing is counted and no key is held, by calls that
\* go on.
LEMMA UnmountKeeps ==
  ASSUME TradeInv, Unmount
  PROVE  TradeInv'
<1>1. /\ TradeShape /\ AllSound
      /\ mounted' = {} /\ inFlight' = {} /\ positions' = [o \in Orders |-> 0]
      /\ UNCHANGED <<features, orderOf, trade, openRequests, onchain, givenUp>>
  BY DEF TradeInv, Unmount
<1>2. TradeShape' /\ AllSound'
  BY <1>1 DEF TradeShape, AllSound, Asks, WalletRequests
<1>3. \A o : Counted(o)' = {}
  BY <1>1 DEF Counted
<1>4. Cardinality({}) = 0
  BY FS_EmptySet
<1>5. \A o \in Orders : positions'[o] = Cardinality(Counted(o)')
  BY <1>1, <1>3, <1>4
<1>6. PageInv'
  BY <1>1, <1>5 DEF PageInv
<1> QED
  BY <1>2, <1>6 DEF TradeInv

\* What TradeInv says of the run's invariant.
LEMMA TradeInvAccounts == TradeInv => TradesAccounted
<1> SUFFICES ASSUME TradeInv
             PROVE  TradesAccounted
  OBVIOUS
<1>1. TradeTypeOK
  <2>1. trade \in [Trades -> TradeRecord(Asks)] /\ inFlight \subseteq Orders
          /\ mounted \subseteq Trades
    BY DEF TradeInv, TradeShape
  <2>2. \A t \in Trades : /\ onchain[t] \subseteq (0 .. RetryAttempts) \X (1 .. Asks)
                          /\ openRequests[t] \union givenUp[t] \subseteq
                               (0 .. RetryAttempts) \X (1 .. Asks)
                          /\ openRequests[t] \intersect onchain[t] = {}
    BY DEF TradeInv, AllSound, Sound
  <2> QED
    BY <2>1, <2>2 DEF TradeTypeOK, TradeRecord, Phases, Stages
<1>2. \A t \in Trades :
        /\ trade[t].stage \in {"confirmed", "finalized"} <=> trade[t].digest \in onchain[t]
        /\ onchain[t] \ {trade[t].digest} \subseteq givenUp[t]
  BY DEF TradeInv, AllSound, Sound, Confirmed
<1>3. \A o \in Orders :
        positions[o] = Cardinality({t \in mounted :
                         /\ orderOf[t] = o
                         /\ trade[t].stage \in {"confirmed", "finalized"}})
  BY DEF TradeInv, PageInv, Counted, Confirmed
<1>4. \A t, u \in mounted :
        t # u /\ orderOf[t] = orderOf[u] => "ended" \in {trade[t].phase, trade[u].phase}
  BY DEF TradeInv, PageInv
<1> QED
  BY <1>1, <1>2, <1>3, <1>4 DEF TradesAccounted

\* What the page shows of its trades is what they did on chain, but for requests
\* it was never told the fate of (TradesAccounted of TradeExecution): however
\* many calls, attempts, late decisions of the user and returns to the page.
THEOREM TradesAreAccounted == TradeSpec => []TradesAccounted
<1>1. TradeInit => TradeInv
  <2> SUFFICES ASSUME TradeInit
               PROVE  TradeInv
    OBVIOUS
  <2>1. features \subseteq {"modern", "legacy"} /\ RetryAttempts \in Nat
    BY TradeConstantsAssumption DEF TradeInit
  <2>2. Asks \in Nat
    BY <2>1, AsksPositive
  <2> DEFINE start == [phase |-> "new", attempt |-> 0, ask |-> 0, error |-> "final",
                       stage |-> "none", digest |-> NoRequest]
  <2>3. start \in TradeRecord(Asks)
    BY <2>1, <2>2 DEF TradeRecord, Phases, Stages, NoRequest
  <2>4. Sound(start, {}, {}, {}, Asks)
    BY <2>3 DEF Sound, Confirmed
  <2>5. trade = [t \in Trades |-> start]
    BY DEF TradeInit
  <2> HIDE DEF start
  <2>6. TradeShape
    BY <2>1, <2>3, <2>5 DEF TradeInit, TradeShape
  <2>7. AllSound
    BY <2>4, <2>5 DEF TradeInit, AllSound
  <2>8. \A o : Counted(o) = {}
    BY DEF TradeInit, Counted
  <2>9. PageInv
    BY <2>8, FS_EmptySet DEF TradeInit, PageInv
  <2> QED
    BY <2>6, <2>7, <2>9 DEF TradeInv
<1>2. TradeInv /\ [TradeNext]_tradeVars => TradeInv'
  <2> SUFFICES ASSUME TradeInv, [TradeNext]_tradeVars
               PROVE  TradeInv'
    OBVIOUS
  <2>1. CASE UNCHANGED tradeVars
    BY <2>1 DEF tradeVars, TradeInv, TradeShape, AllSound, PageInv, Counted, Asks,
                WalletRequests
  <2> QED
    BY <2>1, ExecuteKeeps, PreparingKeeps, AskKeeps, AnswerKeeps, TimeoutKeeps,
       LateDecisionKeeps, UnmountKeeps DEF TradeNext
<1> QED
  BY <1>1, <1>2, TradeInvAccounts, PTL DEF TradeSpec

=============================================================================
