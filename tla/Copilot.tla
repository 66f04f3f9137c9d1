------------------------------ MODULE Copilot ------------------------------
(***************************************************************************)
(* frontend/src/services/copilot-bridge.ts: the queue of action cards that *)
(* the copilot panel (CopilotOpsPanel.tsx) plans, runs one by one or all   *)
(* at once, pauses, cancels and clears. A card runs by a request event to  *)
(* the handler (copilot-action-handler.ts), which answers with a result    *)
(* event, late or never; a request is given up after a timeout, and tried  *)
(* again, while its handler goes on. Everything but local storage is lost  *)
(* when the page is reloaded.                                              *)
(***************************************************************************)
EXTENDS Integers, FiniteSets, SequencesExt

CONSTANTS
  NumCards,          \* bound: cards ever planned, numbered as they are created
  Urgent,            \* cards of priority urgent; the panel plans the others as high
  Gated,             \* cards of a type getPreflightFailure looks at
  QueueLimit,        \* length at which handleAgentIntent cuts the queue
  MaxRetries,        \* config.maxRetries
  MaxLeftover        \* bound: handlers of given-up requests at which the user
                     \* does not run the card once more

Cards == 1 .. NumCards
NoCard == 0

ASSUME ConstantsAssumption ==
  /\ {NumCards, QueueLimit, MaxRetries, MaxLeftover} \subseteq Nat
  /\ Urgent \subseteq Cards /\ Gated \subseteq Cards

VARIABLES
  bridge,            \* the bridge: queue, executions (the calls of executeAction
                     \* that are awaiting), run (runState and the locals of
                     \* executeQueuedActions), activeAbort (the request it would
                     \* end, if any), and stored, what persistState last wrote
  planned,           \* cards created so far
  preflightOk,       \* the context passes getPreflightFailure
  handlers,          \* per card: handlers at work
  gaveUp,            \* history: cards with a request given up by timeout or cancel
  displaced          \* history: the queue was replaced during an execution

vars == <<bridge, planned, preflightOk, handlers, gaveUp, displaced>>

Statuses == {"queued", "running", "completed", "failed", "blocked"}

\* A slot of the queue's array that was never assigned.
Hole == [id |-> NoCard, status |-> "none"]

NotRunning == [phase |-> "idle", paused |-> FALSE, cancelRequested |-> FALSE,
               stopOnFailure |-> TRUE, todo |-> <<>>]

Init ==
  /\ bridge = [queue |-> <<>>, executions |-> {}, run |-> NotRunning,
               activeAbort |-> {}, stored |-> <<>>]
  /\ planned = 0
  /\ preflightOk = FALSE
  /\ handlers = [c \in Cards |-> 0]
  /\ gaveUp = {}
  /\ displaced = FALSE

-----------------------------------------------------------------------------
isRunning == bridge.run.phase \in {"next", "executing"}

Persisted(b) == [b EXCEPT !.stored = b.queue]

\* findIndex by id; it throws on a hole that comes first.
FindIndex(q, c) ==
  LET found == {i \in DOMAIN q : q[i].id \in {c, NoCard}}
  IN IF found # {} /\ q[Min(found)].id = c THEN Min(found) ELSE 0

\* filter by status.
Filtered(q, statuses) ==
  LET kept[i \in 0 .. Len(q)] ==
        IF i = 0 THEN <<>>
        ELSE IF q[i].status \in statuses THEN Append(kept[i - 1], q[i])
        ELSE kept[i - 1]
  IN kept[Len(q)]

\* this.queue[index] = card, by an index that the array may have outgrown or
\* fallen short of.
Assign(q, index, card) ==
  [i \in 1 .. Max({index, Len(q)}) |->
     CASE i = index -> card [] i # index /\ i <= Len(q) -> q[i] [] OTHER -> Hole]

\* The queue in order of priority, then of creation; the one such queue, as the
\* sort is stable.
sortQueue(q) ==
  LET rank(i) == IF q[i].id \in Urgent THEN 0 ELSE 1
      Before(i, j) == \/ rank(i) < rank(j)
                      \/ rank(i) = rank(j) /\ q[i].id < q[j].id
                      \/ rank(i) = rank(j) /\ q[i].id = q[j].id /\ i < j
      orders == {order \in [DOMAIN q -> DOMAIN q] :
                   \A i, j \in DOMAIN q : i < j => Before(order[i], order[j])}
  IN {[i \in DOMAIN q |-> q[order[i]]] : order \in orders}

\* executeQueuedActions after its loop; the transcript is then posted.
Ended(b) ==
  Persisted([b EXCEPT !.run = [NotRunning EXCEPT !.phase = "posting"],
                      !.activeAbort = {}])

\* executeQueuedActions when executeAction has returned a card of this status.
Continued(b, status) ==
  IF status = "failed" /\ b.run.stopOnFailure
    THEN Ended(b)
    ELSE [b EXCEPT !.run.phase = "next"]

Returned(b, by, status) == IF by = "run" THEN Continued(b, status) ELSE b

getPreflightFailure(c) == c \in Gated /\ ~preflightOk

\* executeAction up to its first await, for the run or for a click of the user.
Executed(b, c, by) ==
  LET i == FindIndex(b.queue, c)
      e == [card |-> c, by |-> by, index |-> i, attempt |-> 0, phase |-> "waiting"]
  IN
  CASE i = 0 -> Returned(b, by, "failed")
    [] i > 0 /\ b.queue[i].status = "completed" -> Returned(b, by, "completed")
    [] i > 0 /\ b.queue[i].status # "completed" /\ getPreflightFailure(c) ->
         Returned(Persisted([b EXCEPT !.queue[i].status = "blocked"]), by, "blocked")
    [] OTHER ->
         [b EXCEPT !.queue[i].status = "running",
                   !.executions = @ \union {e},
                   !.activeAbort = {e},
                   !.run.phase = IF by = "run" THEN "executing" ELSE @]

\* Mutant: the abort handle outlives its request.
AbortKept(b) == b.activeAbort
\* cleanup forgets the abort handle, whoever set it.
AbortAfterCleanup(b) == {}

\* executeAction when its request has ended: with a result, or given up.
Settled(b, e, outcome) ==
  LET retried == outcome = "temporary" /\ e.attempt < MaxRetries
      status == CASE outcome = "ok" -> "completed"
                  [] retried -> "running"
                  [] OTHER -> "failed"
      awaiting == IF retried THEN {[e EXCEPT !.phase = "backoff"]} ELSE {}
      written == [b EXCEPT !.queue = Assign(@, e.index, [id |-> e.card, status |-> status]),
                           !.executions = (@ \ {e}) \union awaiting,
                           !.activeAbort = AbortAfterCleanup(b)]
  IN IF retried THEN written ELSE Returned(Persisted(written), e.by, status)

\* Several requests end alike, one after the other.
SettledInTurn(b, requests, outcome) ==
  LET after[i \in 0 .. Len(requests)] ==
        IF i = 0 THEN b ELSE Settled(after[i - 1], requests[i], outcome)
  IN after[Len(requests)]

\* The panel renders the queue; a hole breaks the rendering, and the panel is
\* gone with its buttons and listeners.
Shown == \A i \in DOMAIN bridge.queue : bridge.queue[i] # Hole

\* The handler, which the panel registers, starts on every request event.
Requests(b, c) ==
  Cardinality({e \in b.executions \ bridge.executions : e.card = c /\ e.phase = "waiting"})
Started(b) == IF Shown THEN [c \in Cards |-> handlers[c] + Requests(b, c)] ELSE handlers

-----------------------------------------------------------------------------

\* handleAgentIntent, for a plan of n cards.
Plan(n) ==
  LET created == [i \in 1 .. n |-> [id |-> planned + i, status |-> "queued"]]
  IN
  /\ Shown /\ planned + n <= NumCards
  /\ planned' = planned + n
  /\ \E sorted \in sortQueue(bridge.queue \o created) :
       bridge' = Persisted([bridge EXCEPT !.queue =
                              SubSeq(sorted, 1, Min({Len(sorted), QueueLimit}))])
  /\ displaced' = (displaced \/ bridge.executions # {})
  /\ UNCHANGED <<preflightOk, handlers, gaveUp>>

clearQueue ==
  /\ Shown /\ bridge.queue # <<>>
  /\ bridge' = Persisted([bridge EXCEPT !.queue = <<>>])
  /\ displaced' = (displaced \/ bridge.executions # {})
  /\ UNCHANGED <<planned, preflightOk, handlers, gaveUp>>

setContext ==
  /\ Shown
  /\ preflightOk' = ~preflightOk
  /\ bridge' = Persisted(bridge)
  /\ UNCHANGED <<planned, handlers, gaveUp, displaced>>

\* The Run button of a card: disabled while all run, or this card does.
RunOne(c) ==
  /\ Shown /\ bridge.run.phase = "idle"
  /\ \E i \in DOMAIN bridge.queue :
       bridge.queue[i].id = c /\ bridge.queue[i].status # "running"
  /\ handlers[c] <= MaxLeftover
  /\ bridge' = Executed(bridge, c, "user")
  /\ handlers' = Started(bridge')
  /\ UNCHANGED <<planned, preflightOk, gaveUp, displaced>>

\* Mutant: the run takes every card, also one the user has started.
AllCards(q) == q
NotYetRunning(q) == Filtered(q, Statuses \ {"running"})

\* The start of executeQueuedActions.
RunAll(stopOnFailure) ==
  LET queued == NotYetRunning(bridge.queue)
  IN
  /\ Shown /\ bridge.queue # <<>> /\ bridge.run.phase = "idle"
  /\ \A i \in DOMAIN queued : handlers[queued[i].id] <= MaxLeftover
  /\ bridge' = [bridge EXCEPT !.run =
                  [NotRunning EXCEPT !.phase = "next", !.stopOnFailure = stopOnFailure,
                                     !.todo = [i \in DOMAIN queued |-> queued[i].id]]]
  /\ UNCHANGED <<planned, preflightOk, handlers, gaveUp, displaced>>

\* One turn of the loop of executeQueuedActions, waitForResumeOrCancel included:
\* a step of its own, though no other event comes between turns that do not wait.
RunNext ==
  LET run == bridge.run
  IN
  /\ run.phase = "next"
  /\ ~run.paused \/ run.cancelRequested \/ run.todo = <<>>
  /\ bridge' = IF run.cancelRequested \/ run.todo = <<>>
                 THEN Ended(bridge)
                 ELSE Executed([bridge EXCEPT !.run.todo = Tail(@)], Head(run.todo), "run")
  /\ handlers' = Started(bridge')
  /\ UNCHANGED <<planned, preflightOk, gaveUp, displaced>>

\* The fetch of postTranscript ends, and with it the panel's isExecutingAll.
postTranscript ==
  /\ bridge.run.phase = "posting"
  /\ bridge' = [bridge EXCEPT !.run.phase = "idle"]
  /\ UNCHANGED <<planned, preflightOk, handlers, gaveUp, displaced>>

pauseQueueExecution ==
  /\ isRunning /\ Shown /\ ~bridge.run.paused
  /\ bridge' = [bridge EXCEPT !.run.paused = TRUE]
  /\ UNCHANGED <<planned, preflightOk, handlers, gaveUp, displaced>>

resumeQueueExecution ==
  /\ isRunning /\ Shown /\ bridge.run.paused
  /\ bridge' = [bridge EXCEPT !.run.paused = FALSE]
  /\ UNCHANGED <<planned, preflightOk, handlers, gaveUp, displaced>>

\* Ends the request that set the abort handle last, if no request has ended since.
cancelQueueExecution ==
  LET asked == [bridge EXCEPT !.run.cancelRequested = TRUE, !.run.paused = FALSE]
  IN
  /\ isRunning /\ Shown
  /\ \E requests \in SetToSeqs(bridge.activeAbort) :
       bridge' = SettledInTurn(asked, requests, "cancelled")
  /\ gaveUp' = gaveUp \union {e.card : e \in bridge.activeAbort}
  /\ UNCHANGED <<planned, preflightOk, handlers, displaced>>

\* A handler ends; its result event settles every request waiting for the card,
\* the one that started this handler or a later one.
Answer(c, outcome) ==
  LET listening == {e \in bridge.executions : e.card = c /\ e.phase = "waiting"}
  IN
  /\ handlers[c] > 0
  /\ handlers' = [handlers EXCEPT ![c] = @ - 1]
  /\ \E requests \in SetToSeqs(listening) :
       bridge' = SettledInTurn(bridge, requests, outcome)
  /\ UNCHANGED <<planned, preflightOk, gaveUp, displaced>>

\* Mutant: the request waits for its result without a timer.
WithoutTimer(e) == FALSE

\* actionTimeoutMs is over; a timeout is an error of the retried kind.
TimeOut(e) ==
  /\ e.phase = "waiting"
  /\ bridge' = Settled(bridge, e, "temporary")
  /\ gaveUp' = gaveUp \union {e.card}
  /\ UNCHANGED <<planned, preflightOk, handlers, displaced>>

\* The backoff is over: the next attempt of executeAction.
Retry(e) ==
  LET again == [e EXCEPT !.phase = "waiting", !.attempt = @ + 1]
  IN
  /\ e.phase = "backoff"
  /\ bridge' = [bridge EXCEPT !.executions = (@ \ {e}) \union {again},
                              !.activeAbort = {again}]
  /\ handlers' = Started(bridge')
  /\ UNCHANGED <<planned, preflightOk, gaveUp, displaced>>

\* Mutant: running cards are restored too.
AnyButQueued == {"running", "completed", "failed", "blocked"}
Restored == {"completed", "failed", "blocked"}

\* The page is reloaded: initialize, with loadPersistedState (which fails on a
\* stored hole), and the panel's first setContext.
Reload ==
  LET readable == \A i \in DOMAIN bridge.stored : bridge.stored[i] # Hole
      queue == IF readable THEN Filtered(bridge.stored, Restored) ELSE <<>>
  IN
  /\ bridge' = [queue |-> queue, executions |-> {}, run |-> NotRunning,
                activeAbort |-> {}, stored |-> queue]
  /\ handlers' = [c \in Cards |-> 0]
  /\ gaveUp' = {}
  /\ UNCHANGED <<planned, preflightOk, displaced>>

Next ==
  \/ \E n \in Cards : Plan(n)
  \/ clearQueue \/ setContext
  \/ \E c \in Cards : RunOne(c)
  \/ \E stop \in BOOLEAN : RunAll(stop)
  \/ RunNext \/ postTranscript
  \/ pauseQueueExecution \/ resumeQueueExecution \/ cancelQueueExecution
  \/ \E c \in Cards, outcome \in {"ok", "temporary", "refused"} : Answer(c, outcome)
  \/ \E e \in bridge.executions : TimeOut(e) \/ Retry(e)
  \/ Reload

\* Timers fire: of requests, of the backoff, of the poll of a paused run. The
\* handler, which may be waiting for the user's wallet, need not answer.
Fairness ==
  /\ WF_vars(RunNext)
  /\ \A c \in Cards, by \in {"run", "user"} :
       WF_vars(\E e \in bridge.executions :
                 e.card = c /\ e.by = by /\ (TimeOut(e) \/ Retry(e)))

Spec == Init /\ [][Next]_vars /\ Fairness

-----------------------------------------------------------------------------
Executions == [card : Cards, by : {"run", "user"}, index : Nat \ {0},
               attempt : 0 .. MaxRetries, phase : {"waiting", "backoff"}]

\* The shape of the bridge's state. The abort handle, when it is set, ends a
\* request that is still waiting: not a settled one, and never a backoff.
TypeOK ==
  /\ \A q \in {bridge.queue, bridge.stored} :
       \A i \in DOMAIN q : q[i] = Hole \/ q[i] \in [id : Cards, status : Statuses]
  /\ bridge.executions \subseteq Executions
  /\ bridge.run.phase \in {"idle", "next", "executing", "posting"}
  /\ (bridge.run.phase = "executing") <=> (\E e \in bridge.executions : e.by = "run")
  /\ bridge.activeAbort \subseteq {e \in bridge.executions : e.phase = "waiting"}
  /\ Cardinality(bridge.activeAbort) <= 1
  /\ planned \in 0 .. NumCards
  /\ preflightOk \in BOOLEAN
  /\ handlers \in [Cards -> Nat]
  /\ gaveUp \subseteq Cards

\* executeAction keeps an index into the queue across its awaits. As long as
\* the queue is not replaced (by a plan or by clearing) during an execution,
\* the index stays right: the cards marked running are those being executed,
\* each by one execution, at its index; no card is twice in the queue. Whatever
\* happens, the shared abort handle is that of a request that is waited for.
RunningIsExecuted ==
  /\ TypeOK
  /\ displaced \/
       /\ \A i, j \in DOMAIN bridge.queue :
            bridge.queue[i].id = bridge.queue[j].id => i = j
       /\ \A i \in DOMAIN bridge.queue :
            bridge.queue[i].status = "running"
              <=> Cardinality({e \in bridge.executions : e.card = bridge.queue[i].id}) = 1
       /\ \A e \in bridge.executions :
            e.index <= Len(bridge.queue) /\ bridge.queue[e.index].id = e.card

\* Two handlers are at work on one card (which may be a trade) only if a request
\* of the card was given up while its handler was at work.
OverlapOnlyAfterGivingUp ==
  \A c \in Cards : handlers[c] > 1 => c \in gaveUp \/ displaced

\* A run of all cards ends, whatever the handlers do, unless the user pauses it
\* again and again or leaves it paused.
RunEnds == <>[]~bridge.run.paused => (isRunning ~> ~isRunning)

=============================================================================
