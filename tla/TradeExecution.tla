--------------------------- MODULE TradeExecution ---------------------------
(***************************************************************************)
(* frontend/src/components/TradeExecution.tsx: useTradeExecution, whose    *)
(* executeTrade checks a trade, has the wallet sign and execute it, tries  *)
(* again after some errors, and polls until the chain knows it; and        *)
(* signAndExecuteWalletTransaction of services/sui/wallet-standard.ts,     *)
(* which asks the wallet by one of its features after the other. A request *)
(* that timed out stays open in the wallet, whose user may approve it late.*)
(***************************************************************************)
EXTENDS Integers, FiniteSets

CONSTANTS
  Trades,            \* calls of executeTrade
  Orders,            \* idempotency keys: market, side, amount and price
  RetryAttempts,     \* TRADE_RETRY_ATTEMPTS
  MaxUnmounts,       \* bound: times the user leaves the page
  MaxGivenUp         \* bound: requests whose fate the code is not told

ASSUME TradeConstantsAssumption ==
  /\ IsFiniteSet(Trades)
  /\ {RetryAttempts, MaxUnmounts, MaxGivenUp} \subseteq Nat

VARIABLES
  features,          \* of the wallet: signAndExecuteTransaction (modern) and
                     \* signAndExecuteTransactionBlock (legacy)
  orderOf,           \* per trade, its key
  trade,             \* per trade: where its call is, the attempt and the number of
                     \* the request it waits for, the kind of lastExecutionError, the
                     \* stage of its TradeResult, and the request with the digest
  openRequests,      \* per trade, its requests the wallet has not decided on
  onchain,           \* per trade, its requests that were executed
  inFlight,          \* inFlightTradesRef
  positions,         \* per key, the trades counted
  mounted,           \* trades called from the component that is there now
  unmounts,          \* times it was unmounted
  givenUp            \* history: per trade, requests without an answer that says
                     \* what became of them

tradeVars == <<features, orderOf, trade, openRequests, onchain, inFlight, positions,
               mounted, unmounts, givenUp>>

NoRequest == <<0, 0>>

TradeInit ==
  /\ features \in SUBSET {"modern", "legacy"} \ {{}}
  /\ orderOf \in [Trades -> Orders]
  /\ trade = [t \in Trades |-> [phase |-> "new", attempt |-> 0, ask |-> 0,
                                error |-> "final", stage |-> "none", digest |-> NoRequest]]
  /\ openRequests = [t \in Trades |-> {}]
  /\ onchain = [t \in Trades |-> {}]
  /\ inFlight = {}
  /\ positions = [o \in Orders |-> 0]
  /\ mounted = {}
  /\ unmounts = 0
  /\ givenUp = [t \in Trades |-> {}]

-----------------------------------------------------------------------------
Request(t) == <<trade[t].attempt, trade[t].ask>>

\* The request is given up: no answer tells what becomes of it.
GiveUp(t) ==
  /\ Cardinality(UNION {{<<u, r>> : r \in givenUp[u]} : u \in Trades}) < MaxGivenUp
  /\ givenUp' = [givenUp EXCEPT ![t] = @ \union {Request(t)}]

\* The wallet is asked by its modern feature, by the library's helper (which uses
\* the modern feature or, without one, the legacy one), and by its legacy feature.
Asks == Cardinality(features) + 1

\* Mutant: the helper is called whether or not there is a result.
AskedAnyway(t, answer) == trade[t].ask < Asks
AskedAgain(t, answer) == answer = "error" /\ trade[t].ask < Asks

\* What a call does to the refs and state of the component it was made from; if
\* that one is gone, they are no longer those of the component there now.
KeyFreed(t) == IF t \in mounted THEN inFlight \ {orderOf[t]} ELSE inFlight

Ends(t, stage) ==
  /\ trade' = [trade EXCEPT ![t].phase = "ended", ![t].stage = stage]
  /\ inFlight' = KeyFreed(t)

Opened(t, attempt, ask) ==
  openRequests' = [openRequests EXCEPT ![t] = @ \union {<<attempt, ask>>}]

\* The attempt has failed: executeOnchainTransaction tries again, or throws.
AttemptFails(t, error) ==
  IF error = "retryable" /\ trade[t].attempt < RetryAttempts
    THEN /\ trade' = [trade EXCEPT ![t].phase = "backoff"]
         /\ UNCHANGED inFlight
    ELSE Ends(t, "failed")

-----------------------------------------------------------------------------
\* executeTrade up to its first await. A trade over the limit is refused before.
executeTrade(t) ==
  /\ trade[t].phase = "new"
  /\ IF orderOf[t] \in inFlight
       THEN /\ trade' = [trade EXCEPT ![t].phase = "ended", ![t].stage = "duplicate"]
            /\ UNCHANGED inFlight
       ELSE /\ trade' = [trade EXCEPT ![t].phase = "checking", ![t].stage = "approval"]
            /\ inFlight' = inFlight \union {orderOf[t]}
  /\ mounted' = mounted \union {t}
  /\ UNCHANGED <<features, orderOf, openRequests, onchain, positions, unmounts, givenUp>>

\* Wallet context, package, registry, balance, function: all there, or it throws.
ChecksEnd(t) ==
  /\ trade[t].phase = "checking"
  /\ \/ trade' = [trade EXCEPT ![t].phase = "preparing"] /\ UNCHANGED inFlight
     \/ Ends(t, "failed")
  /\ UNCHANGED <<features, orderOf, openRequests, onchain, positions, mounted, unmounts, givenUp>>

\* An attempt: the transaction is built and attested, and the wallet asked.
AskWallet(t) ==
  /\ trade[t].phase = "preparing"
  /\ trade' = [trade EXCEPT ![t].phase = "asking", ![t].ask = 1, ![t].error = "final"]
  /\ Opened(t, trade[t].attempt, 1)
  /\ UNCHANGED <<features, orderOf, onchain, inFlight, positions, mounted, unmounts, givenUp>>

\* No transaction for this target, a blocked wallet, a stale attestation; or the
\* wallet is on another network, which counts as an error to try again after.
PreparationFails(t) ==
  /\ trade[t].phase = "preparing"
  /\ \E error \in {"retryable", "final"} : AttemptFails(t, error)
  /\ UNCHANGED <<features, orderOf, openRequests, onchain, positions, mounted, unmounts, givenUp>>

Backoff(t) ==
  /\ trade[t].phase = "backoff"
  /\ trade' = [trade EXCEPT ![t].phase = "preparing", ![t].attempt = @ + 1]
  /\ UNCHANGED <<features, orderOf, openRequests, onchain, inFlight, positions, mounted,
                 unmounts, givenUp>>

\* What follows the end of a request: the next one, the end of the attempt (with
\* the last error, if a result without a digest ended it), or the trade is
\* confirmed. Whether the transaction succeeded on chain is not looked at.
Settle(t, answer, error, open) ==
  LET asked == [trade EXCEPT ![t].ask = @ + 1, ![t].error = error]
  IN
  IF AskedAgain(t, answer)
    THEN /\ trade' = asked
         /\ openRequests' = [openRequests EXCEPT ![t] =
                               open \union {<<trade[t].attempt, trade[t].ask + 1>>}]
         /\ UNCHANGED <<inFlight, positions>>
    ELSE /\ openRequests' = [openRequests EXCEPT ![t] = open]
         /\ IF answer = "digest"
              THEN /\ trade' = [trade EXCEPT ![t].phase = "polling", ![t].stage = "confirmed",
                                             ![t].digest = Request(t)]
                   /\ positions' = IF t \in mounted THEN [positions EXCEPT ![orderOf[t]] = @ + 1]
                                                    ELSE positions
                   /\ UNCHANGED inFlight
              ELSE /\ AttemptFails(t, IF answer = "error" THEN error ELSE trade[t].error)
                   /\ UNCHANGED positions

Answers ==
  {<<"digest", "final">>, <<"nodigest", "final">>, <<"error", "final">>, <<"error", "retryable">>}

\* The wallet answers while it is waited for: with a digest, with a result that
\* has none, or with an error, which may come after the execution.
WalletAnswers(t, executed, a) ==
  LET r == Request(t)
      clear == a[1] = "digest" \/ ~executed
  IN
  /\ trade[t].phase = "asking"
  /\ a[1] = "digest" => executed
  /\ onchain' = IF executed THEN [onchain EXCEPT ![t] = @ \union {r}] ELSE onchain
  /\ IF clear THEN UNCHANGED givenUp ELSE GiveUp(t)
  /\ Settle(t, a[1], a[2], openRequests[t] \ {r})
  /\ UNCHANGED <<features, orderOf, mounted, unmounts>>

\* SIGN_TIMEOUT_MS is over. isRetryableError does not know "timed out".
RequestTimesOut(t) ==
  /\ trade[t].phase = "asking"
  /\ GiveUp(t)
  /\ Settle(t, "error", "final", openRequests[t])
  /\ UNCHANGED <<features, orderOf, onchain, mounted, unmounts>>

\* The wallet's user decides on a request that nobody waits for any more.
LateDecision(t, r, approved) ==
  /\ r \in openRequests[t] \intersect givenUp[t]
  /\ openRequests' = [openRequests EXCEPT ![t] = @ \ {r}]
  /\ onchain' = IF approved THEN [onchain EXCEPT ![t] = @ \union {r}] ELSE onchain
  /\ UNCHANGED <<features, orderOf, trade, inFlight, positions, mounted, unmounts, givenUp>>

\* The chain knows the transaction, succeeded or not, or four polls were in vain.
waitForFinalization(t) ==
  /\ trade[t].phase = "polling"
  /\ \E stage \in {"confirmed", "finalized"} : Ends(t, stage)
  /\ UNCHANGED <<features, orderOf, openRequests, onchain, positions, mounted, unmounts, givenUp>>

\* The user leaves the page and comes back: the hook starts afresh, while calls
\* that were made go on.
Unmount ==
  /\ unmounts < MaxUnmounts /\ mounted # {}
  /\ unmounts' = unmounts + 1
  /\ mounted' = {} /\ inFlight' = {}
  /\ positions' = [o \in Orders |-> 0]
  /\ UNCHANGED <<features, orderOf, trade, openRequests, onchain, givenUp>>

TradeNext ==
  \/ \E t \in Trades :
       \/ executeTrade(t) \/ ChecksEnd(t) \/ AskWallet(t) \/ PreparationFails(t) \/ Backoff(t)
       \/ \E executed \in BOOLEAN, a \in Answers : WalletAnswers(t, executed, a)
       \/ RequestTimesOut(t)
       \/ \E r \in openRequests[t], approved \in BOOLEAN : LateDecision(t, r, approved)
       \/ waitForFinalization(t)
  \/ Unmount

TradeSpec == TradeInit /\ [][TradeNext]_tradeVars

-----------------------------------------------------------------------------
TradeTypeOK ==
  /\ trade \in [Trades -> [phase : {"new", "checking", "preparing", "asking", "backoff",
                                    "polling", "ended"},
                           attempt : 0 .. RetryAttempts, ask : 0 .. Asks,
                           error : {"retryable", "final"},
                           stage : {"none", "duplicate", "approval", "confirmed",
                                    "finalized", "failed"},
                           digest : (0 .. RetryAttempts) \X (0 .. Asks)]]
  /\ \A t \in Trades : /\ onchain[t] \subseteq (0 .. RetryAttempts) \X (1 .. Asks)
                       /\ openRequests[t] \union givenUp[t] \subseteq
                            (0 .. RetryAttempts) \X (1 .. Asks)
                       /\ openRequests[t] \intersect onchain[t] = {}
  /\ inFlight \subseteq Orders
  /\ mounted \subseteq Trades

\* What the page shows of trades and what they did on chain agree but for requests
\* whose fate it was never told: a trade is shown confirmed if and only if the
\* transaction it names was executed, any other transaction of it (there can be
\* one per request) comes from a request that timed out or was answered without a
\* digest; the positions count the confirmed trades, each once; and two calls of
\* one component never have the same order under way.
TradesAccounted ==
  /\ TradeTypeOK
  /\ \A t \in Trades :
       /\ trade[t].stage \in {"confirmed", "finalized"} <=> trade[t].digest \in onchain[t]
       /\ onchain[t] \ {trade[t].digest} \subseteq givenUp[t]
  /\ \A o \in Orders :
       positions[o] = Cardinality({t \in mounted : /\ orderOf[t] = o
                                                   /\ trade[t].stage \in {"confirmed", "finalized"}})
  /\ \A t, u \in mounted :
       t # u /\ orderOf[t] = orderOf[u] => "ended" \in {trade[t].phase, trade[u].phase}

\* README.md:206, "idempotency guard, bounded retry": a trade is executed at most
\* once, however often it is tried.
TradedOnce == \A t \in Trades : Cardinality(onchain[t]) <= 1

=============================================================================
