----------------------------- MODULE MCRequests -----------------------------
(***************************************************************************)
(* The instance of two parts that promise to let a request take effect     *)
(* once: the aggregator's buffer of updates with its replay cache, and the *)
(* front end's execution of trades with its idempotency keys and retries.  *)
(* They run on different machines and share nothing, so TLC explores each  *)
(* by itself; a behaviour is one of the part it starts with.               *)
(***************************************************************************)
EXTENDS MCUpdateBuffer, TradeExecution

CONSTANTS t1, t2, o1, o2

VARIABLE part

parts == <<part, vars, tradeVars>>

\* What a trade may start with is open only if trades are explored.
RequestsInit ==
  /\ part \in {"updates", "trades"}
  /\ Init /\ TradeInit
  /\ part = "updates" => features = {"modern"} /\ orderOf = [t \in Trades |-> o1]

RequestsNext ==
  /\ UNCHANGED part
  /\ \/ part = "updates" /\ Next /\ UNCHANGED tradeVars
     \/ part = "trades" /\ TradeNext /\ UNCHANGED vars

RequestsSpec == RequestsInit /\ [][RequestsNext]_parts

\* Handlers and calls of executeTrade are alike. So are updates, but as trades have
\* none their permutations would cost more than they save.
RequestsSymmetry == Permutations(Handlers) \cup Permutations(Trades)

=============================================================================
