---------------------------- MODULE MarketEscrow ----------------------------
(***************************************************************************)
(* What a prediction market promises about money, with everything else left *)
(* out: it is opened empty, takes deposits only while it is open, is closed *)
(* once and in one of three ways, and releases money only after it was      *)
(* resolved or cancelled. A halted market keeps what it holds.              *)
(***************************************************************************)
EXTENDS Integers

CONSTANT Markets
VARIABLES
  phase,   \* where each market is in its life
  held     \* the SUI in its two pools together

vars == <<phase, held>>

Closed == {"RESOLVED", "CANCELLED", "HALTED"}

Init ==
  /\ phase = [m \in Markets |-> "ABSENT"]
  /\ held = [m \in Markets |-> 0]

Open(m) ==
  /\ phase[m] = "ABSENT"
  /\ phase' = [phase EXCEPT ![m] = "OPEN"]
  /\ UNCHANGED held

Close(m) ==
  /\ phase[m] = "OPEN"
  /\ \E how \in Closed : phase' = [phase EXCEPT ![m] = how]
  /\ UNCHANGED held

\* held' is only constrained at m: any positive amount may be deposited.
Deposit(m) ==
  /\ phase[m] = "OPEN"
  /\ held'[m] > held[m]
  /\ held' = [held EXCEPT ![m] = held'[m]]
  /\ UNCHANGED phase

Release(m) ==
  /\ phase[m] \in {"RESOLVED", "CANCELLED"}
  /\ held'[m] \in 0 .. held[m]
  /\ held' = [held EXCEPT ![m] = held'[m]]
  /\ UNCHANGED phase

Next == \E m \in Markets : Open(m) \/ Close(m) \/ Deposit(m) \/ Release(m)

Spec == Init /\ [][Next]_vars

=============================================================================
