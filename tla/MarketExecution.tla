-------------------------- MODULE MarketExecution --------------------------
(***************************************************************************)
(* What a caller of IExecutionPlanner::executeMarket relies on, whichever  *)
(* planner is behind it: while a call is open orders may be sent for it,   *)
(* in as many pieces as the planner likes, but never for more than the     *)
(* quantity the engine approved; and once the call has returned, nothing   *)
(* more is sent for it.                                                    *)
(***************************************************************************)
EXTENDS Naturals

CONSTANTS
    Requests,       \* the calls of executeMarket
    Quantity        \* the quantity approved for each, in lots

VARIABLES
    phase,          \* [Requests -> {"idle", "open", "returned"}]
    sent            \* [Requests -> lots handed to the order service so far]

marketVars == <<phase, sent>>

MarketInit ==
    /\ phase = [r \in Requests |-> "idle"]
    /\ sent = [r \in Requests |-> 0]

Begin(r) ==
    /\ phase[r] = "idle"
    /\ phase' = [phase EXCEPT ![r] = "open"]
    /\ UNCHANGED sent

Send(r) ==
    /\ phase[r] = "open"
    /\ \E q \in sent[r] + 1 .. Quantity : sent' = [sent EXCEPT ![r] = q]
    /\ UNCHANGED phase

\* A call that could not even be begun returns, too.
Return(r) ==
    /\ phase[r] # "returned"
    /\ phase' = [phase EXCEPT ![r] = "returned"]
    /\ UNCHANGED sent

MarketNext == \E r \in Requests : Begin(r) \/ Send(r) \/ Return(r)

MarketSpec == MarketInit /\ [][MarketNext]_marketVars
=============================================================================
