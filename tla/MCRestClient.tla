---------------------------- MODULE MCRestClient ----------------------------
(***************************************************************************)
(* Instances of RestClient for TLC, and what the repository says of it     *)
(* that the code does not keep.                                            *)
(***************************************************************************)
EXTENDS RestClient

CONSTANTS c1, c2, c3

MCCallers == {c1, c2, c3}
MCKind == c1 :> "public" @@ c2 :> "signed" @@ c3 :> "key"
MCCost == [p \in MCCallers |-> 1]

\* docs/design/2026-05-24-backtest-rest-backfilling-provider-v1.0.md:48 "`RestClient`
\* is safe to call concurrently from multiple worker threads as long as each call
\* is dispatched onto `ctx.ioc()` via `co_spawn`": every call returns, whatever
\* the size of the pool (main.cpp:836 makes it two).
EveryCallReturns == \A p \in Callers : call[p].at # "idle" ~> call[p].at = "idle"

\* docs/archives/design/2026-05-15-warmup-parallelization-v1.0.md:66 "No request
\* burst can exceed limiter budget": what the venue has counted and what acquire
\* has let through to it stay within the budget.
BurstFitsBudget ==
    used + MapThenSumSet(CostOf, {p \in Admitted : call[p].at = "session"}) <= Budget
=============================================================================
