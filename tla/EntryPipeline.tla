--------------------------- MODULE EntryPipeline ---------------------------
(***************************************************************************)
(* How a signal becomes an order: the work queue of a scan cycle, the      *)
(* Gemini filter with its budget and its cycle gate, the gates before and  *)
(* after it, and the execution of the market order (src/src/engine/        *)
(* signal_engine.cpp).  The cycle's coroutine takes one item after the     *)
(* other, so there is one evaluation and one open call at a time; the      *)
(* filter's process, the watchers, the strategy runs and the kline cache   *)
(* go on by themselves.                                                    *)
(*                                                                         *)
(* Item i of the run is call i of executeMarket, if it comes to one.       *)
(***************************************************************************)
EXTENDS ExecutionPlans, GeminiFilter

CONSTANTS
    Setups,         \* how the program may be configured: the filter, the planner, and how
                    \* many items are looked at (a bound)
    Arbitrated,     \* items of qlib_strategy_signal strategies, opened after the queue
    Budget,         \* maxEvaluationsPerScanCycle
    BlockOnError    \* the policy for an evaluation that failed

ASSUME PipelineAssumption ==
    /\ Setups \subseteq [filter : BOOLEAN, planner : Planners, items : 0..MaxRequests]
    /\ Arbitrated \subseteq Requests
    /\ Budget \in Nat
    /\ BlockOnError \in BOOLEAN

VARIABLES
    setup,
    opener,     \* the item the cycle is at, and where it stands with it
    gate        \* m_geminiEvaluationsThisCycle and m_geminiCycleGate.closed

pipelineVars == <<plansVars, filterVars, setup, opener, gate>>

OpenGate == [spent |-> 0, closed |-> FALSE]

PipelineInit ==
    /\ setup \in Setups
    /\ PlansInit /\ planner = setup.planner
    /\ FilterInit
    /\ opener = [item |-> 1, at |-> "next"]
    /\ gate = OpenGate

Item == opener.item
HasItem == opener.at = "next" /\ Item <= setup.items
Opener(at) == opener' = [opener EXCEPT !.at = at]
NextItem == opener' = [item |-> Item + 1, at |-> "next"]

----------------------------------------------------------------------------
(* The items of a cycle.                                                   *)

\* runScanCycle begins again.
NewCycle ==
    /\ HasItem /\ gate # OpenGate
    /\ gate' = OpenGate
    /\ UNCHANGED <<plansVars, filterVars, setup, opener>>

\* shouldSkipForClosedGeminiGate; nobody asks it about the candidates of the arbiter.
Skipped(i) == setup.filter /\ gate.closed /\ i \notin Arbitrated

\* The item is skipped, gives no signal, or an earlier check of the preflight stops it.
PassOver ==
    /\ HasItem
    /\ NextItem
    /\ UNCHANGED <<plansVars, filterVars, setup, gate>>

\* The mistake of one evaluation too many.
WithinBudgetAtMost == gate.spent <= Budget

WithinBudget == gate.spent < Budget

\* The preflight reaches the filter and its budget is spent: the gate closes.
OverBudget ==
    /\ HasItem /\ ~Skipped(Item) /\ setup.filter
    /\ ~WithinBudget
    /\ gate' = [gate EXCEPT !.closed = TRUE]
    /\ NextItem
    /\ UNCHANGED <<plansVars, filterVars, setup>>

Evaluate ==
    /\ HasItem /\ ~Skipped(Item) /\ setup.filter
    /\ WithinBudget
    /\ gate' = [gate EXCEPT !.spent = @ + 1]
    /\ LookUp
    /\ Opener("filter")
    /\ UNCHANGED <<plansVars, setup>>

NoFilter ==
    /\ HasItem /\ ~setup.filter
    /\ Opener("gates")
    /\ UNCHANGED <<plansVars, filterVars, setup, gate>>

IsError == evaluation.result.says \in {"quota", "error"}

Blocks == evaluation.result.says = "Block" \/ (IsError /\ BlockOnError)

TakeAnswer ==
    /\ opener.at = "filter" /\ evaluation.at = "answered"
    /\ gate' = [gate EXCEPT !.closed = @ \/ evaluation.result.says = "quota"]
    /\ IF Blocks
       THEN NextItem /\ evaluation' = Idle
       ELSE Opener("gates") /\ UNCHANGED evaluation
    /\ UNCHANGED <<plansVars, quotaVars, chart, results, sentiment, worker, mishaps, setup>>

\* The backtest gate, the second preflight, the reservation of the symbol, the leverage.
Stopped ==
    /\ opener.at = "gates"
    /\ NextItem /\ evaluation' = Idle
    /\ UNCHANGED <<plansVars, quotaVars, chart, results, sentiment, worker, mishaps, setup, gate>>

Open ==
    /\ opener.at = "gates"
    /\ Begins(Item)
    /\ Opener("order")
    /\ UNCHANGED <<filterVars, setup, gate>>

Opened ==
    /\ opener.at = "order" /\ call[Item].at = "returned"
    /\ NextItem /\ evaluation' = Idle
    /\ UNCHANGED <<plansVars, quotaVars, chart, results, sentiment, worker, mishaps, setup, gate>>

----------------------------------------------------------------------------

OpenerStep == PassOver \/ OverBudget \/ Evaluate \/ NoFilter \/ TakeAnswer \/ Stopped \/ Open \/ Opened

FilterStep == EvaluationStep /\ UNCHANGED <<plansVars, setup, opener, gate>>

MarketStep == \E r \in Requests : CallStep(r) /\ UNCHANGED <<filterVars, setup, opener, gate>>

\* What moves by itself matters only where somebody looks at it.
World ==
    \/ setup.filter /\ Item <= setup.items /\ Meanwhile /\ UNCHANGED <<plansVars, setup, opener, gate>>
    \/ setup.planner # "native" /\ OthersStep /\ UNCHANGED <<filterVars, setup, opener, gate>>

PipelineNext == OpenerStep \/ NewCycle \/ FilterStep \/ MarketStep \/ World

\* The subprocess timeout, the planner's deadline and the answers of the venue come; nothing is
\* asked of the analyzer's threads, the watchers or the strategy runs.
Progress ==
    \/ OpenerStep \/ MarketStep
    \/ (Start \/ Kill) /\ UNCHANGED <<plansVars, setup, opener, gate>>
    \/ (\E r \in Requests : DeadlinePasses(r)) /\ UNCHANGED <<filterVars, setup, opener, gate>>

PipelineSpec == PipelineInit /\ [][PipelineNext]_pipelineVars /\ WF_pipelineVars(Progress)

----------------------------------------------------------------------------
(* What holds of it.                                                       *)

PipelineTypeOK ==
    /\ PlansTypeOK /\ QuotaTypeOK
    /\ chart \in Charts
    /\ results \in [Charts -> Results]
    /\ sentiment.age \in {"none", "fresh", "stale"}
    /\ evaluation.at \in {"idle", "start", "running", "answered"}
    /\ evaluation.cached \in BOOLEAN /\ evaluation.result \in Results
    /\ setup \in Setups /\ planner = setup.planner
    /\ opener.item \in 1..MaxRequests + 1
    /\ opener.at \in {"next", "filter", "gates", "order"}
    /\ gate.spent \in 0..Budget /\ gate.closed \in BOOLEAN

\* With the filter on and errors blocked, an order is only ever sent for the item whose
\* evaluation, fresh or cached, said Allow, and that was said from both threads' own scores.
OrdersAreAllowed ==
    [][setup.filter /\ BlockOnError =>
        \A r \in Requests : sent'[r] # sent[r] =>
            /\ r = Item /\ evaluation.result.says = "Allow"
            /\ evaluation.result.scored = Threads]_pipelineVars

\* Every item is dealt with, although Gemini, the analyzer's locks or the watchers may never
\* answer.
ItemsAreDealtWith == <>(opener.at = "next" /\ Item = setup.items + 1)

\* An Allow that is served from the result cache was given for the chart it is served for: "A
\* new chart state should produce a different key" (docs/archives/design/2026-05-16-gemini-
\* filter-quota-cache-v1.0.md:229).
ServedForItsChart ==
    [][evaluation.at = "idle" /\ evaluation'.at = "answered" /\ evaluation'.result.says = "Allow"
        => evaluation'.result.judged = chart]_pipelineVars
=============================================================================
