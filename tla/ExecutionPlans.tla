-------------------------- MODULE ExecutionPlans --------------------------
(***************************************************************************)
(* How an approved market order is carried out in slices: the planner in   *)
(* the engine (src/src/engine/qlib_execution_planner.cpp), the watchers    *)
(* that plan the requests (src/tools/qlib_bridge/run_execution_plan_       *)
(* watcher.py), the strategy runs whose decisions can revoke a plan        *)
(* (run_strategy.py), and the rows of the SQLite database they share.      *)
(*                                                                         *)
(* The planner writes a request, polls until its deadline for a plan, and  *)
(* sends the plan's slices one after the other; each of its visits to the  *)
(* database is a separate hop to the database's thread, and others may     *)
(* write in between.  An UPDATE of the planner that fails is only logged:  *)
(* the call goes on, the row stays as it was.                              *)
(***************************************************************************)
EXTENDS Naturals, Sequences

CONSTANTS
    MaxRequests,    \* the calls of executeMarket, in their order
    Planners,       \* how the engine may be set up, see planner
    Watchers,       \* watcher processes on the database
    Quantity,       \* lots the engine approved for a call
    SliceCounts,    \* slice counts a request's metadata or the watcher's default may ask for
    MaxSlices,      \* the longest plan there is
    Publishes,      \* does somebody make a watcher's plan 'succeeded'?  Nothing in the
                    \* repository does; the planner's tests store such plans themselves
    OwnPlans,       \* plans, as sequences of slices, that such a writer may store
    MaxLost,        \* bound: UPDATEs of one call that fail
    MaxFaults,      \* bound: other failures (opening, planning, placing, asking)
    MaxRuns         \* bound: strategy runs

Requests == 1..MaxRequests
SliceIndex == 1..MaxSlices

\* A slice is good, of the other side, or its quantity does not parse.
Slice == [kind : {"good", "other_side", "unreadable"}, quantity : 0..Quantity]

ASSUME PlansAssumption ==
    /\ MaxRequests \in Nat /\ MaxSlices \in Nat
    /\ Quantity \in Nat \ {0}
    /\ Planners \subseteq {"native", "sliced", "sliced_alone"}
    /\ SliceCounts \subseteq 1..MaxSlices
    /\ Publishes \in BOOLEAN
    /\ OwnPlans \subseteq Seq(Slice) \ {<<>>}
    /\ \A p \in OwnPlans : Len(p) <= MaxSlices
    /\ MaxLost \in Nat /\ MaxFaults \in Nat /\ MaxRuns \in Nat

VARIABLES
    planner,    \* "sliced": QlibExecutionPlanner with a native fallback, "sliced_alone":
                \* without, "native": none, the orders go to the order service
    request,    \* qlib_execution_requests.status, by request
    late,       \* requests whose deadline_ms has passed
    plan,       \* qlib_execution_plans.status, by request
    expired,    \* requests whose plan is past its expires_at_ms
    slices,     \* the slices of the plan, in the order of slice_index
    mark,       \* qlib_execution_slices.status, by slice
    failing,    \* the request a watcher failed on and has yet to mark, or 0
    run,        \* the latest strategy run
    decision    \* the latest decision of a succeeded run, and how many runs there were

VARIABLES
    call,       \* where each call of executeMarket stands, and its locals
    lost,       \* UPDATEs of the call that failed
    sent,       \* lots handed to the order service for the call
    placed,     \* slices handed to it
    filled,     \* lots the venue filled for the call
    silent,     \* calls one of whose orders was accepted without its fill
    faults

rowVars == <<request, plan, slices, mark>>
clockVars == <<late, expired>>
strategyVars == <<run, decision>>
orderVars == <<sent, placed, filled, silent>>
plansVars == <<planner, rowVars, clockVars, strategyVars, failing, call, lost, orderVars, faults>>

NewCall == [at |-> "idle", pos |-> 0, total |-> 0, reported |-> 0, answer |-> "none"]

PlansInit ==
    /\ planner \in Planners
    /\ request = [r \in Requests |-> "none"]
    /\ plan = [r \in Requests |-> "none"]
    /\ slices = [r \in Requests |-> <<>>]
    /\ mark = [r \in Requests |-> [i \in SliceIndex |-> "pending"]]
    /\ late = {} /\ expired = {}
    /\ failing = [w \in Watchers |-> 0]
    /\ run = "none"
    /\ decision = [says |-> "none", runs |-> 0]
    /\ call = [r \in Requests |-> NewCall]
    /\ lost = [r \in Requests |-> 0]
    /\ sent = [r \in Requests |-> 0]
    /\ placed = [r \in Requests |-> {}]
    /\ filled = [r \in Requests |-> 0]
    /\ silent = {}
    /\ faults = 0

Fault == faults < MaxFaults /\ faults' = faults + 1

CallAs(r, locals) == call' = [call EXCEPT ![r] = locals]
GoTo(r, at) == CallAs(r, [call[r] EXCEPT !.at = at])
Return(r, answer) == CallAs(r, [call[r] EXCEPT !.at = "returned", !.answer = answer])

\* The slice the call is at.
Current(r) == slices[r][call[r].pos]

----------------------------------------------------------------------------
(* The planner's UPDATEs.                                                  *)

\* The mistake of revoking what has already been handed to the order service.
RevokedAll(r, i) == i \in DOMAIN slices[r] /\ mark[r][i] # "filled"

\* revokePendingSlices: WHERE plan_id = ? AND status = 'pending'.
Revocable(r, i) == i \in DOMAIN slices[r] /\ mark[r][i] = "pending"

\* markSlice for the current slice, revokePendingSlices and markRequest, each left out
\* where its argument says so ("" or FALSE), and each with the chance to fail.
Write(r, slice, revokes, status) ==
    \E keepsSlice, keepsRest, keepsStatus \in BOOLEAN :
        /\ slice = "" => keepsSlice
        /\ ~revokes => keepsRest
        /\ status = "" => keepsStatus
        /\ lost' = [lost EXCEPT ![r] = @ + (IF keepsSlice THEN 0 ELSE 1)
                        + (IF keepsRest THEN 0 ELSE 1) + (IF keepsStatus THEN 0 ELSE 1)]
        /\ lost'[r] <= MaxLost
        /\ mark' = [mark EXCEPT ![r] = [i \in SliceIndex |->
                IF slice # "" /\ keepsSlice /\ i = call[r].pos THEN slice
                ELSE IF revokes /\ keepsRest /\ Revocable(r, i) THEN "revoked"
                ELSE mark[r][i]]]
        /\ request' = IF status # "" /\ keepsStatus
                      THEN [request EXCEPT ![r] = status] ELSE request
    /\ UNCHANGED <<plan, slices>>

----------------------------------------------------------------------------
(* A call of executeMarket, up to a plan or the deadline.                  *)

\* The engine has no planner: m_orders.market.
ExecuteNatively(r) ==
    /\ planner = "native" /\ call[r].at = "idle"
    /\ GoTo(r, "native")
    /\ UNCHANGED <<planner, rowVars, clockVars, strategyVars, failing, lost, orderVars, faults>>

\* The database is opened and the request inserted.
Execute(r) ==
    /\ planner # "native" /\ call[r].at = "idle"
    /\ \A q \in Requests : q < r => call[q].at # "idle"
    /\ GoTo(r, "poll")
    /\ request' = [request EXCEPT ![r] = "pending"]
    /\ UNCHANGED <<planner, plan, slices, mark, clockVars, strategyVars, failing, lost,
                   orderVars, faults>>

\* It could not be opened (-92000), or the transaction failed (-92003).
CannotExecute(r) ==
    /\ planner # "native" /\ call[r].at = "idle" /\ Fault
    /\ Return(r, "error")
    /\ UNCHANGED <<planner, rowVars, clockVars, strategyVars, failing, lost, orderVars>>

\* fetchReadyPlan finds the plan; the last look at the database may have been queued before
\* the deadline.
PlanReady(r) == plan[r] = "succeeded" /\ r \notin expired

Fetch(r) ==
    /\ call[r].at = "poll" /\ PlanReady(r)
    /\ IF planner = "sliced"
       THEN /\ CallAs(r, [call[r] EXCEPT !.at = "check", !.pos = 1])
            /\ UNCHANGED <<rowVars, lost>>
       ELSE Return(r, "error") /\ Write(r, "", FALSE, "failed")
    /\ UNCHANGED <<planner, clockVars, strategyVars, failing, orderVars, faults>>

\* The loop ends without a plan.
Expire(r) ==
    /\ call[r].at = "poll" /\ r \in late
    /\ Write(r, "", FALSE, "expired")
    /\ IF planner = "sliced" THEN GoTo(r, "native") ELSE Return(r, "error")
    /\ UNCHANGED <<planner, clockVars, strategyVars, failing, orderVars, faults>>

\* m_nativeFallback->executeMarket for the whole order.
PlaceWhole(r) ==
    /\ call[r].at = "native"
    /\ sent' = [sent EXCEPT ![r] = @ + Quantity]
    /\ GoTo(r, "native_sent")
    /\ UNCHANGED <<planner, rowVars, clockVars, strategyVars, failing, lost, placed, filled,
                   silent, faults>>

----------------------------------------------------------------------------
(* The slices.                                                             *)

\* The mistake of holding each slice by itself against the approved quantity.
ExceedsUnsummed(r) == Current(r).quantity > Quantity

Exceeds(r) == call[r].total + Current(r).quantity > Quantity

\* A side that does not match, a quantity that does not parse: the rest stays pending.
RejectSlice(r) ==
    /\ call[r].at = "check" /\ Current(r).kind # "good"
    /\ Write(r, "failed", FALSE, "failed")
    /\ Return(r, "error")
    /\ UNCHANGED <<planner, clockVars, strategyVars, failing, orderVars, faults>>

RejectExcess(r) ==
    /\ call[r].at = "check" /\ Current(r).kind = "good" /\ Exceeds(r)
    /\ Write(r, "failed", TRUE, "failed")
    /\ Return(r, "error")
    /\ UNCHANGED <<planner, clockVars, strategyVars, failing, orderVars, faults>>

\* The slice is within the order; its due_at_ms is waited for.
AwaitDue(r) ==
    /\ call[r].at = "check" /\ Current(r).kind = "good" /\ ~Exceeds(r)
    /\ CallAs(r, [call[r] EXCEPT !.at = "decide", !.total = @ + Current(r).quantity])
    /\ UNCHANGED <<planner, rowVars, clockVars, strategyVars, failing, lost, orderVars, faults>>

\* latestDecisionContradicts; a query that fails contradicts, too.
AskDecision(r) ==
    /\ call[r].at = "decide"
    /\ \/ /\ decision.says = "against" /\ GoTo(r, "revoke") /\ UNCHANGED faults
       \/ /\ Fault /\ GoTo(r, "revoke")
       \/ /\ decision.says # "against" /\ GoTo(r, "submit") /\ UNCHANGED faults
    /\ UNCHANGED <<planner, rowVars, clockVars, strategyVars, failing, lost, orderVars>>

Revoke(r) ==
    /\ call[r].at = "revoke"
    /\ Write(r, "", TRUE, "failed")
    /\ Return(r, "error")
    /\ UNCHANGED <<planner, clockVars, strategyVars, failing, orderVars, faults>>

MarkSubmitted(r) ==
    /\ call[r].at = "submit"
    /\ Write(r, "submitted", FALSE, "")
    /\ GoTo(r, "place")
    /\ UNCHANGED <<planner, clockVars, strategyVars, failing, orderVars, faults>>

PlaceSlice(r) ==
    /\ call[r].at = "place"
    /\ sent' = [sent EXCEPT ![r] = @ + Current(r).quantity]
    /\ placed' = [placed EXCEPT ![r] = @ \cup {call[r].pos}]
    /\ GoTo(r, "placed")
    /\ UNCHANGED <<planner, rowVars, clockVars, strategyVars, failing, lost, filled, silent,
                   faults>>

\* What is on its way to the venue.
InFlight(r) == IF call[r].at = "placed" THEN Current(r).quantity ELSE Quantity

\* The venue fills it.  Its answer tells the fill, or is a bare acknowledgement.
Accepted(r) ==
    /\ call[r].at \in {"placed", "native_sent"}
    /\ filled' = [filled EXCEPT ![r] = @ + InFlight(r)]
    /\ \E told \in BOOLEAN :
        /\ silent' = IF told THEN silent ELSE silent \cup {r}
        /\ CallAs(r, [call[r] EXCEPT
                !.at = IF @ = "placed" THEN "record" ELSE "returned",
                !.answer = IF call[r].at = "placed" THEN @ ELSE "accepted",
                !.reported = IF told THEN @ + InFlight(r) ELSE @])
    /\ UNCHANGED <<planner, rowVars, clockVars, strategyVars, failing, lost, sent, placed, faults>>

\* The order service fails or the venue refuses; an order in doubt may have been filled.
NotAccepted(r) ==
    /\ call[r].at \in {"placed", "native_sent"} /\ Fault
    /\ \E q \in {0, InFlight(r)} : filled' = [filled EXCEPT ![r] = @ + q]
    /\ IF call[r].at = "placed" THEN GoTo(r, "fail") ELSE Return(r, "error")
    /\ UNCHANGED <<planner, rowVars, clockVars, strategyVars, failing, lost, sent, placed, silent>>

\* The mistake of taking the next slice although one has failed.
FailSliceAndGoOn(r) ==
    /\ call[r].at = "fail"
    /\ Write(r, "failed", FALSE, "")
    /\ IF call[r].pos < Len(slices[r])
       THEN CallAs(r, [call[r] EXCEPT !.at = "check", !.pos = @ + 1])
       ELSE GoTo(r, "finish")
    /\ UNCHANGED <<planner, clockVars, strategyVars, failing, orderVars, faults>>

FailSlice(r) ==
    /\ call[r].at = "fail"
    /\ Write(r, "failed", TRUE, "failed")
    /\ Return(r, "error")
    /\ UNCHANGED <<planner, clockVars, strategyVars, failing, orderVars, faults>>

RecordFilled(r) ==
    /\ call[r].at = "record"
    /\ Write(r, "filled", FALSE, "")
    /\ IF call[r].pos < Len(slices[r])
       THEN CallAs(r, [call[r] EXCEPT !.at = "check", !.pos = @ + 1])
       ELSE GoTo(r, "finish")
    /\ UNCHANGED <<planner, clockVars, strategyVars, failing, orderVars, faults>>

Finish(r) ==
    /\ call[r].at = "finish"
    /\ Write(r, "", FALSE, "succeeded")
    /\ Return(r, "accepted")
    /\ UNCHANGED <<planner, clockVars, strategyVars, failing, orderVars, faults>>

----------------------------------------------------------------------------
(* The watchers: each transaction is BEGIN IMMEDIATE ... COMMIT.           *)

\* split_quantity: equal parts, rounded down, the last takes the rest; empty parts go.
SplitQuantity(n) ==
    IF Quantity \div n = 0 THEN <<Quantity>>
    ELSE [i \in 1..n |-> IF i < n THEN Quantity \div n
                         ELSE Quantity - (n - 1) * (Quantity \div n)]

PlanOf(n) ==
    [i \in DOMAIN SplitQuantity(n) |-> [kind |-> "good", quantity |-> SplitQuantity(n)[i]]]

\* fetch_pending_request: the oldest pending request without a plan.
Selects(r) ==
    /\ request[r] = "pending" /\ plan[r] = "none"
    /\ \A q \in Requests : request[q] = "pending" /\ plan[q] = "none" => r <= q

\* process_once, create_twap_plan.
WatcherPlans(w) ==
    /\ failing[w] = 0
    /\ \E r \in Requests :
        /\ Selects(r)
        /\ IF r \in late
           THEN request' = [request EXCEPT ![r] = "expired"] /\ UNCHANGED <<plan, slices>>
           ELSE /\ \E n \in SliceCounts : slices' = [slices EXCEPT ![r] = PlanOf(n)]
                /\ plan' = [plan EXCEPT ![r] = "running"]
                /\ UNCHANGED request
    /\ UNCHANGED <<planner, mark, clockVars, strategyVars, failing, call, lost, orderVars, faults>>

\* The transaction fails after the request was selected, and is rolled back.
WatcherFails(w) ==
    /\ failing[w] = 0 /\ Fault
    /\ \E r \in Requests : Selects(r) /\ failing' = [failing EXCEPT ![w] = r]
    /\ UNCHANGED <<planner, rowVars, clockVars, strategyVars, call, lost, orderVars>>

\* The mistake of an UPDATE without AND status = 'pending'.
StillPendingUnchecked(r) == TRUE

StillPending(r) == request[r] = "pending"

\* In a transaction of its own the request is marked; this may fail, too.
WatcherMarksFailed(w) ==
    /\ failing[w] # 0
    /\ failing' = [failing EXCEPT ![w] = 0]
    /\ \E keeps \in BOOLEAN :
        request' = IF keeps /\ StillPending(failing[w])
                   THEN [request EXCEPT ![failing[w]] = "failed"] ELSE request
    /\ UNCHANGED <<planner, plan, slices, mark, clockVars, strategyVars, call, lost, orderVars,
                   faults>>

\* Whoever makes a watcher's plan ready to execute.
PublishPlan(r) ==
    /\ Publishes /\ plan[r] = "running"
    /\ plan' = [plan EXCEPT ![r] = "succeeded"]
    /\ UNCHANGED <<planner, request, slices, mark, clockVars, strategyVars, failing, call, lost,
                   orderVars, faults>>

\* Whoever stores a plan of his own.
StoreOwnPlan(r) ==
    /\ request[r] = "pending" /\ plan[r] = "none"
    /\ \E p \in OwnPlans : slices' = [slices EXCEPT ![r] = p]
    /\ plan' = [plan EXCEPT ![r] = "succeeded"]
    /\ UNCHANGED <<planner, request, mark, clockVars, strategyVars, failing, call, lost, orderVars,
                   faults>>

----------------------------------------------------------------------------
(* The strategy runs, and time.                                            *)

StartRun ==
    /\ run # "running" /\ decision.runs < MaxRuns
    /\ run' = "running"
    /\ decision' = [decision EXCEPT !.runs = @ + 1]
    /\ UNCHANGED <<planner, rowVars, clockVars, failing, call, lost, orderVars, faults>>

\* Targets, decisions and the run's success are one transaction.
CompleteRun ==
    /\ run = "running"
    /\ run' = "succeeded"
    /\ \E says \in {"for", "against"} : decision' = [decision EXCEPT !.says = says]
    /\ UNCHANGED <<planner, rowVars, clockVars, failing, call, lost, orderVars, faults>>

FailRun ==
    /\ run = "running" /\ Fault
    /\ run' = "failed"
    /\ UNCHANGED <<planner, rowVars, clockVars, decision, failing, call, lost, orderVars>>

\* Nobody looks at a deadline once the request is no longer pending,
DeadlinePasses(r) ==
    /\ call[r].at = "poll" \/ request[r] = "pending"
    /\ r \notin late /\ late' = late \cup {r}
    /\ UNCHANGED <<planner, rowVars, expired, strategyVars, failing, call, lost, orderVars, faults>>

\* nor at a plan's age once it has been fetched.
PlanExpires(r) ==
    /\ call[r].at = "poll" /\ plan[r] # "none"
    /\ r \notin expired /\ expired' = expired \cup {r}
    /\ UNCHANGED <<planner, rowVars, late, strategyVars, failing, call, lost, orderVars, faults>>

----------------------------------------------------------------------------

CallStep(r) ==
    \/ PlaceWhole(r) \/ Fetch(r) \/ Expire(r)
    \/ RejectSlice(r) \/ RejectExcess(r) \/ AwaitDue(r) \/ AskDecision(r) \/ Revoke(r)
    \/ MarkSubmitted(r) \/ PlaceSlice(r) \/ Accepted(r) \/ NotAccepted(r)
    \/ FailSlice(r) \/ RecordFilled(r) \/ Finish(r)

OthersStep ==
    \/ \E w \in Watchers : WatcherPlans(w) \/ WatcherFails(w) \/ WatcherMarksFailed(w)
    \/ \E r \in Requests : PublishPlan(r) \/ StoreOwnPlan(r)
    \/ StartRun \/ CompleteRun \/ FailRun
    \/ \E r \in Requests : DeadlinePasses(r) \/ PlanExpires(r)

Begins(r) == ExecuteNatively(r) \/ Execute(r) \/ CannotExecute(r)

PlansNext ==
    \/ \E r \in Requests : Begins(r) \/ CallStep(r)
    \/ OthersStep

PlansSpec == PlansInit /\ [][PlansNext]_plansVars

----------------------------------------------------------------------------
(* What holds of it.                                                       *)

RowStates == {"none", "pending", "succeeded", "failed", "expired"}
SliceStates == {"pending", "submitted", "filled", "failed", "revoked"}
CallStates == {"idle", "poll", "check", "decide", "revoke", "submit", "place", "placed", "record",
               "fail", "finish", "native", "native_sent", "returned"}

Call == [at : CallStates, pos : 0..MaxSlices, total : 0..Quantity, reported : Nat,
         answer : {"none", "accepted", "error"}]

\* The rows hold the statuses of the schema's CHECKs, the calls their locals.
PlansTypeOK ==
    /\ planner \in Planners
    /\ request \in [Requests -> RowStates]
    /\ plan \in [Requests -> {"none", "running", "succeeded"}]
    /\ DOMAIN slices = Requests
    /\ \A r \in Requests : slices[r] \in Seq(Slice) /\ Len(slices[r]) <= MaxSlices
    /\ mark \in [Requests -> [SliceIndex -> SliceStates]]
    /\ late \subseteq Requests /\ expired \subseteq Requests
    /\ failing \in [Watchers -> Requests \cup {0}]
    /\ run \in {"none", "running", "succeeded", "failed"}
    /\ decision \in [says : {"none", "for", "against"}, runs : 0..MaxRuns]
    /\ call \in [Requests -> Call]
    /\ lost \in [Requests -> Nat]
    /\ sent \in [Requests -> Nat]
    /\ placed \in [Requests -> SUBSET SliceIndex]
    /\ filled \in [Requests -> Nat]
    /\ silent \subseteq Requests
    /\ faults \in 0..MaxFaults

\* The slices, or the native order after none of them, are one market order to the engine:
\* never more than the approved quantity is handed to the order service, whatever the plan
\* says, and nothing after the answer.
Phase(r) == IF call[r].at \in {"idle", "returned"} THEN call[r].at ELSE "open"
Market == INSTANCE MarketExecution WITH phase <- [r \in Requests |-> Phase(r)]
Implements == Market!MarketSpec

\* A slice that the database shows as revoked or still pending after the call was not sent,
\* unless both UPDATEs that should have said so failed.
RevokedWasNotSent ==
    \A r \in Requests : call[r].at = "returned" =>
        \A i \in placed[r] : mark[r][i] \in {"pending", "revoked"} => lost[r] >= 2

\* When no UPDATE failed, the row of the request tells how the call ended, whatever the
\* watchers wrote to it meanwhile; and a request that succeeded has all its slices filled.
RequestRowIsAnswer ==
    \A r \in Requests :
        call[r].at = "returned" /\ lost[r] = 0 /\ request[r] # "none" =>
            /\ request[r] \in (IF call[r].answer = "accepted" THEN {"succeeded", "expired"}
                               ELSE {"failed", "expired"})
            /\ request[r] = "succeeded" => \A i \in DOMAIN slices[r] : mark[r][i] = "filled"

\* The executed quantity of an accepted answer, from which the protection is sized (CR-8), is
\* what the venue filled, unless a slice was acknowledged without its fill; it is never more.
AnswerTellsFill ==
    \A r \in Requests : call[r].answer = "accepted" =>
        /\ call[r].reported <= filled[r]
        /\ r \notin silent => call[r].reported = filled[r]
=============================================================================
