----------------------- MODULE ExecutionPlans_proofs -----------------------
(***************************************************************************)
(* Proofs about ExecutionPlans, for any number of requests, watchers and   *)
(* slices.  A step of a call changes nothing of another call; what the     *)
(* others do changes no call, and of the rows only what no call relies on. *)
(* With that each invariant is one of a single request.                    *)
(***************************************************************************)
EXTENDS ExecutionPlans, TLAPS

\* A watcher's plan is a sequence of good slices, none larger than the order.
LEMMA PlanOfIsPlan ==
    ASSUME PlansAssumption, NEW n \in SliceCounts
    PROVE  /\ PlanOf(n) \in Seq(Slice)
           /\ Len(PlanOf(n)) \in 1..MaxSlices
  <1> USE DEF PlansAssumption
  <1>0. n \in Nat /\ n >= 1 /\ n <= MaxSlices /\ MaxSlices \in Nat /\ Quantity \in Nat /\ Quantity >= 1
    OBVIOUS
  <1>1. CASE Quantity \div n = 0
    <2>1. SplitQuantity(n) = <<Quantity>>
      BY <1>1 DEF SplitQuantity
    <2>2. PlanOf(n) = [i \in 1..1 |-> [kind |-> "good", quantity |-> Quantity]]
      BY <2>1 DEF PlanOf
    <2> QED
      BY <1>0, <2>2 DEF Slice
  <1>2. CASE Quantity \div n # 0
    <2> DEFINE d == Quantity \div n
    <2>1. d \in Nat /\ n * d <= Quantity
      BY <1>0
    <2>a. (n - 1) * d = n * d - d /\ (n - 1) * d >= 0
      <3> HIDE DEF d
      <3>1. \A k \in Nat : k * d \in Nat
        BY <2>1
      <3>2. (n - 1) * d \in Nat
        BY <3>1, <1>0
      <3> QED BY <3>2, <2>1, <1>0
    <2>2. (n - 1) * d <= n * d /\ (n - 1) * d \in Nat /\ d <= n * d
      <3> HIDE DEF d
      <3>1. n * d \in Nat
        BY <1>0, <2>1
      <3> QED BY <2>a, <2>1, <1>0, <3>1
    <2> DEFINE q(i) == IF i < n THEN d ELSE Quantity - (n - 1) * d
    <2>3. SplitQuantity(n) = [i \in 1..n |-> q(i)]
      BY <1>2 DEF SplitQuantity
    <2>4. \A i \in 1..n : q(i) \in 0..Quantity
      <3> HIDE DEF d
      <3> QED BY <1>0, <2>1, <2>2
    <2> HIDE DEF q
    <2>5. PlanOf(n) = [i \in 1..n |-> [kind |-> "good", quantity |-> q(i)]]
      BY <2>3 DEF PlanOf
    <2> QED
      BY <1>0, <2>4, <2>5 DEF Slice
  <1> QED BY <1>1, <1>2

----------------------------------------------------------------------------
(* The invariant, request by request.                                      *)

\* The calls that execute a plan.
InPlan == {"check", "decide", "revoke", "submit", "place", "placed", "record", "fail", "finish"}

\* The plan that is executed is there, and the call is at one of its slices.
PlanHeld(r) ==
    /\ plan[r] # "none" => slices[r] # <<>>
    /\ call[r].at = "idle" => request[r] = "none" /\ call[r].pos = 0
    /\ call[r].at \in {"poll", "native", "native_sent"} => call[r].pos = 0
    /\ call[r].at = "poll" => planner # "native"
    /\ call[r].at \in InPlan =>
        /\ planner = "sliced" /\ plan[r] = "succeeded"
        /\ call[r].pos >= 1 /\ call[r].pos <= Len(slices[r])
    /\ call[r].at = "finish" => call[r].pos = Len(slices[r])

\* What was sent is the sum of the slices up to the current one.
SentSummed(r) ==
    /\ sent[r] <= Quantity
    /\ call[r].at \in {"idle", "poll", "native"} => sent[r] = 0 /\ call[r].total = 0
    /\ call[r].at \in {"check", "placed", "record", "fail", "finish"} => sent[r] = call[r].total
    /\ call[r].at \in {"decide", "revoke", "submit", "place"} =>
        sent[r] + Current(r).quantity = call[r].total

\* What the call adds up is what was filled, but for silent and failed orders.
FillTold(r) ==
    /\ call[r].reported <= filled[r]
    /\ r \notin silent /\ call[r].at # "fail" /\ call[r].answer # "error"
        => call[r].reported = filled[r]
    /\ call[r].answer # "none" <=> call[r].at = "returned"

\* A slice that was sent and is not marked as such has cost UPDATEs: one when it was
\* submitted, and one when its answer came.
SentIsMarkedAt(r, i) ==
    /\ i >= 1 /\ i <= call[r].pos
    /\ call[r].at \in {"check", "decide", "revoke", "submit", "place"} => i # call[r].pos
    /\ mark[r][i] \in {"pending", "revoked"} =>
        /\ lost[r] >= 1
        /\ i < call[r].pos \/ call[r].at \in {"finish", "returned"} => lost[r] >= 2

SentIsMarked(r) ==
    /\ call[r].at = "place" /\ mark[r][call[r].pos] \in {"pending", "revoked"} => lost[r] >= 1
    /\ \A i \in placed[r] : SentIsMarkedAt(r, i)

\* Without failed UPDATEs the slices behind the call are filled, and the request's row is
\* no longer pending once the call has left the plan.
RowTold(r) ==
    /\ planner = "native" => request[r] = "none"
    /\ request[r] = "succeeded" => call[r].at = "returned"
    /\ lost[r] = 0 =>
        /\ call[r].at \in {"native", "native_sent"} => request[r] \in {"expired", "none"}
        /\ call[r].at \in InPlan =>
            \A i \in DOMAIN slices[r] : i < call[r].pos \/ call[r].at = "finish" => mark[r][i] = "filled"
        /\ call[r].at = "returned" =>
            /\ request[r] \in {"none", "expired"}
                    \cup (IF call[r].answer = "accepted" THEN {"succeeded"} ELSE {"failed"})
            /\ request[r] = "succeeded" => \A i \in DOMAIN slices[r] : mark[r][i] = "filled"

Good(r) == PlanHeld(r) /\ SentSummed(r) /\ FillTold(r) /\ SentIsMarked(r) /\ RowTold(r)

PlansInv == PlansTypeOK /\ \A r \in Requests : Good(r)

----------------------------------------------------------------------------
(* What the steps change.                                                  *)

\* The types, of one request.
Typed(r) ==
    /\ request[r] \in RowStates
    /\ plan[r] \in {"none", "running", "succeeded"}
    /\ Len(slices[r]) \in Nat /\ Len(slices[r]) <= MaxSlices
    /\ DOMAIN slices[r] = 1..Len(slices[r])
    /\ slices[r] = <<>> <=> Len(slices[r]) = 0
    /\ \A i \in DOMAIN slices[r] : slices[r][i].quantity \in Nat /\ slices[r][i].quantity <= Quantity
    /\ call[r].at \in CallStates
    /\ call[r].pos \in Nat /\ call[r].pos <= MaxSlices
    /\ call[r].total \in Nat /\ call[r].total <= Quantity
    /\ call[r].reported \in Nat
    /\ call[r].answer \in {"none", "accepted", "error"}
    /\ lost[r] \in Nat /\ sent[r] \in Nat /\ filled[r] \in Nat
    /\ placed[r] \subseteq SliceIndex
    /\ call[r] = [at |-> call[r].at, pos |-> call[r].pos, total |-> call[r].total,
                  reported |-> call[r].reported, answer |-> call[r].answer]

\* The types of one request, from those of all.
LEMMA TypesOfOne ==
    ASSUME PlansAssumption, PlansTypeOK, NEW r \in Requests
    PROVE  Typed(r) /\ MaxSlices \in Nat /\ Quantity \in Nat /\ Quantity >= 1 /\ MaxRequests \in Nat
  <1> USE DEF PlansAssumption
  <1>1. slices[r] \in Seq(Slice) /\ Len(slices[r]) <= MaxSlices
    BY DEF PlansTypeOK
  <1>2. \A i \in DOMAIN slices[r] : slices[r][i] \in Slice
    BY <1>1
  <1>3. call[r] \in Call
    BY DEF PlansTypeOK
  <1>4. \A i \in DOMAIN slices[r] : slices[r][i].quantity \in Nat /\ slices[r][i].quantity <= Quantity
    BY <1>2 DEF Slice
  <1>5. slices[r] = <<>> <=> Len(slices[r]) = 0
    BY <1>1
  <1>6. call[r] = [at |-> call[r].at, pos |-> call[r].pos, total |-> call[r].total,
                  reported |-> call[r].reported, answer |-> call[r].answer]
    BY <1>3 DEF Call
  <1>7. /\ call[r].at \in CallStates /\ call[r].pos \in 0..MaxSlices
        /\ call[r].total \in 0..Quantity /\ call[r].reported \in Nat
        /\ call[r].answer \in {"none", "accepted", "error"}
    BY <1>3 DEF Call
  <1>8. request[r] \in RowStates /\ plan[r] \in {"none", "running", "succeeded"}
    BY DEF PlansTypeOK
  <1>9. lost[r] \in Nat /\ sent[r] \in Nat /\ filled[r] \in Nat /\ placed[r] \subseteq SliceIndex
    BY DEF PlansTypeOK
  <1>10. Len(slices[r]) \in Nat /\ DOMAIN slices[r] = 1..Len(slices[r])
    BY <1>1
  <1> QED BY <1>1, <1>4, <1>5, <1>6, <1>7, <1>8, <1>9, <1>10 DEF Typed

\* What the planner's UPDATEs do to the rows of the call's own request.
Written(r, slice, revokes, status) ==
    /\ lost'[r] \in Nat /\ lost'[r] >= lost[r]
    /\ plan'[r] = plan[r] /\ slices'[r] = slices[r]
    /\ \A i \in SliceIndex :
        \/ slice # "" /\ i = call[r].pos /\ mark'[r][i] = slice
        \/ /\ \/ mark'[r][i] = mark[r][i]
              \/ revokes /\ mark[r][i] = "pending" /\ mark'[r][i] = "revoked"
           /\ slice # "" /\ i = call[r].pos => lost'[r] >= lost[r] + 1
    /\ \/ status # "" /\ request'[r] = status
       \/ request'[r] = request[r] /\ (status # "" => lost'[r] >= lost[r] + 1)

\* A counter grows with what is added to it.
LEMMA CountUp ==
    \A x, a, b, c \in Nat :
        LET n == x + a + b + c IN n \in Nat /\ n >= x + a /\ n >= x + c /\ n >= x
  OBVIOUS

\* The planner's UPDATEs change the rows of the call's own request as Written says, and keep
\* the types.
LEMMA WriteEffect ==
    ASSUME PlansTypeOK, NEW r \in Requests, NEW slice \in SliceStates \cup {""},
           NEW revokes \in BOOLEAN, NEW status \in RowStates \cup {""}, Write(r, slice, revokes, status)
    PROVE  /\ Written(r, slice, revokes, status)
           /\ \A q \in Requests : q # r =>
                request'[q] = request[q] /\ mark'[q] = mark[q] /\ lost'[q] = lost[q]
           /\ plan' = plan /\ slices' = slices
           /\ request' \in [Requests -> RowStates]
           /\ mark' \in [Requests -> [SliceIndex -> SliceStates]]
           /\ lost' \in [Requests -> Nat]
  <1>1. PICK keepsSlice, keepsRest, keepsStatus \in BOOLEAN :
        /\ slice = "" => keepsSlice
        /\ ~revokes => keepsRest
        /\ status = "" => keepsStatus
        /\ lost' = [lost EXCEPT ![r] = @ + (IF keepsSlice THEN 0 ELSE 1)
                        + (IF keepsRest THEN 0 ELSE 1) + (IF keepsStatus THEN 0 ELSE 1)]
        /\ lost'[r] <= MaxLost
        /\ mark' = [mark EXCEPT ![r] = [i \in SliceIndex |->
                IF slice # "" /\ keepsSlice /\ i = call[r].pos THEN slice
                ELSE IF revokes /\ keepsRest /\ Revocable(r, i) THEN "revoked"
                ELSE mark[r][i]]]
        /\ request' = IF status # "" /\ keepsStatus
                      THEN [request EXCEPT ![r] = status] ELSE request
    BY Zenon DEF Write
  <1>2. plan' = plan /\ slices' = slices
    BY DEF Write
  <1>3. /\ request \in [Requests -> RowStates]
        /\ mark \in [Requests -> [SliceIndex -> SliceStates]]
        /\ lost \in [Requests -> Nat]
    BY DEF PlansTypeOK
  <1>a. lost' = [lost EXCEPT ![r] = lost[r] + (IF keepsSlice THEN 0 ELSE 1)
                   + (IF keepsRest THEN 0 ELSE 1) + (IF keepsStatus THEN 0 ELSE 1)]
    BY <1>1, Zenon
  <1>b. lost[r] \in Nat
    BY <1>3
  <1>4. /\ lost' \in [Requests -> Nat]
        /\ lost'[r] >= lost[r] + (IF keepsSlice THEN 0 ELSE 1)
        /\ lost'[r] >= lost[r] + (IF keepsStatus THEN 0 ELSE 1)
        /\ lost'[r] \in Nat /\ lost'[r] >= lost[r]
        /\ \A q \in Requests : q # r => lost'[q] = lost[q]
    <2> DEFINE a == IF keepsSlice THEN 0 ELSE 1
    <2> DEFINE b == IF keepsRest THEN 0 ELSE 1
    <2> DEFINE c == IF keepsStatus THEN 0 ELSE 1
    <2> DEFINE n == lost[r] + a + b + c
    <2>0. a \in Nat /\ b \in Nat /\ c \in Nat
      BY Zenon, 0 \in Nat, 1 \in Nat
    <2>1. n \in Nat /\ n >= lost[r] + a /\ n >= lost[r] + c /\ n >= lost[r]
      BY <1>b, <2>0, CountUp, Zenon
    <2>2. lost' = [lost EXCEPT ![r] = n]
      BY <1>a, Zenon
    <2> HIDE DEF n
    <2>3. lost'[r] = n /\ lost' \in [Requests -> Nat] /\ \A q \in Requests : q # r => lost'[q] = lost[q]
      BY <2>1, <2>2, <1>3
    <2>4. lost'[r] >= lost[r] + a /\ lost'[r] >= lost[r] + c
      BY <2>1, <2>3, Zenon
    <2> QED BY <2>1, <2>3, <2>4, Zenon
  <1>5. /\ mark' \in [Requests -> [SliceIndex -> SliceStates]]
        /\ \A q \in Requests : q # r => mark'[q] = mark[q]
        /\ \A i \in SliceIndex : mark'[r][i] =
                IF slice # "" /\ keepsSlice /\ i = call[r].pos THEN slice
                ELSE IF revokes /\ keepsRest /\ Revocable(r, i) THEN "revoked"
                ELSE mark[r][i]
    BY <1>1, <1>3 DEF SliceStates
  <1>6. /\ request' \in [Requests -> RowStates]
        /\ \A q \in Requests : q # r => request'[q] = request[q]
        /\ request'[r] = IF status # "" /\ keepsStatus THEN status ELSE request[r]
    BY <1>1, <1>3
  <1>7. \A i \in SliceIndex :
          \/ slice # "" /\ i = call[r].pos /\ mark'[r][i] = slice
          \/ /\ \/ mark'[r][i] = mark[r][i]
                \/ revokes /\ mark[r][i] = "pending" /\ mark'[r][i] = "revoked"
             /\ slice # "" /\ i = call[r].pos => lost'[r] >= lost[r] + 1
    BY <1>4, <1>5 DEF Revocable
  <1>8. \/ status # "" /\ request'[r] = status
        \/ request'[r] = request[r] /\ (status # "" => lost'[r] >= lost[r] + 1)
    BY <1>4, <1>6
  <1>9. lost'[r] \in Nat /\ lost'[r] >= lost[r]
    BY <1>4
  <1> QED BY <1>2, <1>4, <1>5, <1>6, <1>7, <1>8, <1>9 DEF Written

\* Nothing of another request or call changes.
Elsewhere(r) ==
    /\ planner' = planner
    /\ \A q \in Requests : q # r =>
        /\ request'[q] = request[q] /\ plan'[q] = plan[q] /\ slices'[q] = slices[q]
        /\ mark'[q] = mark[q] /\ lost'[q] = lost[q] /\ call'[q] = call[q]
        /\ sent'[q] = sent[q] /\ placed'[q] = placed[q] /\ filled'[q] = filled[q]
        /\ q \in silent' <=> q \in silent

\* The call goes on, and an order is only sent in the midst of it.
Onward(r) ==
    /\ call[r].at # "returned" /\ call'[r].at # "idle"
    /\ \/ sent' = sent
       \/ /\ call[r].at # "idle" /\ call'[r].at # "returned"
          /\ sent' = [sent EXCEPT ![r] = sent'[r]] /\ sent'[r] >= sent[r]

\* A call that others leave alone stays good.
LEMMA GoodElsewhere ==
    ASSUME NEW r \in Requests, NEW q \in Requests, q # r, Good(q), Elsewhere(r)
    PROVE  Good(q)'
  <1>1. /\ planner' = planner
        /\ request'[q] = request[q] /\ plan'[q] = plan[q] /\ slices'[q] = slices[q]
        /\ mark'[q] = mark[q] /\ lost'[q] = lost[q] /\ call'[q] = call[q]
        /\ sent'[q] = sent[q] /\ placed'[q] = placed[q] /\ filled'[q] = filled[q]
        /\ q \in silent' <=> q \in silent
    BY DEF Elsewhere
  <1>2. PlanHeld(q)'
    BY <1>1 DEF Good, PlanHeld
  <1>3. SentSummed(q)'
    BY <1>1 DEF Good, SentSummed, Current
  <1>4. FillTold(q)'
    BY <1>1 DEF Good, FillTold
  <1>5. SentIsMarked(q)'
    BY <1>1 DEF Good, SentIsMarked, SentIsMarkedAt
  <1>6. RowTold(q)'
    BY <1>1 DEF Good, RowTold
  <1> QED BY <1>2, <1>3, <1>4, <1>5, <1>6 DEF Good

----------------------------------------------------------------------------
(* The steps of a call keep the invariant.                                 *)

\* The native order is about to be placed.
LEMMA ExecuteNativelyKeeps ==
    ASSUME PlansAssumption, PlansInv, NEW r \in Requests, ExecuteNatively(r)
    PROVE  PlansTypeOK' /\ Good(r)' /\ Elsewhere(r) /\ Onward(r)
  <1>1. PlansTypeOK /\ Good(r) /\ Typed(r)
    BY TypesOfOne DEF PlansInv
  <1>2. MaxSlices \in Nat /\ Quantity \in Nat /\ Quantity >= 1
    BY DEF PlansAssumption
  <1>3. /\ planner = "native"
        /\ call[r].at = "idle"
    BY DEF ExecuteNatively
  <1>4. /\ call'[r].at = "native"
        /\ call'[r].pos = call[r].pos
        /\ call'[r].total = call[r].total
        /\ call'[r].reported = call[r].reported
        /\ call'[r].answer = call[r].answer
        /\ \A q \in Requests : q # r => call'[q] = call[q]
        /\ call' \in [Requests -> Call]
    <2>1. call \in [Requests -> Call]
      BY <1>1 DEF PlansTypeOK
    <2> QED
      BY <2>1, <1>2, <1>3 DEF ExecuteNatively, CallAs, GoTo, Return, Call, CallStates
  <1>5. /\ planner' = planner /\ plan' = plan /\ slices' = slices /\ late' = late /\ expired' = expired
        /\ run' = run /\ decision' = decision /\ failing' = failing
        /\ request' = request /\ mark' = mark /\ lost' = lost /\ sent' = sent
        /\ placed' = placed /\ filled' = filled /\ silent' = silent
        /\ faults' \in 0..MaxFaults
    BY <1>1
       DEF ExecuteNatively, Fault, Write, PlansTypeOK, rowVars, clockVars, strategyVars, orderVars, PlansAssumption
  <1>7. PlanHeld(r)'
    BY <1>1, <1>2, <1>3, <1>4, <1>5 DEF Good, PlanHeld, InPlan, Typed, RowStates
  <1>8. SentSummed(r)'
    BY <1>1, <1>2, <1>3, <1>4, <1>5
       DEF Good, SentSummed, PlanHeld, InPlan, Current, Typed, CallStates
  <1>9. FillTold(r)'
    BY <1>1, <1>2, <1>3, <1>4, <1>5 DEF Good, FillTold, Typed
  <1>10. SentIsMarked(r)'
    BY <1>1, <1>2, <1>3, <1>4, <1>5
       DEF Good, SentIsMarked, SentIsMarkedAt, PlanHeld, InPlan, Typed, SliceIndex
  <1>11. RowTold(r)'
    BY <1>1, <1>2, <1>3, <1>4, <1>5
       DEF Good, RowTold, FillTold, PlanHeld, InPlan, Typed, SliceIndex, RowStates
  <1>12. PlansTypeOK'
    BY <1>1, <1>4, <1>5 DEF PlansTypeOK
  <1>13. Elsewhere(r)
    BY <1>4, <1>5 DEF Elsewhere
  <1>14. Onward(r)
    BY <1>3, <1>4, <1>5 DEF Onward
  <1> QED BY <1>7, <1>8, <1>9, <1>10, <1>11, <1>12, <1>13, <1>14 DEF Good

\* The request is inserted.
LEMMA ExecuteKeeps ==
    ASSUME PlansAssumption, PlansInv, NEW r \in Requests, Execute(r)
    PROVE  PlansTypeOK' /\ Good(r)' /\ Elsewhere(r) /\ Onward(r)
  <1>1. PlansTypeOK /\ Good(r) /\ Typed(r)
    BY TypesOfOne DEF PlansInv
  <1>2. MaxSlices \in Nat /\ Quantity \in Nat /\ Quantity >= 1
    BY DEF PlansAssumption
  <1>3. /\ planner # "native"
        /\ call[r].at = "idle"
    BY DEF Execute
  <1>4. /\ call'[r].at = "poll"
        /\ call'[r].pos = call[r].pos
        /\ call'[r].total = call[r].total
        /\ call'[r].reported = call[r].reported
        /\ call'[r].answer = call[r].answer
        /\ \A q \in Requests : q # r => call'[q] = call[q]
        /\ call' \in [Requests -> Call]
    <2>1. call \in [Requests -> Call]
      BY <1>1 DEF PlansTypeOK
    <2> QED
      BY <2>1, <1>2, <1>3 DEF Execute, CallAs, GoTo, Return, Call, CallStates
  <1>5. /\ planner' = planner /\ plan' = plan /\ slices' = slices /\ late' = late /\ expired' = expired
        /\ run' = run /\ decision' = decision /\ failing' = failing
        /\ mark' = mark /\ lost' = lost /\ sent' = sent
        /\ placed' = placed /\ filled' = filled /\ silent' = silent
        /\ faults' \in 0..MaxFaults
    BY <1>1
       DEF Execute, Fault, Write, PlansTypeOK, rowVars, clockVars, strategyVars, orderVars, PlansAssumption
  <1>6. /\ request'[r] = "pending"
        /\ request' \in [Requests -> RowStates]
        /\ \A q \in Requests : q # r => request'[q] = request[q]
    BY <1>1, <1>2, <1>3
       DEF Execute, Typed, PlansTypeOK, RowStates, SliceIndex, Good, PlanHeld, InPlan, Current
  <1>7. PlanHeld(r)'
    BY <1>1, <1>2, <1>3, <1>4, <1>5, <1>6 DEF Good, PlanHeld, InPlan, Typed, RowStates
  <1>8. SentSummed(r)'
    BY <1>1, <1>2, <1>3, <1>4, <1>5, <1>6
       DEF Good, SentSummed, PlanHeld, InPlan, Current, Typed, CallStates
  <1>9. FillTold(r)'
    BY <1>1, <1>2, <1>3, <1>4, <1>5, <1>6 DEF Good, FillTold, Typed
  <1>10. SentIsMarked(r)'
    BY <1>1, <1>2, <1>3, <1>4, <1>5, <1>6
       DEF Good, SentIsMarked, SentIsMarkedAt, PlanHeld, InPlan, Typed, SliceIndex
  <1>11. RowTold(r)'
    BY <1>1, <1>2, <1>3, <1>4, <1>5, <1>6
       DEF Good, RowTold, FillTold, PlanHeld, InPlan, Typed, SliceIndex, RowStates
  <1>12. PlansTypeOK'
    BY <1>1, <1>4, <1>5, <1>6 DEF PlansTypeOK
  <1>13. Elsewhere(r)
    BY <1>4, <1>5, <1>6 DEF Elsewhere
  <1>14. Onward(r)
    BY <1>3, <1>4, <1>5 DEF Onward
  <1> QED BY <1>7, <1>8, <1>9, <1>10, <1>11, <1>12, <1>13, <1>14 DEF Good

\* The call ends before its request is inserted.
LEMMA CannotExecuteKeeps ==
    ASSUME PlansAssumption, PlansInv, NEW r \in Requests, CannotExecute(r)
    PROVE  PlansTypeOK' /\ Good(r)' /\ Elsewhere(r) /\ Onward(r)
  <1>1. PlansTypeOK /\ Good(r) /\ Typed(r)
    BY TypesOfOne DEF PlansInv
  <1>2. MaxSlices \in Nat /\ Quantity \in Nat /\ Quantity >= 1
    BY DEF PlansAssumption
  <1>3. /\ planner # "native"
        /\ call[r].at = "idle"
    BY DEF CannotExecute
  <1>4. /\ call'[r].at = "returned"
        /\ call'[r].pos = call[r].pos
        /\ call'[r].total = call[r].total
        /\ call'[r].reported = call[r].reported
        /\ call'[r].answer = "error"
        /\ \A q \in Requests : q # r => call'[q] = call[q]
        /\ call' \in [Requests -> Call]
    <2>1. call \in [Requests -> Call]
      BY <1>1 DEF PlansTypeOK
    <2> QED
      BY <2>1, <1>2, <1>3 DEF CannotExecute, CallAs, GoTo, Return, Call, CallStates
  <1>5. /\ planner' = planner /\ plan' = plan /\ slices' = slices /\ late' = late /\ expired' = expired
        /\ run' = run /\ decision' = decision /\ failing' = failing
        /\ request' = request /\ mark' = mark /\ lost' = lost /\ sent' = sent
        /\ placed' = placed /\ filled' = filled /\ silent' = silent
        /\ faults' \in 0..MaxFaults
    BY <1>1
       DEF CannotExecute, Fault, Write, PlansTypeOK, rowVars, clockVars, strategyVars, orderVars, PlansAssumption
  <1>7. PlanHeld(r)'
    BY <1>1, <1>2, <1>3, <1>4, <1>5 DEF Good, PlanHeld, InPlan, Typed, RowStates
  <1>8. SentSummed(r)'
    BY <1>1, <1>2, <1>3, <1>4, <1>5
       DEF Good, SentSummed, PlanHeld, InPlan, Current, Typed, CallStates
  <1>9. FillTold(r)'
    BY <1>1, <1>2, <1>3, <1>4, <1>5 DEF Good, FillTold, Typed
  <1>10. SentIsMarked(r)'
    BY <1>1, <1>2, <1>3, <1>4, <1>5
       DEF Good, SentIsMarked, SentIsMarkedAt, PlanHeld, InPlan, Typed, SliceIndex
  <1>11. RowTold(r)'
    BY <1>1, <1>2, <1>3, <1>4, <1>5
       DEF Good, RowTold, FillTold, PlanHeld, InPlan, Typed, SliceIndex, RowStates
  <1>12. PlansTypeOK'
    BY <1>1, <1>4, <1>5 DEF PlansTypeOK
  <1>13. Elsewhere(r)
    BY <1>4, <1>5 DEF Elsewhere
  <1>14. Onward(r)
    BY <1>3, <1>4, <1>5 DEF Onward
  <1> QED BY <1>7, <1>8, <1>9, <1>10, <1>11, <1>12, <1>13, <1>14 DEF Good

\* The whole order is placed.
LEMMA PlaceWholeKeeps ==
    ASSUME PlansAssumption, PlansInv, NEW r \in Requests, PlaceWhole(r)
    PROVE  PlansTypeOK' /\ Good(r)' /\ Elsewhere(r) /\ Onward(r)
  <1>1. PlansTypeOK /\ Good(r) /\ Typed(r)
    BY TypesOfOne DEF PlansInv
  <1>2. MaxSlices \in Nat /\ Quantity \in Nat /\ Quantity >= 1
    BY DEF PlansAssumption
  <1>3. /\ call[r].at = "native"
    BY DEF PlaceWhole
  <1>4. /\ call'[r].at = "native_sent"
        /\ call'[r].pos = call[r].pos
        /\ call'[r].total = call[r].total
        /\ call'[r].reported = call[r].reported
        /\ call'[r].answer = call[r].answer
        /\ \A q \in Requests : q # r => call'[q] = call[q]
        /\ call' \in [Requests -> Call]
    <2>1. call \in [Requests -> Call]
      BY <1>1 DEF PlansTypeOK
    <2> QED
      BY <2>1, <1>2, <1>3 DEF PlaceWhole, CallAs, GoTo, Return, Call, CallStates
  <1>5. /\ planner' = planner /\ plan' = plan /\ slices' = slices /\ late' = late /\ expired' = expired
        /\ run' = run /\ decision' = decision /\ failing' = failing
        /\ request' = request /\ mark' = mark /\ lost' = lost
        /\ placed' = placed /\ filled' = filled /\ silent' = silent
        /\ faults' \in 0..MaxFaults
    BY <1>1
       DEF PlaceWhole, Fault, Write, PlansTypeOK, rowVars, clockVars, strategyVars, orderVars, PlansAssumption
  <1>6. /\ sent'[r] = sent[r] + Quantity
        /\ sent' \in [Requests -> Nat]
        /\ \A q \in Requests : q # r => sent'[q] = sent[q]
    BY <1>1, <1>2, <1>3
       DEF PlaceWhole, Typed, PlansTypeOK, RowStates, SliceIndex, Good, PlanHeld, InPlan, Current
  <1>7. PlanHeld(r)'
    BY <1>1, <1>2, <1>3, <1>4, <1>5, <1>6 DEF Good, PlanHeld, InPlan, Typed, RowStates
  <1>8. SentSummed(r)'
    BY <1>1, <1>2, <1>3, <1>4, <1>5, <1>6
       DEF Good, SentSummed, PlanHeld, InPlan, Current, Typed, CallStates
  <1>9. FillTold(r)'
    BY <1>1, <1>2, <1>3, <1>4, <1>5, <1>6 DEF Good, FillTold, Typed
  <1>10. SentIsMarked(r)'
    BY <1>1, <1>2, <1>3, <1>4, <1>5, <1>6
       DEF Good, SentIsMarked, SentIsMarkedAt, PlanHeld, InPlan, Typed, SliceIndex
  <1>11. RowTold(r)'
    BY <1>1, <1>2, <1>3, <1>4, <1>5, <1>6
       DEF Good, RowTold, FillTold, PlanHeld, InPlan, Typed, SliceIndex, RowStates
  <1>12. PlansTypeOK'
    BY <1>1, <1>4, <1>5, <1>6 DEF PlansTypeOK
  <1>13. Elsewhere(r)
    BY <1>4, <1>5, <1>6 DEF Elsewhere
  <1>14. Onward(r)
    <2>1. sent'[r] >= sent[r]
      BY <1>1, <1>2, <1>3, <1>6 DEF Current, Typed, Good, PlanHeld, InPlan
    <2>2. sent' = [sent EXCEPT ![r] = sent'[r]]
      BY <1>1, <1>6 DEF PlaceWhole, PlansTypeOK
    <2> QED BY <1>3, <1>4, <2>1, <2>2 DEF Onward
  <1> QED BY <1>7, <1>8, <1>9, <1>10, <1>11, <1>12, <1>13, <1>14 DEF Good

\* The slice is counted.
LEMMA AwaitDueKeeps ==
    ASSUME PlansAssumption, PlansInv, NEW r \in Requests, AwaitDue(r)
    PROVE  PlansTypeOK' /\ Good(r)' /\ Elsewhere(r) /\ Onward(r)
  <1>1. PlansTypeOK /\ Good(r) /\ Typed(r)
    BY TypesOfOne DEF PlansInv
  <1>2. MaxSlices \in Nat /\ Quantity \in Nat /\ Quantity >= 1
    BY DEF PlansAssumption
  <1>3. /\ call[r].at = "check"
        /\ call[r].total + Current(r).quantity <= Quantity
    <2>1. call[r].at = "check" /\ ~(call[r].total + Current(r).quantity > Quantity)
      BY DEF AwaitDue, Exceeds
    <2>2. Current(r).quantity \in Nat /\ call[r].total \in Nat
      BY <1>1, <1>2, <2>1 DEF Current, Typed, Good, PlanHeld, InPlan
    <2> QED BY <1>2, <2>1, <2>2
  <1>4. /\ call'[r].at = "decide"
        /\ call'[r].pos = call[r].pos
        /\ call'[r].total = call[r].total + Current(r).quantity
        /\ call'[r].reported = call[r].reported
        /\ call'[r].answer = call[r].answer
        /\ \A q \in Requests : q # r => call'[q] = call[q]
        /\ call' \in [Requests -> Call]
    <2>1. call \in [Requests -> Call]
      BY <1>1 DEF PlansTypeOK
    <2>2. Current(r).quantity \in Nat
      BY <1>1, <1>2, <1>3 DEF Current, Typed, Good, PlanHeld, InPlan
    <2>3. call[r].total + Current(r).quantity \in 0..Quantity
      BY <1>1, <1>2, <1>3, <2>2 DEF Typed
    <2>4. call' = [call EXCEPT ![r] = [call[r] EXCEPT !.at = "decide", !.total = call[r].total + Current(r).quantity]]
      BY DEF AwaitDue, CallAs
    <2> HIDE DEF Current
    <2> QED
      BY <2>1, <2>3, <2>4 DEF Call, CallStates
  <1>5. /\ planner' = planner /\ plan' = plan /\ slices' = slices /\ late' = late /\ expired' = expired
        /\ run' = run /\ decision' = decision /\ failing' = failing
        /\ request' = request /\ mark' = mark /\ lost' = lost /\ sent' = sent
        /\ placed' = placed /\ filled' = filled /\ silent' = silent
        /\ faults' \in 0..MaxFaults
    BY <1>1
       DEF AwaitDue, Fault, Write, PlansTypeOK, rowVars, clockVars, strategyVars, orderVars, PlansAssumption
  <1>7. PlanHeld(r)'
    BY <1>1, <1>2, <1>3, <1>4, <1>5 DEF Good, PlanHeld, InPlan, Typed, RowStates
  <1>8. SentSummed(r)'
    BY <1>1, <1>2, <1>3, <1>4, <1>5
       DEF Good, SentSummed, PlanHeld, InPlan, Current, Typed, CallStates
  <1>9. FillTold(r)'
    BY <1>1, <1>2, <1>3, <1>4, <1>5 DEF Good, FillTold, Typed
  <1>10. SentIsMarked(r)'
    BY <1>1, <1>2, <1>3, <1>4, <1>5
       DEF Good, SentIsMarked, SentIsMarkedAt, PlanHeld, InPlan, Typed, SliceIndex
  <1>11. RowTold(r)'
    BY <1>1, <1>2, <1>3, <1>4, <1>5
       DEF Good, RowTold, FillTold, PlanHeld, InPlan, Typed, SliceIndex, RowStates
  <1>12. PlansTypeOK'
    BY <1>1, <1>4, <1>5 DEF PlansTypeOK
  <1>13. Elsewhere(r)
    BY <1>4, <1>5 DEF Elsewhere
  <1>14. Onward(r)
    BY <1>3, <1>4, <1>5 DEF Onward
  <1> QED BY <1>7, <1>8, <1>9, <1>10, <1>11, <1>12, <1>13, <1>14 DEF Good

\* The decision is asked for.
LEMMA AskDecisionKeeps ==
    ASSUME PlansAssumption, PlansInv, NEW r \in Requests, AskDecision(r)
    PROVE  PlansTypeOK' /\ Good(r)' /\ Elsewhere(r) /\ Onward(r)
  <1>1. PlansTypeOK /\ Good(r) /\ Typed(r)
    BY TypesOfOne DEF PlansInv
  <1>2. MaxSlices \in Nat /\ Quantity \in Nat /\ Quantity >= 1
    BY DEF PlansAssumption
  <1>3. /\ call[r].at = "decide"
    BY DEF AskDecision
  <1>4. /\ call'[r].pos = call[r].pos
        /\ call'[r].total = call[r].total
        /\ call'[r].reported = call[r].reported
        /\ call'[r].answer = call[r].answer
        /\ call'[r].at \in {"revoke", "submit"}
        /\ \A q \in Requests : q # r => call'[q] = call[q]
        /\ call' \in [Requests -> Call]
    <2>1. call \in [Requests -> Call]
      BY <1>1 DEF PlansTypeOK
    <2> QED
      BY <2>1, <1>2, <1>3 DEF AskDecision, CallAs, GoTo, Return, Call, CallStates
  <1>5. /\ planner' = planner /\ plan' = plan /\ slices' = slices /\ late' = late /\ expired' = expired
        /\ run' = run /\ decision' = decision /\ failing' = failing
        /\ request' = request /\ mark' = mark /\ lost' = lost /\ sent' = sent
        /\ placed' = placed /\ filled' = filled /\ silent' = silent
        /\ faults' \in 0..MaxFaults
    BY <1>1
       DEF AskDecision, Fault, Write, PlansTypeOK, rowVars, clockVars, strategyVars, orderVars, PlansAssumption
  <1>7. PlanHeld(r)'
    BY <1>1, <1>2, <1>3, <1>4, <1>5 DEF Good, PlanHeld, InPlan, Typed, RowStates
  <1>8. SentSummed(r)'
    BY <1>1, <1>2, <1>3, <1>4, <1>5
       DEF Good, SentSummed, PlanHeld, InPlan, Current, Typed, CallStates
  <1>9. FillTold(r)'
    BY <1>1, <1>2, <1>3, <1>4, <1>5 DEF Good, FillTold, Typed
  <1>10. SentIsMarked(r)'
    BY <1>1, <1>2, <1>3, <1>4, <1>5
       DEF Good, SentIsMarked, SentIsMarkedAt, PlanHeld, InPlan, Typed, SliceIndex
  <1>11. RowTold(r)'
    BY <1>1, <1>2, <1>3, <1>4, <1>5
       DEF Good, RowTold, FillTold, PlanHeld, InPlan, Typed, SliceIndex, RowStates
  <1>12. PlansTypeOK'
    BY <1>1, <1>4, <1>5 DEF PlansTypeOK
  <1>13. Elsewhere(r)
    BY <1>4, <1>5 DEF Elsewhere
  <1>14. Onward(r)
    BY <1>3, <1>4, <1>5 DEF Onward
  <1> QED BY <1>7, <1>8, <1>9, <1>10, <1>11, <1>12, <1>13, <1>14 DEF Good

\* A slice that does not fit the order ends the call.
LEMMA RejectSliceKeeps ==
    ASSUME PlansAssumption, PlansInv, NEW r \in Requests, RejectSlice(r)
    PROVE  PlansTypeOK' /\ Good(r)' /\ Elsewhere(r) /\ Onward(r)
  <1>1. PlansTypeOK /\ Good(r) /\ Typed(r)
    BY TypesOfOne DEF PlansInv
  <1>2. MaxSlices \in Nat /\ Quantity \in Nat /\ Quantity >= 1
    BY DEF PlansAssumption
  <1>3. /\ call[r].at = "check"
    BY DEF RejectSlice
  <1>4. /\ call'[r].at = "returned"
        /\ call'[r].pos = call[r].pos
        /\ call'[r].total = call[r].total
        /\ call'[r].reported = call[r].reported
        /\ call'[r].answer = "error"
        /\ \A q \in Requests : q # r => call'[q] = call[q]
        /\ call' \in [Requests -> Call]
    <2>1. call \in [Requests -> Call]
      BY <1>1 DEF PlansTypeOK
    <2> QED
      BY <2>1, <1>2, <1>3 DEF RejectSlice, CallAs, GoTo, Return, Call, CallStates
  <1>5. /\ planner' = planner /\ plan' = plan /\ slices' = slices /\ late' = late /\ expired' = expired
        /\ run' = run /\ decision' = decision /\ failing' = failing
        /\ sent' = sent /\ placed' = placed /\ filled' = filled /\ silent' = silent
        /\ faults' \in 0..MaxFaults
    BY <1>1
       DEF RejectSlice, Fault, Write, PlansTypeOK, rowVars, clockVars, strategyVars, orderVars, PlansAssumption
  <1>6. /\ Written(r, "failed", FALSE, "failed")
        /\ \A q \in Requests : q # r =>
            request'[q] = request[q] /\ mark'[q] = mark[q] /\ lost'[q] = lost[q]
        /\ request' \in [Requests -> RowStates] /\ lost' \in [Requests -> Nat]
        /\ mark' \in [Requests -> [SliceIndex -> SliceStates]]
    <2>1. Write(r, "failed", FALSE, "failed")
      BY DEF RejectSlice
    <2> QED BY <1>1, <2>1, WriteEffect DEF SliceStates, RowStates
  <1>7. PlanHeld(r)'
    BY <1>1, <1>2, <1>3, <1>4, <1>5, <1>6 DEF Good, PlanHeld, InPlan, Typed, RowStates, Written
  <1>8. SentSummed(r)'
    BY <1>1, <1>2, <1>3, <1>4, <1>5, <1>6
       DEF Good, SentSummed, PlanHeld, InPlan, Current, Typed, CallStates, Written
  <1>9. FillTold(r)'
    BY <1>1, <1>2, <1>3, <1>4, <1>5, <1>6 DEF Good, FillTold, Typed, Written
  <1>10. SentIsMarked(r)'
    <2>a. call'[r].at = "place" /\ mark'[r][call'[r].pos] \in {"pending", "revoked"} => lost'[r] >= 1
      BY <1>4
    <2> SUFFICES ASSUME NEW i \in placed'[r] PROVE SentIsMarkedAt(r, i)'
      BY <2>a DEF SentIsMarked, SentIsMarkedAt
    <2>1. /\ call[r].pos \in Nat /\ lost[r] \in Nat /\ lost'[r] \in Nat /\ lost'[r] >= lost[r]
          /\ Len(slices[r]) \in Nat /\ Len(slices[r]) <= MaxSlices
          /\ \A j \in placed[r] : j \in SliceIndex
      BY <1>1, <1>5, <1>6 DEF Typed, Written
    <2>2. /\ call[r].at \in InPlan => call[r].pos >= 1 /\ call[r].pos <= Len(slices[r])
          /\ call[r].at = "finish" => call[r].pos = Len(slices[r])
          /\ call[r].at = "poll" => call[r].pos = 0
      BY <1>1 DEF Good, PlanHeld
    <2>3. \A j \in placed[r] : SentIsMarkedAt(r, j)
      BY <1>1 DEF Good, SentIsMarked, SentIsMarkedAt
    <2>4. i \in placed[r] /\ i \in SliceIndex /\ i \in Nat
      BY <1>5, <2>1 DEF SliceIndex
    <2>5. SentIsMarkedAt(r, i)
      BY <2>3, <2>4
    <2>6. \/ "failed" # "" /\ i = call[r].pos /\ mark'[r][i] = "failed"
          \/ /\ \/ mark'[r][i] = mark[r][i]
                \/ FALSE /\ mark[r][i] = "pending" /\ mark'[r][i] = "revoked"
             /\ "failed" # "" /\ i = call[r].pos => lost'[r] >= lost[r] + 1
      BY <1>6, <2>4 DEF Written
    <2> QED
      BY <1>3, <1>4, <1>5, <2>1, <2>2, <2>4, <2>5, <2>6 DEF SentIsMarkedAt, InPlan
  <1>11. RowTold(r)'
    BY <1>1, <1>2, <1>3, <1>4, <1>5, <1>6
       DEF Good, RowTold, FillTold, PlanHeld, InPlan, Typed, SliceIndex, RowStates, Written
  <1>12. PlansTypeOK'
    BY <1>1, <1>4, <1>5, <1>6 DEF PlansTypeOK
  <1>13. Elsewhere(r)
    BY <1>4, <1>5, <1>6 DEF Elsewhere
  <1>14. Onward(r)
    BY <1>3, <1>4, <1>5 DEF Onward
  <1> QED BY <1>7, <1>8, <1>9, <1>10, <1>11, <1>12, <1>13, <1>14 DEF Good

\* A slice that exceeds the order ends the call.
LEMMA RejectExcessKeeps ==
    ASSUME PlansAssumption, PlansInv, NEW r \in Requests, RejectExcess(r)
    PROVE  PlansTypeOK' /\ Good(r)' /\ Elsewhere(r) /\ Onward(r)
  <1>1. PlansTypeOK /\ Good(r) /\ Typed(r)
    BY TypesOfOne DEF PlansInv
  <1>2. MaxSlices \in Nat /\ Quantity \in Nat /\ Quantity >= 1
    BY DEF PlansAssumption
  <1>3. /\ call[r].at = "check"
    BY DEF RejectExcess
  <1>4. /\ call'[r].at = "returned"
        /\ call'[r].pos = call[r].pos
        /\ call'[r].total = call[r].total
        /\ call'[r].reported = call[r].reported
        /\ call'[r].answer = "error"
        /\ \A q \in Requests : q # r => call'[q] = call[q]
        /\ call' \in [Requests -> Call]
    <2>1. call \in [Requests -> Call]
      BY <1>1 DEF PlansTypeOK
    <2> QED
      BY <2>1, <1>2, <1>3 DEF RejectExcess, CallAs, GoTo, Return, Call, CallStates
  <1>5. /\ planner' = planner /\ plan' = plan /\ slices' = slices /\ late' = late /\ expired' = expired
        /\ run' = run /\ decision' = decision /\ failing' = failing
        /\ sent' = sent /\ placed' = placed /\ filled' = filled /\ silent' = silent
        /\ faults' \in 0..MaxFaults
    BY <1>1
       DEF RejectExcess, Fault, Write, PlansTypeOK, rowVars, clockVars, strategyVars, orderVars, PlansAssumption
  <1>6. /\ Written(r, "failed", TRUE, "failed")
        /\ \A q \in Requests : q # r =>
            request'[q] = request[q] /\ mark'[q] = mark[q] /\ lost'[q] = lost[q]
        /\ request' \in [Requests -> RowStates] /\ lost' \in [Requests -> Nat]
        /\ mark' \in [Requests -> [SliceIndex -> SliceStates]]
    <2>1. Write(r, "failed", TRUE, "failed")
      BY DEF RejectExcess
    <2> QED BY <1>1, <2>1, WriteEffect DEF SliceStates, RowStates
  <1>7. PlanHeld(r)'
    BY <1>1, <1>2, <1>3, <1>4, <1>5, <1>6 DEF Good, PlanHeld, InPlan, Typed, RowStates, Written
  <1>8. SentSummed(r)'
    BY <1>1, <1>2, <1>3, <1>4, <1>5, <1>6
       DEF Good, SentSummed, PlanHeld, InPlan, Current, Typed, CallStates, Written
  <1>9. FillTold(r)'
    BY <1>1, <1>2, <1>3, <1>4, <1>5, <1>6 DEF Good, FillTold, Typed, Written
  <1>10. SentIsMarked(r)'
    <2>a. call'[r].at = "place" /\ mark'[r][call'[r].pos] \in {"pending", "revoked"} => lost'[r] >= 1
      BY <1>4
    <2> SUFFICES ASSUME NEW i \in placed'[r] PROVE SentIsMarkedAt(r, i)'
      BY <2>a DEF SentIsMarked, SentIsMarkedAt
    <2>1. /\ call[r].pos \in Nat /\ lost[r] \in Nat /\ lost'[r] \in Nat /\ lost'[r] >= lost[r]
          /\ Len(slices[r]) \in Nat /\ Len(slices[r]) <= MaxSlices
          /\ \A j \in placed[r] : j \in SliceIndex
      BY <1>1, <1>5, <1>6 DEF Typed, Written
    <2>2. /\ call[r].at \in InPlan => call[r].pos >= 1 /\ call[r].pos <= Len(slices[r])
          /\ call[r].at = "finish" => call[r].pos = Len(slices[r])
          /\ call[r].at = "poll" => call[r].pos = 0
      BY <1>1 DEF Good, PlanHeld
    <2>3. \A j \in placed[r] : SentIsMarkedAt(r, j)
      BY <1>1 DEF Good, SentIsMarked, SentIsMarkedAt
    <2>4. i \in placed[r] /\ i \in SliceIndex /\ i \in Nat
      BY <1>5, <2>1 DEF SliceIndex
    <2>5. SentIsMarkedAt(r, i)
      BY <2>3, <2>4
    <2>6. \/ "failed" # "" /\ i = call[r].pos /\ mark'[r][i] = "failed"
          \/ /\ \/ mark'[r][i] = mark[r][i]
                \/ TRUE /\ mark[r][i] = "pending" /\ mark'[r][i] = "revoked"
             /\ "failed" # "" /\ i = call[r].pos => lost'[r] >= lost[r] + 1
      BY <1>6, <2>4 DEF Written
    <2> QED
      BY <1>3, <1>4, <1>5, <2>1, <2>2, <2>4, <2>5, <2>6 DEF SentIsMarkedAt, InPlan
  <1>11. RowTold(r)'
    BY <1>1, <1>2, <1>3, <1>4, <1>5, <1>6
       DEF Good, RowTold, FillTold, PlanHeld, InPlan, Typed, SliceIndex, RowStates, Written
  <1>12. PlansTypeOK'
    BY <1>1, <1>4, <1>5, <1>6 DEF PlansTypeOK
  <1>13. Elsewhere(r)
    BY <1>4, <1>5, <1>6 DEF Elsewhere
  <1>14. Onward(r)
    BY <1>3, <1>4, <1>5 DEF Onward
  <1> QED BY <1>7, <1>8, <1>9, <1>10, <1>11, <1>12, <1>13, <1>14 DEF Good

\* The slices that are left are revoked.
LEMMA RevokeKeeps ==
    ASSUME PlansAssumption, PlansInv, NEW r \in Requests, Revoke(r)
    PROVE  PlansTypeOK' /\ Good(r)' /\ Elsewhere(r) /\ Onward(r)
  <1>1. PlansTypeOK /\ Good(r) /\ Typed(r)
    BY TypesOfOne DEF PlansInv
  <1>2. MaxSlices \in Nat /\ Quantity \in Nat /\ Quantity >= 1
    BY DEF PlansAssumption
  <1>3. /\ call[r].at = "revoke"
    BY DEF Revoke
  <1>4. /\ call'[r].at = "returned"
        /\ call'[r].pos = call[r].pos
        /\ call'[r].total = call[r].total
        /\ call'[r].reported = call[r].reported
        /\ call'[r].answer = "error"
        /\ \A q \in Requests : q # r => call'[q] = call[q]
        /\ call' \in [Requests -> Call]
    <2>1. call \in [Requests -> Call]
      BY <1>1 DEF PlansTypeOK
    <2> QED
      BY <2>1, <1>2, <1>3 DEF Revoke, CallAs, GoTo, Return, Call, CallStates
  <1>5. /\ planner' = planner /\ plan' = plan /\ slices' = slices /\ late' = late /\ expired' = expired
        /\ run' = run /\ decision' = decision /\ failing' = failing
        /\ sent' = sent /\ placed' = placed /\ filled' = filled /\ silent' = silent
        /\ faults' \in 0..MaxFaults
    BY <1>1
       DEF Revoke, Fault, Write, PlansTypeOK, rowVars, clockVars, strategyVars, orderVars, PlansAssumption
  <1>6. /\ Written(r, "", TRUE, "failed")
        /\ \A q \in Requests : q # r =>
            request'[q] = request[q] /\ mark'[q] = mark[q] /\ lost'[q] = lost[q]
        /\ request' \in [Requests -> RowStates] /\ lost' \in [Requests -> Nat]
        /\ mark' \in [Requests -> [SliceIndex -> SliceStates]]
    <2>1. Write(r, "", TRUE, "failed")
      BY DEF Revoke
    <2> QED BY <1>1, <2>1, WriteEffect DEF SliceStates, RowStates
  <1>7. PlanHeld(r)'
    BY <1>1, <1>2, <1>3, <1>4, <1>5, <1>6 DEF Good, PlanHeld, InPlan, Typed, RowStates, Written
  <1>8. SentSummed(r)'
    BY <1>1, <1>2, <1>3, <1>4, <1>5, <1>6
       DEF Good, SentSummed, PlanHeld, InPlan, Current, Typed, CallStates, Written
  <1>9. FillTold(r)'
    BY <1>1, <1>2, <1>3, <1>4, <1>5, <1>6 DEF Good, FillTold, Typed, Written
  <1>10. SentIsMarked(r)'
    <2>a. call'[r].at = "place" /\ mark'[r][call'[r].pos] \in {"pending", "revoked"} => lost'[r] >= 1
      BY <1>4
    <2> SUFFICES ASSUME NEW i \in placed'[r] PROVE SentIsMarkedAt(r, i)'
      BY <2>a DEF SentIsMarked, SentIsMarkedAt
    <2>1. /\ call[r].pos \in Nat /\ lost[r] \in Nat /\ lost'[r] \in Nat /\ lost'[r] >= lost[r]
          /\ Len(slices[r]) \in Nat /\ Len(slices[r]) <= MaxSlices
          /\ \A j \in placed[r] : j \in SliceIndex
      BY <1>1, <1>5, <1>6 DEF Typed, Written
    <2>2. /\ call[r].at \in InPlan => call[r].pos >= 1 /\ call[r].pos <= Len(slices[r])
          /\ call[r].at = "finish" => call[r].pos = Len(slices[r])
          /\ call[r].at = "poll" => call[r].pos = 0
      BY <1>1 DEF Good, PlanHeld
    <2>3. \A j \in placed[r] : SentIsMarkedAt(r, j)
      BY <1>1 DEF Good, SentIsMarked, SentIsMarkedAt
    <2>4. i \in placed[r] /\ i \in SliceIndex /\ i \in Nat
      BY <1>5, <2>1 DEF SliceIndex
    <2>5. SentIsMarkedAt(r, i)
      BY <2>3, <2>4
    <2>6. \/ "" # "" /\ i = call[r].pos /\ mark'[r][i] = ""
          \/ /\ \/ mark'[r][i] = mark[r][i]
                \/ TRUE /\ mark[r][i] = "pending" /\ mark'[r][i] = "revoked"
             /\ "" # "" /\ i = call[r].pos => lost'[r] >= lost[r] + 1
      BY <1>6, <2>4 DEF Written
    <2> QED
      BY <1>3, <1>4, <1>5, <2>1, <2>2, <2>4, <2>5, <2>6 DEF SentIsMarkedAt, InPlan
  <1>11. RowTold(r)'
    BY <1>1, <1>2, <1>3, <1>4, <1>5, <1>6
       DEF Good, RowTold, FillTold, PlanHeld, InPlan, Typed, SliceIndex, RowStates, Written
  <1>12. PlansTypeOK'
    BY <1>1, <1>4, <1>5, <1>6 DEF PlansTypeOK
  <1>13. Elsewhere(r)
    BY <1>4, <1>5, <1>6 DEF Elsewhere
  <1>14. Onward(r)
    BY <1>3, <1>4, <1>5 DEF Onward
  <1> QED BY <1>7, <1>8, <1>9, <1>10, <1>11, <1>12, <1>13, <1>14 DEF Good

\* A slice that failed ends the call.
LEMMA FailSliceKeeps ==
    ASSUME PlansAssumption, PlansInv, NEW r \in Requests, FailSlice(r)
    PROVE  PlansTypeOK' /\ Good(r)' /\ Elsewhere(r) /\ Onward(r)
  <1>1. PlansTypeOK /\ Good(r) /\ Typed(r)
    BY TypesOfOne DEF PlansInv
  <1>2. MaxSlices \in Nat /\ Quantity \in Nat /\ Quantity >= 1
    BY DEF PlansAssumption
  <1>3. /\ call[r].at = "fail"
    BY DEF FailSlice
  <1>4. /\ call'[r].at = "returned"
        /\ call'[r].pos = call[r].pos
        /\ call'[r].total = call[r].total
        /\ call'[r].reported = call[r].reported
        /\ call'[r].answer = "error"
        /\ \A q \in Requests : q # r => call'[q] = call[q]
        /\ call' \in [Requests -> Call]
    <2>1. call \in [Requests -> Call]
      BY <1>1 DEF PlansTypeOK
    <2> QED
      BY <2>1, <1>2, <1>3 DEF FailSlice, CallAs, GoTo, Return, Call, CallStates
  <1>5. /\ planner' = planner /\ plan' = plan /\ slices' = slices /\ late' = late /\ expired' = expired
        /\ run' = run /\ decision' = decision /\ failing' = failing
        /\ sent' = sent /\ placed' = placed /\ filled' = filled /\ silent' = silent
        /\ faults' \in 0..MaxFaults
    BY <1>1
       DEF FailSlice, Fault, Write, PlansTypeOK, rowVars, clockVars, strategyVars, orderVars, PlansAssumption
  <1>6. /\ Written(r, "failed", TRUE, "failed")
        /\ \A q \in Requests : q # r =>
            request'[q] = request[q] /\ mark'[q] = mark[q] /\ lost'[q] = lost[q]
        /\ request' \in [Requests -> RowStates] /\ lost' \in [Requests -> Nat]
        /\ mark' \in [Requests -> [SliceIndex -> SliceStates]]
    <2>1. Write(r, "failed", TRUE, "failed")
      BY DEF FailSlice
    <2> QED BY <1>1, <2>1, WriteEffect DEF SliceStates, RowStates
  <1>7. PlanHeld(r)'
    BY <1>1, <1>2, <1>3, <1>4, <1>5, <1>6 DEF Good, PlanHeld, InPlan, Typed, RowStates, Written
  <1>8. SentSummed(r)'
    BY <1>1, <1>2, <1>3, <1>4, <1>5, <1>6
       DEF Good, SentSummed, PlanHeld, InPlan, Current, Typed, CallStates, Written
  <1>9. FillTold(r)'
    BY <1>1, <1>2, <1>3, <1>4, <1>5, <1>6 DEF Good, FillTold, Typed, Written
  <1>10. SentIsMarked(r)'
    <2>a. call'[r].at = "place" /\ mark'[r][call'[r].pos] \in {"pending", "revoked"} => lost'[r] >= 1
      BY <1>4
    <2> SUFFICES ASSUME NEW i \in placed'[r] PROVE SentIsMarkedAt(r, i)'
      BY <2>a DEF SentIsMarked, SentIsMarkedAt
    <2>1. /\ call[r].pos \in Nat /\ lost[r] \in Nat /\ lost'[r] \in Nat /\ lost'[r] >= lost[r]
          /\ Len(slices[r]) \in Nat /\ Len(slices[r]) <= MaxSlices
          /\ \A j \in placed[r] : j \in SliceIndex
      BY <1>1, <1>5, <1>6 DEF Typed, Written
    <2>2. /\ call[r].at \in InPlan => call[r].pos >= 1 /\ call[r].pos <= Len(slices[r])
          /\ call[r].at = "finish" => call[r].pos = Len(slices[r])
          /\ call[r].at = "poll" => call[r].pos = 0
      BY <1>1 DEF Good, PlanHeld
    <2>3. \A j \in placed[r] : SentIsMarkedAt(r, j)
      BY <1>1 DEF Good, SentIsMarked, SentIsMarkedAt
    <2>4. i \in placed[r] /\ i \in SliceIndex /\ i \in Nat
      BY <1>5, <2>1 DEF SliceIndex
    <2>5. SentIsMarkedAt(r, i)
      BY <2>3, <2>4
    <2>6. \/ "failed" # "" /\ i = call[r].pos /\ mark'[r][i] = "failed"
          \/ /\ \/ mark'[r][i] = mark[r][i]
                \/ TRUE /\ mark[r][i] = "pending" /\ mark'[r][i] = "revoked"
             /\ "failed" # "" /\ i = call[r].pos => lost'[r] >= lost[r] + 1
      BY <1>6, <2>4 DEF Written
    <2> QED
      BY <1>3, <1>4, <1>5, <2>1, <2>2, <2>4, <2>5, <2>6 DEF SentIsMarkedAt, InPlan
  <1>11. RowTold(r)'
    BY <1>1, <1>2, <1>3, <1>4, <1>5, <1>6
       DEF Good, RowTold, FillTold, PlanHeld, InPlan, Typed, SliceIndex, RowStates, Written
  <1>12. PlansTypeOK'
    BY <1>1, <1>4, <1>5, <1>6 DEF PlansTypeOK
  <1>13. Elsewhere(r)
    BY <1>4, <1>5, <1>6 DEF Elsewhere
  <1>14. Onward(r)
    BY <1>3, <1>4, <1>5 DEF Onward
  <1> QED BY <1>7, <1>8, <1>9, <1>10, <1>11, <1>12, <1>13, <1>14 DEF Good

\* The slice is marked before it is placed.
LEMMA MarkSubmittedKeeps ==
    ASSUME PlansAssumption, PlansInv, NEW r \in Requests, MarkSubmitted(r)
    PROVE  PlansTypeOK' /\ Good(r)' /\ Elsewhere(r) /\ Onward(r)
  <1>1. PlansTypeOK /\ Good(r) /\ Typed(r)
    BY TypesOfOne DEF PlansInv
  <1>2. MaxSlices \in Nat /\ Quantity \in Nat /\ Quantity >= 1
    BY DEF PlansAssumption
  <1>3. /\ call[r].at = "submit"
    BY DEF MarkSubmitted
  <1>4. /\ call'[r].at = "place"
        /\ call'[r].pos = call[r].pos
        /\ call'[r].total = call[r].total
        /\ call'[r].reported = call[r].reported
        /\ call'[r].answer = call[r].answer
        /\ \A q \in Requests : q # r => call'[q] = call[q]
        /\ call' \in [Requests -> Call]
    <2>1. call \in [Requests -> Call]
      BY <1>1 DEF PlansTypeOK
    <2> QED
      BY <2>1, <1>2, <1>3 DEF MarkSubmitted, CallAs, GoTo, Return, Call, CallStates
  <1>5. /\ planner' = planner /\ plan' = plan /\ slices' = slices /\ late' = late /\ expired' = expired
        /\ run' = run /\ decision' = decision /\ failing' = failing
        /\ sent' = sent /\ placed' = placed /\ filled' = filled /\ silent' = silent
        /\ faults' \in 0..MaxFaults
    BY <1>1
       DEF MarkSubmitted, Fault, Write, PlansTypeOK, rowVars, clockVars, strategyVars, orderVars, PlansAssumption
  <1>6. /\ Written(r, "submitted", FALSE, "")
        /\ \A q \in Requests : q # r =>
            request'[q] = request[q] /\ mark'[q] = mark[q] /\ lost'[q] = lost[q]
        /\ request' \in [Requests -> RowStates] /\ lost' \in [Requests -> Nat]
        /\ mark' \in [Requests -> [SliceIndex -> SliceStates]]
    <2>1. Write(r, "submitted", FALSE, "")
      BY DEF MarkSubmitted
    <2> QED BY <1>1, <2>1, WriteEffect DEF SliceStates, RowStates
  <1>7. PlanHeld(r)'
    BY <1>1, <1>2, <1>3, <1>4, <1>5, <1>6 DEF Good, PlanHeld, InPlan, Typed, RowStates, Written
  <1>8. SentSummed(r)'
    BY <1>1, <1>2, <1>3, <1>4, <1>5, <1>6
       DEF Good, SentSummed, PlanHeld, InPlan, Current, Typed, CallStates, Written
  <1>9. FillTold(r)'
    BY <1>1, <1>2, <1>3, <1>4, <1>5, <1>6 DEF Good, FillTold, Typed, Written
  <1>10. SentIsMarked(r)'
    <2>a. call'[r].at = "place" /\ mark'[r][call'[r].pos] \in {"pending", "revoked"} => lost'[r] >= 1
      <3>1. call[r].pos \in SliceIndex /\ lost[r] \in Nat /\ lost'[r] \in Nat
        BY <1>1, <1>2, <1>3, <1>6 DEF Good, PlanHeld, InPlan, Typed, SliceIndex, Written
      <3> QED BY <1>4, <1>6, <3>1 DEF Written
    <2> SUFFICES ASSUME NEW i \in placed'[r] PROVE SentIsMarkedAt(r, i)'
      BY <2>a DEF SentIsMarked, SentIsMarkedAt
    <2>1. /\ call[r].pos \in Nat /\ lost[r] \in Nat /\ lost'[r] \in Nat /\ lost'[r] >= lost[r]
          /\ Len(slices[r]) \in Nat /\ Len(slices[r]) <= MaxSlices
          /\ \A j \in placed[r] : j \in SliceIndex
      BY <1>1, <1>5, <1>6 DEF Typed, Written
    <2>2. /\ call[r].at \in InPlan => call[r].pos >= 1 /\ call[r].pos <= Len(slices[r])
          /\ call[r].at = "finish" => call[r].pos = Len(slices[r])
          /\ call[r].at = "poll" => call[r].pos = 0
      BY <1>1 DEF Good, PlanHeld
    <2>3. \A j \in placed[r] : SentIsMarkedAt(r, j)
      BY <1>1 DEF Good, SentIsMarked, SentIsMarkedAt
    <2>4. i \in placed[r] /\ i \in SliceIndex /\ i \in Nat
      BY <1>5, <2>1 DEF SliceIndex
    <2>5. SentIsMarkedAt(r, i)
      BY <2>3, <2>4
    <2>6. \/ "submitted" # "" /\ i = call[r].pos /\ mark'[r][i] = "submitted"
          \/ /\ \/ mark'[r][i] = mark[r][i]
                \/ FALSE /\ mark[r][i] = "pending" /\ mark'[r][i] = "revoked"
             /\ "submitted" # "" /\ i = call[r].pos => lost'[r] >= lost[r] + 1
      BY <1>6, <2>4 DEF Written
    <2> QED
      BY <1>3, <1>4, <1>5, <2>1, <2>2, <2>4, <2>5, <2>6 DEF SentIsMarkedAt, InPlan
  <1>11. RowTold(r)'
    <2>1. /\ call[r].pos \in Nat /\ lost[r] \in Nat /\ lost'[r] \in Nat /\ lost'[r] >= lost[r]
          /\ Len(slices[r]) \in Nat /\ DOMAIN slices[r] = 1..Len(slices[r]) /\ DOMAIN slices[r] \subseteq SliceIndex
      BY <1>1, <1>2, <1>6 DEF Typed, Written, SliceIndex
    <2>2. /\ planner = "sliced" /\ call[r].pos >= 1 /\ call[r].pos <= Len(slices[r])
          /\ call[r].at = "finish" => call[r].pos = Len(slices[r])
      BY <1>1, <1>3 DEF Good, PlanHeld, InPlan
    <2>3. lost[r] = 0 => \A i \in DOMAIN slices[r] :
            i < call[r].pos \/ call[r].at = "finish" => mark[r][i] = "filled"
      BY <1>1, <1>3 DEF Good, RowTold, InPlan
    <2>4. request[r] # "succeeded" /\ request[r] \in RowStates
      BY <1>1, <1>3 DEF Good, RowTold, Typed
    <2>5. ASSUME NEW i \in DOMAIN slices[r], lost'[r] = 0
          PROVE  IF "submitted" # "" /\ i = call[r].pos THEN mark'[r][i] = "submitted" ELSE mark'[r][i] = mark[r][i]
      <3>1. i \in SliceIndex /\ i \in Nat
        BY <2>1
      <3> QED BY <1>6, <2>1, <2>5, <3>1 DEF Written
    <2>6. request'[r] = request[r]
      BY <1>6, <2>1 DEF Written
    <2>7. lost'[r] = 0 => \A i \in DOMAIN slices[r] :
            i < call'[r].pos \/ call'[r].at \in {"finish", "returned"} => mark'[r][i] = "filled"
      BY <1>3, <1>4, <2>1, <2>2, <2>3, <2>5
    <2>8. slices'[r] = slices[r] /\ planner' = "sliced" /\ planner' # "native"
      BY <1>5, <2>2
    <2>9. request'[r] = "succeeded" => call'[r].at = "returned"
      BY <1>3, <1>4, <2>4, <1>6 DEF Written
    <2> QED
      BY <1>3, <1>4, <2>4, <2>6, <2>7, <2>8, <2>9 DEF RowTold, InPlan
  <1>12. PlansTypeOK'
    BY <1>1, <1>4, <1>5, <1>6 DEF PlansTypeOK
  <1>13. Elsewhere(r)
    BY <1>4, <1>5, <1>6 DEF Elsewhere
  <1>14. Onward(r)
    BY <1>3, <1>4, <1>5 DEF Onward
  <1> QED BY <1>7, <1>8, <1>9, <1>10, <1>11, <1>12, <1>13, <1>14 DEF Good

\* The last slice was filled.
LEMMA FinishKeeps ==
    ASSUME PlansAssumption, PlansInv, NEW r \in Requests, Finish(r)
    PROVE  PlansTypeOK' /\ Good(r)' /\ Elsewhere(r) /\ Onward(r)
  <1>1. PlansTypeOK /\ Good(r) /\ Typed(r)
    BY TypesOfOne DEF PlansInv
  <1>2. MaxSlices \in Nat /\ Quantity \in Nat /\ Quantity >= 1
    BY DEF PlansAssumption
  <1>3. /\ call[r].at = "finish"
    BY DEF Finish
  <1>4. /\ call'[r].at = "returned"
        /\ call'[r].pos = call[r].pos
        /\ call'[r].total = call[r].total
        /\ call'[r].reported = call[r].reported
        /\ call'[r].answer = "accepted"
        /\ \A q \in Requests : q # r => call'[q] = call[q]
        /\ call' \in [Requests -> Call]
    <2>1. call \in [Requests -> Call]
      BY <1>1 DEF PlansTypeOK
    <2> QED
      BY <2>1, <1>2, <1>3 DEF Finish, CallAs, GoTo, Return, Call, CallStates
  <1>5. /\ planner' = planner /\ plan' = plan /\ slices' = slices /\ late' = late /\ expired' = expired
        /\ run' = run /\ decision' = decision /\ failing' = failing
        /\ sent' = sent /\ placed' = placed /\ filled' = filled /\ silent' = silent
        /\ faults' \in 0..MaxFaults
    BY <1>1
       DEF Finish, Fault, Write, PlansTypeOK, rowVars, clockVars, strategyVars, orderVars, PlansAssumption
  <1>6. /\ Written(r, "", FALSE, "succeeded")
        /\ \A q \in Requests : q # r =>
            request'[q] = request[q] /\ mark'[q] = mark[q] /\ lost'[q] = lost[q]
        /\ request' \in [Requests -> RowStates] /\ lost' \in [Requests -> Nat]
        /\ mark' \in [Requests -> [SliceIndex -> SliceStates]]
    <2>1. Write(r, "", FALSE, "succeeded")
      BY DEF Finish
    <2> QED BY <1>1, <2>1, WriteEffect DEF SliceStates, RowStates
  <1>7. PlanHeld(r)'
    BY <1>1, <1>2, <1>3, <1>4, <1>5, <1>6 DEF Good, PlanHeld, InPlan, Typed, RowStates, Written
  <1>8. SentSummed(r)'
    BY <1>1, <1>2, <1>3, <1>4, <1>5, <1>6
       DEF Good, SentSummed, PlanHeld, InPlan, Current, Typed, CallStates, Written
  <1>9. FillTold(r)'
    BY <1>1, <1>2, <1>3, <1>4, <1>5, <1>6 DEF Good, FillTold, Typed, Written
  <1>10. SentIsMarked(r)'
    <2>a. call'[r].at = "place" /\ mark'[r][call'[r].pos] \in {"pending", "revoked"} => lost'[r] >= 1
      BY <1>4
    <2> SUFFICES ASSUME NEW i \in placed'[r] PROVE SentIsMarkedAt(r, i)'
      BY <2>a DEF SentIsMarked, SentIsMarkedAt
    <2>1. /\ call[r].pos \in Nat /\ lost[r] \in Nat /\ lost'[r] \in Nat /\ lost'[r] >= lost[r]
          /\ Len(slices[r]) \in Nat /\ Len(slices[r]) <= MaxSlices
          /\ \A j \in placed[r] : j \in SliceIndex
      BY <1>1, <1>5, <1>6 DEF Typed, Written
    <2>2. /\ call[r].at \in InPlan => call[r].pos >= 1 /\ call[r].pos <= Len(slices[r])
          /\ call[r].at = "finish" => call[r].pos = Len(slices[r])
          /\ call[r].at = "poll" => call[r].pos = 0
      BY <1>1 DEF Good, PlanHeld
    <2>3. \A j \in placed[r] : SentIsMarkedAt(r, j)
      BY <1>1 DEF Good, SentIsMarked, SentIsMarkedAt
    <2>4. i \in placed[r] /\ i \in SliceIndex /\ i \in Nat
      BY <1>5, <2>1 DEF SliceIndex
    <2>5. SentIsMarkedAt(r, i)
      BY <2>3, <2>4
    <2>6. \/ "" # "" /\ i = call[r].pos /\ mark'[r][i] = ""
          \/ /\ \/ mark'[r][i] = mark[r][i]
                \/ FALSE /\ mark[r][i] = "pending" /\ mark'[r][i] = "revoked"
             /\ "" # "" /\ i = call[r].pos => lost'[r] >= lost[r] + 1
      BY <1>6, <2>4 DEF Written
    <2> QED
      BY <1>3, <1>4, <1>5, <2>1, <2>2, <2>4, <2>5, <2>6 DEF SentIsMarkedAt, InPlan
  <1>11. RowTold(r)'
    <2>1. /\ call[r].pos \in Nat /\ lost[r] \in Nat /\ lost'[r] \in Nat /\ lost'[r] >= lost[r]
          /\ Len(slices[r]) \in Nat /\ DOMAIN slices[r] = 1..Len(slices[r]) /\ DOMAIN slices[r] \subseteq SliceIndex
      BY <1>1, <1>2, <1>6 DEF Typed, Written, SliceIndex
    <2>2. /\ planner = "sliced" /\ call[r].pos >= 1 /\ call[r].pos <= Len(slices[r])
          /\ call[r].at = "finish" => call[r].pos = Len(slices[r])
      BY <1>1, <1>3 DEF Good, PlanHeld, InPlan
    <2>3. lost[r] = 0 => \A i \in DOMAIN slices[r] :
            i < call[r].pos \/ call[r].at = "finish" => mark[r][i] = "filled"
      BY <1>1, <1>3 DEF Good, RowTold, InPlan
    <2>4. request[r] # "succeeded" /\ request[r] \in RowStates
      BY <1>1, <1>3 DEF Good, RowTold, Typed
    <2>5. ASSUME NEW i \in DOMAIN slices[r], lost'[r] = 0
          PROVE  IF "" # "" /\ i = call[r].pos THEN mark'[r][i] = "" ELSE mark'[r][i] = mark[r][i]
      <3>1. i \in SliceIndex /\ i \in Nat
        BY <2>1
      <3> QED BY <1>6, <2>1, <2>5, <3>1 DEF Written
    <2>6. request'[r] = "succeeded" \/ lost'[r] # 0
      BY <1>6, <2>1 DEF Written
    <2>7. lost'[r] = 0 => \A i \in DOMAIN slices[r] :
            i < call'[r].pos \/ call'[r].at \in {"finish", "returned"} => mark'[r][i] = "filled"
      BY <1>3, <1>4, <2>1, <2>2, <2>3, <2>5
    <2>8. slices'[r] = slices[r] /\ planner' = "sliced" /\ planner' # "native"
      BY <1>5, <2>2
    <2>9. request'[r] = "succeeded" => call'[r].at = "returned"
      BY <1>3, <1>4, <2>4, <1>6 DEF Written
    <2> QED
      BY <1>3, <1>4, <2>4, <2>6, <2>7, <2>8, <2>9 DEF RowTold, InPlan
  <1>12. PlansTypeOK'
    BY <1>1, <1>4, <1>5, <1>6 DEF PlansTypeOK
  <1>13. Elsewhere(r)
    BY <1>4, <1>5, <1>6 DEF Elsewhere
  <1>14. Onward(r)
    BY <1>3, <1>4, <1>5 DEF Onward
  <1> QED BY <1>7, <1>8, <1>9, <1>10, <1>11, <1>12, <1>13, <1>14 DEF Good

\* A slice is recorded as filled.
LEMMA RecordFilledKeeps ==
    ASSUME PlansAssumption, PlansInv, NEW r \in Requests, RecordFilled(r)
    PROVE  PlansTypeOK' /\ Good(r)' /\ Elsewhere(r) /\ Onward(r)
  <1>1. PlansTypeOK /\ Good(r) /\ Typed(r)
    BY TypesOfOne DEF PlansInv
  <1>2. MaxSlices \in Nat /\ Quantity \in Nat /\ Quantity >= 1
    BY DEF PlansAssumption
  <1>3. /\ call[r].at = "record"
    BY DEF RecordFilled
  <1>4. /\ call'[r].at = (IF call[r].pos < Len(slices[r]) THEN "check" ELSE "finish")
        /\ call'[r].pos = (IF call[r].pos < Len(slices[r]) THEN call[r].pos + 1 ELSE call[r].pos)
        /\ call'[r].total = call[r].total
        /\ call'[r].reported = call[r].reported
        /\ call'[r].answer = call[r].answer
        /\ \A q \in Requests : q # r => call'[q] = call[q]
        /\ call' \in [Requests -> Call]
    <2>1. call \in [Requests -> Call]
      BY <1>1 DEF PlansTypeOK
    <2>2. call[r].pos \in Nat /\ Len(slices[r]) \in Nat /\ Len(slices[r]) <= MaxSlices
      BY <1>1 DEF Typed
    <2>3. CASE call[r].pos < Len(slices[r])
      <3>1. call' = [call EXCEPT ![r] = [call[r] EXCEPT !.at = "check", !.pos = call[r].pos + 1]]
        BY <2>3 DEF RecordFilled, GoTo, CallAs
      <3>2. call[r].pos + 1 \in 0..MaxSlices
        BY <2>2, <1>2, <2>3
      <3> QED BY <2>1, <2>3, <3>1, <3>2 DEF Call, CallStates
    <2>4. CASE ~(call[r].pos < Len(slices[r]))
      <3>1. call' = [call EXCEPT ![r] = [call[r] EXCEPT !.at = "finish"]]
        BY <2>4 DEF RecordFilled, GoTo, CallAs
      <3> QED BY <2>1, <2>4, <3>1 DEF Call, CallStates
    <2> QED BY <2>3, <2>4
  <1>5. /\ planner' = planner /\ plan' = plan /\ slices' = slices /\ late' = late /\ expired' = expired
        /\ run' = run /\ decision' = decision /\ failing' = failing
        /\ sent' = sent /\ placed' = placed /\ filled' = filled /\ silent' = silent
        /\ faults' \in 0..MaxFaults
    BY <1>1
       DEF RecordFilled, Fault, Write, PlansTypeOK, rowVars, clockVars, strategyVars, orderVars, PlansAssumption
  <1>6. /\ Written(r, "filled", FALSE, "")
        /\ \A q \in Requests : q # r =>
            request'[q] = request[q] /\ mark'[q] = mark[q] /\ lost'[q] = lost[q]
        /\ request' \in [Requests -> RowStates] /\ lost' \in [Requests -> Nat]
        /\ mark' \in [Requests -> [SliceIndex -> SliceStates]]
    <2>1. Write(r, "filled", FALSE, "")
      BY DEF RecordFilled
    <2> QED BY <1>1, <2>1, WriteEffect DEF SliceStates, RowStates
  <1>7. PlanHeld(r)'
    BY <1>1, <1>2, <1>3, <1>4, <1>5, <1>6 DEF Good, PlanHeld, InPlan, Typed, RowStates, Written
  <1>8. SentSummed(r)'
    BY <1>1, <1>2, <1>3, <1>4, <1>5, <1>6
       DEF Good, SentSummed, PlanHeld, InPlan, Current, Typed, CallStates, Written
  <1>9. FillTold(r)'
    BY <1>1, <1>2, <1>3, <1>4, <1>5, <1>6 DEF Good, FillTold, Typed, Written
  <1>10. SentIsMarked(r)'
    <2>a. call'[r].at = "place" /\ mark'[r][call'[r].pos] \in {"pending", "revoked"} => lost'[r] >= 1
      BY <1>4
    <2> SUFFICES ASSUME NEW i \in placed'[r] PROVE SentIsMarkedAt(r, i)'
      BY <2>a DEF SentIsMarked, SentIsMarkedAt
    <2>1. /\ call[r].pos \in Nat /\ lost[r] \in Nat /\ lost'[r] \in Nat /\ lost'[r] >= lost[r]
          /\ Len(slices[r]) \in Nat /\ Len(slices[r]) <= MaxSlices
          /\ \A j \in placed[r] : j \in SliceIndex
      BY <1>1, <1>5, <1>6 DEF Typed, Written
    <2>2. /\ call[r].at \in InPlan => call[r].pos >= 1 /\ call[r].pos <= Len(slices[r])
          /\ call[r].at = "finish" => call[r].pos = Len(slices[r])
          /\ call[r].at = "poll" => call[r].pos = 0
      BY <1>1 DEF Good, PlanHeld
    <2>3. \A j \in placed[r] : SentIsMarkedAt(r, j)
      BY <1>1 DEF Good, SentIsMarked, SentIsMarkedAt
    <2>4. i \in placed[r] /\ i \in SliceIndex /\ i \in Nat
      BY <1>5, <2>1 DEF SliceIndex
    <2>5. SentIsMarkedAt(r, i)
      BY <2>3, <2>4
    <2>6. \/ "filled" # "" /\ i = call[r].pos /\ mark'[r][i] = "filled"
          \/ /\ \/ mark'[r][i] = mark[r][i]
                \/ FALSE /\ mark[r][i] = "pending" /\ mark'[r][i] = "revoked"
             /\ "filled" # "" /\ i = call[r].pos => lost'[r] >= lost[r] + 1
      BY <1>6, <2>4 DEF Written
    <2> QED
      BY <1>3, <1>4, <1>5, <2>1, <2>2, <2>4, <2>5, <2>6 DEF SentIsMarkedAt, InPlan
  <1>11. RowTold(r)'
    <2>1. /\ call[r].pos \in Nat /\ lost[r] \in Nat /\ lost'[r] \in Nat /\ lost'[r] >= lost[r]
          /\ Len(slices[r]) \in Nat /\ DOMAIN slices[r] = 1..Len(slices[r]) /\ DOMAIN slices[r] \subseteq SliceIndex
      BY <1>1, <1>2, <1>6 DEF Typed, Written, SliceIndex
    <2>2. /\ planner = "sliced" /\ call[r].pos >= 1 /\ call[r].pos <= Len(slices[r])
          /\ call[r].at = "finish" => call[r].pos = Len(slices[r])
      BY <1>1, <1>3 DEF Good, PlanHeld, InPlan
    <2>3. lost[r] = 0 => \A i \in DOMAIN slices[r] :
            i < call[r].pos \/ call[r].at = "finish" => mark[r][i] = "filled"
      BY <1>1, <1>3 DEF Good, RowTold, InPlan
    <2>4. request[r] # "succeeded" /\ request[r] \in RowStates
      BY <1>1, <1>3 DEF Good, RowTold, Typed
    <2>5. ASSUME NEW i \in DOMAIN slices[r], lost'[r] = 0
          PROVE  IF "filled" # "" /\ i = call[r].pos THEN mark'[r][i] = "filled" ELSE mark'[r][i] = mark[r][i]
      <3>1. i \in SliceIndex /\ i \in Nat
        BY <2>1
      <3> QED BY <1>6, <2>1, <2>5, <3>1 DEF Written
    <2>6. request'[r] = request[r]
      BY <1>6, <2>1 DEF Written
    <2>7. lost'[r] = 0 => \A i \in DOMAIN slices[r] :
            i < call'[r].pos \/ call'[r].at \in {"finish", "returned"} => mark'[r][i] = "filled"
      BY <1>3, <1>4, <2>1, <2>2, <2>3, <2>5
    <2>8. slices'[r] = slices[r] /\ planner' = "sliced" /\ planner' # "native"
      BY <1>5, <2>2
    <2>9. request'[r] = "succeeded" => call'[r].at = "returned"
      BY <1>3, <1>4, <2>4, <1>6 DEF Written
    <2> QED
      BY <1>3, <1>4, <2>4, <2>6, <2>7, <2>8, <2>9 DEF RowTold, InPlan
  <1>12. PlansTypeOK'
    BY <1>1, <1>4, <1>5, <1>6 DEF PlansTypeOK
  <1>13. Elsewhere(r)
    BY <1>4, <1>5, <1>6 DEF Elsewhere
  <1>14. Onward(r)
    BY <1>3, <1>4, <1>5 DEF Onward
  <1> QED BY <1>7, <1>8, <1>9, <1>10, <1>11, <1>12, <1>13, <1>14 DEF Good

\* A slice is placed.
LEMMA PlaceSliceKeeps ==
    ASSUME PlansAssumption, PlansInv, NEW r \in Requests, PlaceSlice(r)
    PROVE  PlansTypeOK' /\ Good(r)' /\ Elsewhere(r) /\ Onward(r)
  <1>1. PlansTypeOK /\ Good(r) /\ Typed(r)
    BY TypesOfOne DEF PlansInv
  <1>2. MaxSlices \in Nat /\ Quantity \in Nat /\ Quantity >= 1
    BY DEF PlansAssumption
  <1>3. /\ call[r].at = "place"
    BY DEF PlaceSlice
  <1>4. /\ call'[r].at = "placed"
        /\ call'[r].pos = call[r].pos
        /\ call'[r].total = call[r].total
        /\ call'[r].reported = call[r].reported
        /\ call'[r].answer = call[r].answer
        /\ \A q \in Requests : q # r => call'[q] = call[q]
        /\ call' \in [Requests -> Call]
    <2>1. call \in [Requests -> Call]
      BY <1>1 DEF PlansTypeOK
    <2> QED
      BY <2>1, <1>2, <1>3 DEF PlaceSlice, CallAs, GoTo, Return, Call, CallStates
  <1>5. /\ planner' = planner /\ plan' = plan /\ slices' = slices /\ late' = late /\ expired' = expired
        /\ run' = run /\ decision' = decision /\ failing' = failing
        /\ request' = request /\ mark' = mark /\ lost' = lost /\ filled' = filled /\ silent' = silent
        /\ faults' \in 0..MaxFaults
    BY <1>1
       DEF PlaceSlice, Fault, Write, PlansTypeOK, rowVars, clockVars, strategyVars, orderVars, PlansAssumption
  <1>6. /\ sent'[r] = sent[r] + Current(r).quantity
        /\ placed'[r] = placed[r] \cup {call[r].pos}
        /\ sent' \in [Requests -> Nat]
        /\ placed' \in [Requests -> SUBSET SliceIndex]
        /\ \A q \in Requests : q # r => sent'[q] = sent[q]
        /\ \A q \in Requests : q # r => placed'[q] = placed[q]
    <2>1. Current(r).quantity \in Nat /\ call[r].pos \in SliceIndex
      BY <1>1, <1>2, <1>3 DEF Current, Typed, Good, PlanHeld, InPlan, SliceIndex
    <2>2. sent \in [Requests -> Nat] /\ placed \in [Requests -> SUBSET SliceIndex]
      BY <1>1 DEF PlansTypeOK
    <2>3. sent' = [sent EXCEPT ![r] = @ + Current(r).quantity] /\ placed' = [placed EXCEPT ![r] = @ \cup {call[r].pos}]
      BY DEF PlaceSlice
    <2> QED BY <2>1, <2>2, <2>3
  <1>7. PlanHeld(r)'
    BY <1>1, <1>2, <1>3, <1>4, <1>5, <1>6 DEF Good, PlanHeld, InPlan, Typed, RowStates
  <1>8. SentSummed(r)'
    BY <1>1, <1>2, <1>3, <1>4, <1>5, <1>6
       DEF Good, SentSummed, PlanHeld, InPlan, Current, Typed, CallStates
  <1>9. FillTold(r)'
    BY <1>1, <1>2, <1>3, <1>4, <1>5, <1>6 DEF Good, FillTold, Typed
  <1>10. SentIsMarked(r)'
    <2>a. call'[r].at = "place" /\ mark'[r][call'[r].pos] \in {"pending", "revoked"} => lost'[r] >= 1
      BY <1>4
    <2> SUFFICES ASSUME NEW i \in placed'[r] PROVE SentIsMarkedAt(r, i)'
      BY <2>a DEF SentIsMarked, SentIsMarkedAt
    <2>1. /\ call[r].pos \in Nat /\ lost[r] \in Nat /\ lost'[r] \in Nat /\ lost'[r] >= lost[r]
          /\ Len(slices[r]) \in Nat /\ Len(slices[r]) <= MaxSlices
          /\ \A j \in placed[r] : j \in SliceIndex
      BY <1>1, <1>5, <1>6 DEF Typed, Written
    <2>2. /\ call[r].at \in InPlan => call[r].pos >= 1 /\ call[r].pos <= Len(slices[r])
          /\ call[r].at = "finish" => call[r].pos = Len(slices[r])
          /\ call[r].at = "poll" => call[r].pos = 0
      BY <1>1 DEF Good, PlanHeld
    <2>3. \A j \in placed[r] : SentIsMarkedAt(r, j)
      BY <1>1 DEF Good, SentIsMarked, SentIsMarkedAt
    <2>4. i \in placed[r] \/ i = call[r].pos
      BY <1>6
    <2>5. CASE i \in placed[r]
      <3>1. SentIsMarkedAt(r, i) /\ i \in Nat
        BY <2>1, <2>3, <2>5 DEF SliceIndex
      <3> QED BY <1>3, <1>4, <1>5, <2>1, <3>1 DEF SentIsMarkedAt
    <2>6. CASE i = call[r].pos
      <3>1. mark[r][i] \in {"pending", "revoked"} => lost[r] >= 1
        BY <1>1, <1>3, <2>6 DEF Good, SentIsMarked
      <3> QED BY <1>3, <1>4, <1>5, <2>1, <2>2, <2>6, <3>1 DEF SentIsMarkedAt, InPlan
    <2> QED BY <2>4, <2>5, <2>6
  <1>11. RowTold(r)'
    BY <1>1, <1>2, <1>3, <1>4, <1>5, <1>6
       DEF Good, RowTold, FillTold, PlanHeld, InPlan, Typed, SliceIndex, RowStates
  <1>12. PlansTypeOK'
    BY <1>1, <1>4, <1>5, <1>6 DEF PlansTypeOK
  <1>13. Elsewhere(r)
    BY <1>4, <1>5, <1>6 DEF Elsewhere
  <1>14. Onward(r)
    <2>1. sent'[r] >= sent[r]
      BY <1>1, <1>2, <1>3, <1>6 DEF Current, Typed, Good, PlanHeld, InPlan
    <2>2. sent' = [sent EXCEPT ![r] = sent'[r]]
      BY <1>1, <1>6 DEF PlaceSlice, PlansTypeOK
    <2> QED BY <1>3, <1>4, <2>1, <2>2 DEF Onward
  <1> QED BY <1>7, <1>8, <1>9, <1>10, <1>11, <1>12, <1>13, <1>14 DEF Good

\* No plan came in time.
LEMMA ExpireKeeps ==
    ASSUME PlansAssumption, PlansInv, NEW r \in Requests, Expire(r)
    PROVE  PlansTypeOK' /\ Good(r)' /\ Elsewhere(r) /\ Onward(r)
  <1>1. PlansTypeOK /\ Good(r) /\ Typed(r)
    BY TypesOfOne DEF PlansInv
  <1>2. MaxSlices \in Nat /\ Quantity \in Nat /\ Quantity >= 1
    BY DEF PlansAssumption
  <1>3. /\ call[r].at = "poll"
    BY DEF Expire
  <1>4. /\ call'[r].at = (IF planner = "sliced" THEN "native" ELSE "returned")
        /\ call'[r].pos = call[r].pos
        /\ call'[r].total = call[r].total
        /\ call'[r].reported = call[r].reported
        /\ call'[r].answer = (IF planner = "sliced" THEN call[r].answer ELSE "error")
        /\ \A q \in Requests : q # r => call'[q] = call[q]
        /\ call' \in [Requests -> Call]
    <2>1. call \in [Requests -> Call]
      BY <1>1 DEF PlansTypeOK
    <2>3. CASE planner = "sliced"
      <3>1. call' = [call EXCEPT ![r] = [call[r] EXCEPT !.at = "native"]]
        BY <2>3 DEF Expire, GoTo, CallAs
      <3> QED BY <2>1, <2>3, <3>1 DEF Call, CallStates
    <2>4. CASE planner # "sliced"
      <3>1. call' = [call EXCEPT ![r] = [call[r] EXCEPT !.at = "returned", !.answer = "error"]]
        BY <2>4 DEF Expire, Return, CallAs
      <3> QED BY <2>1, <2>4, <3>1 DEF Call, CallStates
    <2> QED BY <2>3, <2>4
  <1>5. /\ planner' = planner /\ plan' = plan /\ slices' = slices /\ late' = late /\ expired' = expired
        /\ run' = run /\ decision' = decision /\ failing' = failing
        /\ sent' = sent /\ placed' = placed /\ filled' = filled /\ silent' = silent
        /\ faults' \in 0..MaxFaults
    BY <1>1
       DEF Expire, Fault, Write, PlansTypeOK, rowVars, clockVars, strategyVars, orderVars, PlansAssumption
  <1>6. /\ Written(r, "", FALSE, "expired")
        /\ \A q \in Requests : q # r =>
            request'[q] = request[q] /\ mark'[q] = mark[q] /\ lost'[q] = lost[q]
        /\ request' \in [Requests -> RowStates] /\ lost' \in [Requests -> Nat]
        /\ mark' \in [Requests -> [SliceIndex -> SliceStates]]
    <2>1. Write(r, "", FALSE, "expired")
      BY <1>3 DEF Expire
    <2> QED BY <1>1, <2>1, WriteEffect DEF SliceStates, RowStates
  <1>7. PlanHeld(r)'
    BY <1>1, <1>2, <1>3, <1>4, <1>5, <1>6 DEF Good, PlanHeld, InPlan, Typed, RowStates, Written
  <1>8. SentSummed(r)'
    BY <1>1, <1>2, <1>3, <1>4, <1>5, <1>6
       DEF Good, SentSummed, PlanHeld, InPlan, Current, Typed, CallStates, Written
  <1>9. FillTold(r)'
    BY <1>1, <1>2, <1>3, <1>4, <1>5, <1>6 DEF Good, FillTold, Typed, Written
  <1>10. SentIsMarked(r)'
    <2>a. call'[r].at = "place" /\ mark'[r][call'[r].pos] \in {"pending", "revoked"} => lost'[r] >= 1
      BY <1>4
    <2> SUFFICES ASSUME NEW i \in placed'[r] PROVE SentIsMarkedAt(r, i)'
      BY <2>a DEF SentIsMarked, SentIsMarkedAt
    <2>1. /\ call[r].pos \in Nat /\ lost[r] \in Nat /\ lost'[r] \in Nat /\ lost'[r] >= lost[r]
          /\ Len(slices[r]) \in Nat /\ Len(slices[r]) <= MaxSlices
          /\ \A j \in placed[r] : j \in SliceIndex
      BY <1>1, <1>5, <1>6 DEF Typed, Written
    <2>2. /\ call[r].at \in InPlan => call[r].pos >= 1 /\ call[r].pos <= Len(slices[r])
          /\ call[r].at = "finish" => call[r].pos = Len(slices[r])
          /\ call[r].at = "poll" => call[r].pos = 0
      BY <1>1 DEF Good, PlanHeld
    <2>3. \A j \in placed[r] : SentIsMarkedAt(r, j)
      BY <1>1 DEF Good, SentIsMarked, SentIsMarkedAt
    <2>4. i \in placed[r] /\ i \in SliceIndex /\ i \in Nat
      BY <1>5, <2>1 DEF SliceIndex
    <2>5. SentIsMarkedAt(r, i)
      BY <2>3, <2>4
    <2>6. \/ "" # "" /\ i = call[r].pos /\ mark'[r][i] = ""
          \/ /\ \/ mark'[r][i] = mark[r][i]
                \/ FALSE /\ mark[r][i] = "pending" /\ mark'[r][i] = "revoked"
             /\ "" # "" /\ i = call[r].pos => lost'[r] >= lost[r] + 1
      BY <1>6, <2>4 DEF Written
    <2> QED
      BY <1>3, <1>4, <1>5, <2>1, <2>2, <2>4, <2>5, <2>6 DEF SentIsMarkedAt, InPlan
  <1>11. RowTold(r)'
    BY <1>1, <1>2, <1>3, <1>4, <1>5, <1>6
       DEF Good, RowTold, FillTold, PlanHeld, InPlan, Typed, SliceIndex, RowStates, Written
  <1>12. PlansTypeOK'
    BY <1>1, <1>4, <1>5, <1>6 DEF PlansTypeOK
  <1>13. Elsewhere(r)
    BY <1>4, <1>5, <1>6 DEF Elsewhere
  <1>14. Onward(r)
    BY <1>3, <1>4, <1>5 DEF Onward
  <1> QED BY <1>7, <1>8, <1>9, <1>10, <1>11, <1>12, <1>13, <1>14 DEF Good

\* A plan is ready, and its first slice is looked at.
LEMMA FetchKeeps ==
    ASSUME PlansAssumption, PlansInv, NEW r \in Requests, Fetch(r), planner = "sliced"
    PROVE  PlansTypeOK' /\ Good(r)' /\ Elsewhere(r) /\ Onward(r)
  <1>1. PlansTypeOK /\ Good(r) /\ Typed(r)
    BY TypesOfOne DEF PlansInv
  <1>2. MaxSlices \in Nat /\ Quantity \in Nat /\ Quantity >= 1
    BY DEF PlansAssumption
  <1>3. /\ call[r].at = "poll"
        /\ plan[r] = "succeeded"
        /\ planner = "sliced"
    BY DEF Fetch, PlanReady
  <1>4. /\ call'[r].at = "check"
        /\ call'[r].pos = 1
        /\ call'[r].total = call[r].total
        /\ call'[r].reported = call[r].reported
        /\ call'[r].answer = call[r].answer
        /\ \A q \in Requests : q # r => call'[q] = call[q]
        /\ call' \in [Requests -> Call]
    <2>1. call \in [Requests -> Call]
      BY <1>1 DEF PlansTypeOK
    <2>3. /\ call' = [call EXCEPT ![r] = [call[r] EXCEPT !.at = "check", !.pos = 1]]
          /\ 1 \in 0..MaxSlices
      <3>1. slices[r] # <<>>
        BY <1>1, <1>3 DEF Good, PlanHeld
      <3> QED BY <1>1, <1>2, <1>3, <3>1 DEF Fetch, CallAs, Typed
    <2> QED BY <2>1, <2>3, <1>2 DEF Call, CallStates
  <1>5. /\ planner' = planner /\ plan' = plan /\ slices' = slices /\ late' = late /\ expired' = expired
        /\ run' = run /\ decision' = decision /\ failing' = failing
        /\ request' = request /\ mark' = mark /\ lost' = lost /\ sent' = sent
        /\ placed' = placed /\ filled' = filled /\ silent' = silent
        /\ faults' \in 0..MaxFaults
    BY <1>1, <1>3
       DEF Fetch, Fault, Write, PlansTypeOK, rowVars, clockVars, strategyVars, orderVars, PlansAssumption
  <1>7. PlanHeld(r)'
    BY <1>1, <1>2, <1>3, <1>4, <1>5 DEF Good, PlanHeld, InPlan, Typed, RowStates
  <1>8. SentSummed(r)'
    BY <1>1, <1>2, <1>3, <1>4, <1>5
       DEF Good, SentSummed, PlanHeld, InPlan, Current, Typed, CallStates
  <1>9. FillTold(r)'
    BY <1>1, <1>2, <1>3, <1>4, <1>5 DEF Good, FillTold, Typed
  <1>10. SentIsMarked(r)'
    BY <1>1, <1>2, <1>3, <1>4, <1>5
       DEF Good, SentIsMarked, SentIsMarkedAt, PlanHeld, InPlan, Typed, SliceIndex
  <1>11. RowTold(r)'
    BY <1>1, <1>2, <1>3, <1>4, <1>5
       DEF Good, RowTold, FillTold, PlanHeld, InPlan, Typed, SliceIndex, RowStates
  <1>12. PlansTypeOK'
    BY <1>1, <1>4, <1>5 DEF PlansTypeOK
  <1>13. Elsewhere(r)
    BY <1>4, <1>5 DEF Elsewhere
  <1>14. Onward(r)
    BY <1>3, <1>4, <1>5 DEF Onward
  <1> QED BY <1>7, <1>8, <1>9, <1>10, <1>11, <1>12, <1>13, <1>14 DEF Good

\* Without a native fallback the plan is not carried out.
LEMMA FetchRefusedKeeps ==
    ASSUME PlansAssumption, PlansInv, NEW r \in Requests, Fetch(r), planner # "sliced"
    PROVE  PlansTypeOK' /\ Good(r)' /\ Elsewhere(r) /\ Onward(r)
  <1>1. PlansTypeOK /\ Good(r) /\ Typed(r)
    BY TypesOfOne DEF PlansInv
  <1>2. MaxSlices \in Nat /\ Quantity \in Nat /\ Quantity >= 1
    BY DEF PlansAssumption
  <1>3. /\ call[r].at = "poll"
        /\ plan[r] = "succeeded"
        /\ planner # "sliced"
    BY DEF Fetch, PlanReady
  <1>4. /\ call'[r].at = "returned"
        /\ call'[r].pos = call[r].pos
        /\ call'[r].total = call[r].total
        /\ call'[r].reported = call[r].reported
        /\ call'[r].answer = "error"
        /\ \A q \in Requests : q # r => call'[q] = call[q]
        /\ call' \in [Requests -> Call]
    <2>1. call \in [Requests -> Call]
      BY <1>1 DEF PlansTypeOK
    <2>3. call' = [call EXCEPT ![r] = [call[r] EXCEPT !.at = "returned", !.answer = "error"]]
      BY <1>3 DEF Fetch, Return, CallAs
    <2> QED BY <2>1, <2>3, <1>2 DEF Call, CallStates
  <1>5. /\ planner' = planner /\ plan' = plan /\ slices' = slices /\ late' = late /\ expired' = expired
        /\ run' = run /\ decision' = decision /\ failing' = failing
        /\ sent' = sent /\ placed' = placed /\ filled' = filled /\ silent' = silent
        /\ faults' \in 0..MaxFaults
    BY <1>1, <1>3
       DEF Fetch, Fault, Write, PlansTypeOK, rowVars, clockVars, strategyVars, orderVars, PlansAssumption
  <1>6. /\ Written(r, "", FALSE, "failed")
        /\ \A q \in Requests : q # r =>
            request'[q] = request[q] /\ mark'[q] = mark[q] /\ lost'[q] = lost[q]
        /\ request' \in [Requests -> RowStates] /\ lost' \in [Requests -> Nat]
        /\ mark' \in [Requests -> [SliceIndex -> SliceStates]]
    <2>1. Write(r, "", FALSE, "failed")
      BY <1>3 DEF Fetch
    <2> QED BY <1>1, <2>1, WriteEffect DEF SliceStates, RowStates
  <1>7. PlanHeld(r)'
    BY <1>1, <1>2, <1>3, <1>4, <1>5, <1>6 DEF Good, PlanHeld, InPlan, Typed, RowStates, Written
  <1>8. SentSummed(r)'
    BY <1>1, <1>2, <1>3, <1>4, <1>5, <1>6
       DEF Good, SentSummed, PlanHeld, InPlan, Current, Typed, CallStates, Written
  <1>9. FillTold(r)'
    BY <1>1, <1>2, <1>3, <1>4, <1>5, <1>6 DEF Good, FillTold, Typed, Written
  <1>10. SentIsMarked(r)'
    <2>a. call'[r].at = "place" /\ mark'[r][call'[r].pos] \in {"pending", "revoked"} => lost'[r] >= 1
      BY <1>4
    <2> SUFFICES ASSUME NEW i \in placed'[r] PROVE SentIsMarkedAt(r, i)'
      BY <2>a DEF SentIsMarked, SentIsMarkedAt
    <2>1. /\ call[r].pos \in Nat /\ lost[r] \in Nat /\ lost'[r] \in Nat /\ lost'[r] >= lost[r]
          /\ Len(slices[r]) \in Nat /\ Len(slices[r]) <= MaxSlices
          /\ \A j \in placed[r] : j \in SliceIndex
      BY <1>1, <1>5, <1>6 DEF Typed, Written
    <2>2. /\ call[r].at \in InPlan => call[r].pos >= 1 /\ call[r].pos <= Len(slices[r])
          /\ call[r].at = "finish" => call[r].pos = Len(slices[r])
          /\ call[r].at = "poll" => call[r].pos = 0
      BY <1>1 DEF Good, PlanHeld
    <2>3. \A j \in placed[r] : SentIsMarkedAt(r, j)
      BY <1>1 DEF Good, SentIsMarked, SentIsMarkedAt
    <2>4. i \in placed[r] /\ i \in SliceIndex /\ i \in Nat
      BY <1>5, <2>1 DEF SliceIndex
    <2>5. SentIsMarkedAt(r, i)
      BY <2>3, <2>4
    <2>6. \/ "" # "" /\ i = call[r].pos /\ mark'[r][i] = ""
          \/ /\ \/ mark'[r][i] = mark[r][i]
                \/ FALSE /\ mark[r][i] = "pending" /\ mark'[r][i] = "revoked"
             /\ "" # "" /\ i = call[r].pos => lost'[r] >= lost[r] + 1
      BY <1>6, <2>4 DEF Written
    <2> QED
      BY <1>3, <1>4, <1>5, <2>1, <2>2, <2>4, <2>5, <2>6 DEF SentIsMarkedAt, InPlan
  <1>11. RowTold(r)'
    BY <1>1, <1>2, <1>3, <1>4, <1>5, <1>6
       DEF Good, RowTold, FillTold, PlanHeld, InPlan, Typed, SliceIndex, RowStates, Written
  <1>12. PlansTypeOK'
    BY <1>1, <1>4, <1>5, <1>6 DEF PlansTypeOK
  <1>13. Elsewhere(r)
    BY <1>4, <1>5, <1>6 DEF Elsewhere
  <1>14. Onward(r)
    BY <1>3, <1>4, <1>5 DEF Onward
  <1> QED BY <1>7, <1>8, <1>9, <1>10, <1>11, <1>12, <1>13, <1>14 DEF Good

\* A slice is filled.
LEMMA SliceAcceptedKeeps ==
    ASSUME PlansAssumption, PlansInv, NEW r \in Requests, Accepted(r), call[r].at = "placed"
    PROVE  PlansTypeOK' /\ Good(r)' /\ Elsewhere(r) /\ Onward(r)
  <1>1. PlansTypeOK /\ Good(r) /\ Typed(r)
    BY TypesOfOne DEF PlansInv
  <1>2. MaxSlices \in Nat /\ Quantity \in Nat /\ Quantity >= 1
    BY DEF PlansAssumption
  <1>3. /\ call[r].at = "placed"
    BY DEF Accepted
  <1>4. /\ call'[r].at = "record"
        /\ call'[r].pos = call[r].pos
        /\ call'[r].total = call[r].total
        /\ call'[r].answer = call[r].answer
        /\ silent' \subseteq Requests
        /\ \A q \in Requests : q # r => (q \in silent' <=> q \in silent)
        /\ r \in silent => r \in silent'
        /\ call'[r].reported \in Nat
        /\ \/ call'[r].reported = call[r].reported /\ r \in silent'
           \/ call'[r].reported = call[r].reported + InFlight(r)
        /\ InFlight(r) \in Nat
        /\ \A q \in Requests : q # r => call'[q] = call[q]
        /\ call' \in [Requests -> Call]
    <2>1. call \in [Requests -> Call]
      BY <1>1 DEF PlansTypeOK
    <2>2. InFlight(r) = Current(r).quantity /\ InFlight(r) \in Nat
      BY <1>1, <1>2, <1>3 DEF InFlight, Current, Typed, Good, PlanHeld, InPlan
    <2>3. PICK told \in BOOLEAN :
            /\ silent' = IF told THEN silent ELSE silent \cup {r}
            /\ call' = [call EXCEPT ![r] = [call[r] EXCEPT !.at = "record", !.answer = call[r].answer,
                    !.reported = IF told THEN call[r].reported + InFlight(r) ELSE call[r].reported]]
      BY <1>3 DEF Accepted, CallAs
    <2>4. call[r].reported \in Nat /\ call[r].reported + InFlight(r) \in Nat
      BY <1>1, <2>2 DEF Typed
    <2> DEFINE told_so == IF told THEN call[r].reported + InFlight(r) ELSE call[r].reported
    <2>a. told_so \in Nat
      BY <2>4, Zenon
    <2>b. call' = [call EXCEPT ![r] = [call[r] EXCEPT !.at = "record", !.answer = call[r].answer, !.reported = told_so]]
      BY <2>3
    <2>5. /\ call' \in [Requests -> Call]
          /\ \A q \in Requests : q # r => call'[q] = call[q]
          /\ call'[r] = [call[r] EXCEPT !.at = "record", !.answer = call[r].answer, !.reported = told_so]
      <3> HIDE DEF told_so
      <3> QED BY <2>1, <2>a, <2>b DEF Call, CallStates
    <2>6. /\ call'[r].at = "record" /\ call'[r].pos = call[r].pos /\ call'[r].total = call[r].total
          /\ call'[r].answer = call[r].answer
          /\ call'[r].reported = IF told THEN call[r].reported + InFlight(r) ELSE call[r].reported
      BY <1>1, <2>5 DEF Typed
    <2>7. /\ silent' \subseteq Requests
          /\ \A q \in Requests : q # r => (q \in silent' <=> q \in silent)
          /\ r \in silent => r \in silent'
          /\ ~told => r \in silent'
      BY <1>1, <2>3 DEF PlansTypeOK
    <2> QED
      BY <2>2, <2>4, <2>5, <2>6, <2>7
  <1>5. /\ planner' = planner /\ plan' = plan /\ slices' = slices /\ late' = late /\ expired' = expired
        /\ run' = run /\ decision' = decision /\ failing' = failing
        /\ request' = request /\ mark' = mark /\ lost' = lost /\ sent' = sent /\ placed' = placed
        /\ faults' \in 0..MaxFaults
    BY <1>1, <1>3
       DEF Accepted, Fault, Write, PlansTypeOK, rowVars, clockVars, strategyVars, orderVars, PlansAssumption
  <1>6. /\ filled'[r] = filled[r] + InFlight(r) /\ filled'[r] \in Nat /\ filled[r] \in Nat
        /\ filled' \in [Requests -> Nat]
        /\ \A q \in Requests : q # r => filled'[q] = filled[q]
    <2>1. filled' = [filled EXCEPT ![r] = filled[r] + InFlight(r)] /\ filled \in [Requests -> Nat]
      BY <1>1 DEF Accepted, PlansTypeOK
    <2> QED BY <1>4, <2>1
  <1>7. PlanHeld(r)'
    BY <1>1, <1>2, <1>3, <1>4, <1>5, <1>6 DEF Good, PlanHeld, InPlan, Typed, RowStates
  <1>8. SentSummed(r)'
    BY <1>1, <1>2, <1>3, <1>4, <1>5, <1>6
       DEF Good, SentSummed, PlanHeld, InPlan, Current, Typed, CallStates
  <1>9. FillTold(r)'
    BY <1>1, <1>2, <1>3, <1>4, <1>5, <1>6 DEF Good, FillTold, Typed
  <1>10. SentIsMarked(r)'
    BY <1>1, <1>2, <1>3, <1>4, <1>5, <1>6
       DEF Good, SentIsMarked, SentIsMarkedAt, PlanHeld, InPlan, Typed, SliceIndex
  <1>11. RowTold(r)'
    BY <1>1, <1>2, <1>3, <1>4, <1>5, <1>6
       DEF Good, RowTold, FillTold, PlanHeld, InPlan, Typed, SliceIndex, RowStates
  <1>12. PlansTypeOK'
    BY <1>1, <1>4, <1>5, <1>6 DEF PlansTypeOK
  <1>13. Elsewhere(r)
    BY <1>4, <1>5, <1>6 DEF Elsewhere
  <1>14. Onward(r)
    BY <1>3, <1>4, <1>5 DEF Onward
  <1> QED BY <1>7, <1>8, <1>9, <1>10, <1>11, <1>12, <1>13, <1>14 DEF Good

\* The whole order is filled.
LEMMA WholeAcceptedKeeps ==
    ASSUME PlansAssumption, PlansInv, NEW r \in Requests, Accepted(r), call[r].at = "native_sent"
    PROVE  PlansTypeOK' /\ Good(r)' /\ Elsewhere(r) /\ Onward(r)
  <1>1. PlansTypeOK /\ Good(r) /\ Typed(r)
    BY TypesOfOne DEF PlansInv
  <1>2. MaxSlices \in Nat /\ Quantity \in Nat /\ Quantity >= 1
    BY DEF PlansAssumption
  <1>3. /\ call[r].at = "native_sent"
    BY DEF Accepted
  <1>4. /\ call'[r].at = "returned"
        /\ call'[r].pos = call[r].pos
        /\ call'[r].total = call[r].total
        /\ call'[r].answer = "accepted"
        /\ silent' \subseteq Requests
        /\ \A q \in Requests : q # r => (q \in silent' <=> q \in silent)
        /\ r \in silent => r \in silent'
        /\ call'[r].reported \in Nat
        /\ \/ call'[r].reported = call[r].reported /\ r \in silent'
           \/ call'[r].reported = call[r].reported + InFlight(r)
        /\ InFlight(r) \in Nat
        /\ \A q \in Requests : q # r => call'[q] = call[q]
        /\ call' \in [Requests -> Call]
    <2>1. call \in [Requests -> Call]
      BY <1>1 DEF PlansTypeOK
    <2>2. InFlight(r) = Quantity /\ InFlight(r) \in Nat
      BY <1>1, <1>2, <1>3 DEF InFlight, Current, Typed, Good, PlanHeld, InPlan
    <2>3. PICK told \in BOOLEAN :
            /\ silent' = IF told THEN silent ELSE silent \cup {r}
            /\ call' = [call EXCEPT ![r] = [call[r] EXCEPT !.at = "returned", !.answer = "accepted",
                    !.reported = IF told THEN call[r].reported + InFlight(r) ELSE call[r].reported]]
      BY <1>3 DEF Accepted, CallAs
    <2>4. call[r].reported \in Nat /\ call[r].reported + InFlight(r) \in Nat
      BY <1>1, <2>2 DEF Typed
    <2> DEFINE told_so == IF told THEN call[r].reported + InFlight(r) ELSE call[r].reported
    <2>a. told_so \in Nat
      BY <2>4, Zenon
    <2>b. call' = [call EXCEPT ![r] = [call[r] EXCEPT !.at = "returned", !.answer = "accepted", !.reported = told_so]]
      BY <2>3
    <2>5. /\ call' \in [Requests -> Call]
          /\ \A q \in Requests : q # r => call'[q] = call[q]
          /\ call'[r] = [call[r] EXCEPT !.at = "returned", !.answer = "accepted", !.reported = told_so]
      <3> HIDE DEF told_so
      <3> QED BY <2>1, <2>a, <2>b DEF Call, CallStates
    <2>6. /\ call'[r].at = "returned" /\ call'[r].pos = call[r].pos /\ call'[r].total = call[r].total
          /\ call'[r].answer = "accepted"
          /\ call'[r].reported = IF told THEN call[r].reported + InFlight(r) ELSE call[r].reported
      BY <1>1, <2>5 DEF Typed
    <2>7. /\ silent' \subseteq Requests
          /\ \A q \in Requests : q # r => (q \in silent' <=> q \in silent)
          /\ r \in silent => r \in silent'
          /\ ~told => r \in silent'
      BY <1>1, <2>3 DEF PlansTypeOK
    <2> QED
      BY <2>2, <2>4, <2>5, <2>6, <2>7
  <1>5. /\ planner' = planner /\ plan' = plan /\ slices' = slices /\ late' = late /\ expired' = expired
        /\ run' = run /\ decision' = decision /\ failing' = failing
        /\ request' = request /\ mark' = mark /\ lost' = lost /\ sent' = sent /\ placed' = placed
        /\ faults' \in 0..MaxFaults
    BY <1>1, <1>3
       DEF Accepted, Fault, Write, PlansTypeOK, rowVars, clockVars, strategyVars, orderVars, PlansAssumption
  <1>6. /\ filled'[r] = filled[r] + InFlight(r) /\ filled'[r] \in Nat /\ filled[r] \in Nat
        /\ filled' \in [Requests -> Nat]
        /\ \A q \in Requests : q # r => filled'[q] = filled[q]
    <2>1. filled' = [filled EXCEPT ![r] = filled[r] + InFlight(r)] /\ filled \in [Requests -> Nat]
      BY <1>1 DEF Accepted, PlansTypeOK
    <2> QED BY <1>4, <2>1
  <1>7. PlanHeld(r)'
    BY <1>1, <1>2, <1>3, <1>4, <1>5, <1>6 DEF Good, PlanHeld, InPlan, Typed, RowStates
  <1>8. SentSummed(r)'
    BY <1>1, <1>2, <1>3, <1>4, <1>5, <1>6
       DEF Good, SentSummed, PlanHeld, InPlan, Current, Typed, CallStates
  <1>9. FillTold(r)'
    BY <1>1, <1>2, <1>3, <1>4, <1>5, <1>6 DEF Good, FillTold, Typed
  <1>10. SentIsMarked(r)'
    BY <1>1, <1>2, <1>3, <1>4, <1>5, <1>6
       DEF Good, SentIsMarked, SentIsMarkedAt, PlanHeld, InPlan, Typed, SliceIndex
  <1>11. RowTold(r)'
    BY <1>1, <1>2, <1>3, <1>4, <1>5, <1>6
       DEF Good, RowTold, FillTold, PlanHeld, InPlan, Typed, SliceIndex, RowStates
  <1>12. PlansTypeOK'
    BY <1>1, <1>4, <1>5, <1>6 DEF PlansTypeOK
  <1>13. Elsewhere(r)
    BY <1>4, <1>5, <1>6 DEF Elsewhere
  <1>14. Onward(r)
    BY <1>3, <1>4, <1>5 DEF Onward
  <1> QED BY <1>7, <1>8, <1>9, <1>10, <1>11, <1>12, <1>13, <1>14 DEF Good

\* A slice fails, or is in doubt.
LEMMA SliceNotAcceptedKeeps ==
    ASSUME PlansAssumption, PlansInv, NEW r \in Requests, NotAccepted(r), call[r].at = "placed"
    PROVE  PlansTypeOK' /\ Good(r)' /\ Elsewhere(r) /\ Onward(r)
  <1>1. PlansTypeOK /\ Good(r) /\ Typed(r)
    BY TypesOfOne DEF PlansInv
  <1>2. MaxSlices \in Nat /\ Quantity \in Nat /\ Quantity >= 1
    BY DEF PlansAssumption
  <1>3. /\ call[r].at = "placed"
    BY DEF NotAccepted
  <1>4. /\ call'[r].at = "fail"
        /\ call'[r].pos = call[r].pos
        /\ call'[r].total = call[r].total
        /\ call'[r].reported = call[r].reported
        /\ call'[r].answer = call[r].answer
        /\ \A q \in Requests : q # r => call'[q] = call[q]
        /\ call' \in [Requests -> Call]
    <2>1. call \in [Requests -> Call]
      BY <1>1 DEF PlansTypeOK
    <2>2. call' = [call EXCEPT ![r] = [call[r] EXCEPT !.at = "fail"]]
      BY <1>3 DEF NotAccepted, GoTo, Return, CallAs
    <2> QED BY <2>1, <2>2 DEF Call, CallStates
  <1>5. /\ planner' = planner /\ plan' = plan /\ slices' = slices /\ late' = late /\ expired' = expired
        /\ run' = run /\ decision' = decision /\ failing' = failing
        /\ request' = request /\ mark' = mark /\ lost' = lost /\ sent' = sent
        /\ placed' = placed /\ silent' = silent
        /\ faults' \in 0..MaxFaults
    BY <1>1, <1>3
       DEF NotAccepted, Fault, Write, PlansTypeOK, rowVars, clockVars, strategyVars, orderVars, PlansAssumption
  <1>6. /\ filled'[r] >= filled[r] /\ filled'[r] \in Nat /\ filled[r] \in Nat
        /\ filled' \in [Requests -> Nat]
        /\ \A q \in Requests : q # r => filled'[q] = filled[q]
    <2>1. InFlight(r) \in Nat
      BY <1>1, <1>2, <1>3 DEF InFlight, Current, Typed, Good, PlanHeld, InPlan
    <2>2. PICK n \in {0, InFlight(r)} : filled' = [filled EXCEPT ![r] = filled[r] + n]
      BY DEF NotAccepted
    <2>3. filled \in [Requests -> Nat] /\ n \in Nat
      BY <1>1, <2>1, <2>2 DEF PlansTypeOK
    <2> QED BY <2>2, <2>3
  <1>7. PlanHeld(r)'
    BY <1>1, <1>2, <1>3, <1>4, <1>5, <1>6 DEF Good, PlanHeld, InPlan, Typed, RowStates
  <1>8. SentSummed(r)'
    BY <1>1, <1>2, <1>3, <1>4, <1>5, <1>6
       DEF Good, SentSummed, PlanHeld, InPlan, Current, Typed, CallStates
  <1>9. FillTold(r)'
    BY <1>1, <1>2, <1>3, <1>4, <1>5, <1>6 DEF Good, FillTold, Typed
  <1>10. SentIsMarked(r)'
    BY <1>1, <1>2, <1>3, <1>4, <1>5, <1>6
       DEF Good, SentIsMarked, SentIsMarkedAt, PlanHeld, InPlan, Typed, SliceIndex
  <1>11. RowTold(r)'
    BY <1>1, <1>2, <1>3, <1>4, <1>5, <1>6
       DEF Good, RowTold, FillTold, PlanHeld, InPlan, Typed, SliceIndex, RowStates
  <1>12. PlansTypeOK'
    BY <1>1, <1>4, <1>5, <1>6 DEF PlansTypeOK
  <1>13. Elsewhere(r)
    BY <1>4, <1>5, <1>6 DEF Elsewhere
  <1>14. Onward(r)
    BY <1>3, <1>4, <1>5 DEF Onward
  <1> QED BY <1>7, <1>8, <1>9, <1>10, <1>11, <1>12, <1>13, <1>14 DEF Good

\* The whole order fails, or is in doubt.
LEMMA WholeNotAcceptedKeeps ==
    ASSUME PlansAssumption, PlansInv, NEW r \in Requests, NotAccepted(r), call[r].at = "native_sent"
    PROVE  PlansTypeOK' /\ Good(r)' /\ Elsewhere(r) /\ Onward(r)
  <1>1. PlansTypeOK /\ Good(r) /\ Typed(r)
    BY TypesOfOne DEF PlansInv
  <1>2. MaxSlices \in Nat /\ Quantity \in Nat /\ Quantity >= 1
    BY DEF PlansAssumption
  <1>3. /\ call[r].at = "native_sent"
    BY DEF NotAccepted
  <1>4. /\ call'[r].at = "returned"
        /\ call'[r].pos = call[r].pos
        /\ call'[r].total = call[r].total
        /\ call'[r].reported = call[r].reported
        /\ call'[r].answer = "error"
        /\ \A q \in Requests : q # r => call'[q] = call[q]
        /\ call' \in [Requests -> Call]
    <2>1. call \in [Requests -> Call]
      BY <1>1 DEF PlansTypeOK
    <2>2. call' = [call EXCEPT ![r] = [call[r] EXCEPT !.at = "returned", !.answer = "error"]]
      BY <1>3 DEF NotAccepted, GoTo, Return, CallAs
    <2> QED BY <2>1, <2>2 DEF Call, CallStates
  <1>5. /\ planner' = planner /\ plan' = plan /\ slices' = slices /\ late' = late /\ expired' = expired
        /\ run' = run /\ decision' = decision /\ failing' = failing
        /\ request' = request /\ mark' = mark /\ lost' = lost /\ sent' = sent
        /\ placed' = placed /\ silent' = silent
        /\ faults' \in 0..MaxFaults
    BY <1>1, <1>3
       DEF NotAccepted, Fault, Write, PlansTypeOK, rowVars, clockVars, strategyVars, orderVars, PlansAssumption
  <1>6. /\ filled'[r] >= filled[r] /\ filled'[r] \in Nat /\ filled[r] \in Nat
        /\ filled' \in [Requests -> Nat]
        /\ \A q \in Requests : q # r => filled'[q] = filled[q]
    <2>1. InFlight(r) \in Nat
      BY <1>1, <1>2, <1>3 DEF InFlight, Current, Typed, Good, PlanHeld, InPlan
    <2>2. PICK n \in {0, InFlight(r)} : filled' = [filled EXCEPT ![r] = filled[r] + n]
      BY DEF NotAccepted
    <2>3. filled \in [Requests -> Nat] /\ n \in Nat
      BY <1>1, <2>1, <2>2 DEF PlansTypeOK
    <2> QED BY <2>2, <2>3
  <1>7. PlanHeld(r)'
    BY <1>1, <1>2, <1>3, <1>4, <1>5, <1>6 DEF Good, PlanHeld, InPlan, Typed, RowStates
  <1>8. SentSummed(r)'
    BY <1>1, <1>2, <1>3, <1>4, <1>5, <1>6
       DEF Good, SentSummed, PlanHeld, InPlan, Current, Typed, CallStates
  <1>9. FillTold(r)'
    BY <1>1, <1>2, <1>3, <1>4, <1>5, <1>6 DEF Good, FillTold, Typed
  <1>10. SentIsMarked(r)'
    BY <1>1, <1>2, <1>3, <1>4, <1>5, <1>6
       DEF Good, SentIsMarked, SentIsMarkedAt, PlanHeld, InPlan, Typed, SliceIndex
  <1>11. RowTold(r)'
    BY <1>1, <1>2, <1>3, <1>4, <1>5, <1>6
       DEF Good, RowTold, FillTold, PlanHeld, InPlan, Typed, SliceIndex, RowStates
  <1>12. PlansTypeOK'
    BY <1>1, <1>4, <1>5, <1>6 DEF PlansTypeOK
  <1>13. Elsewhere(r)
    BY <1>4, <1>5, <1>6 DEF Elsewhere
  <1>14. Onward(r)
    BY <1>3, <1>4, <1>5 DEF Onward
  <1> QED BY <1>7, <1>8, <1>9, <1>10, <1>11, <1>12, <1>13, <1>14 DEF Good

----------------------------------------------------------------------------
(* What the watchers, the strategy runs and time do.                       *)

\* No call changes; a request that was pending may be decided, a plan may come or get ready.
Around(r) ==
    /\ planner' = planner /\ call' = call /\ lost' = lost /\ mark' = mark
    /\ sent' = sent /\ placed' = placed /\ filled' = filled /\ silent' = silent
    /\ \/ request'[r] = request[r]
       \/ request[r] = "pending" /\ request'[r] \in {"expired", "failed"}
    /\ \/ plan'[r] = plan[r] /\ slices'[r] = slices[r]
       \/ plan[r] = "running" /\ plan'[r] = "succeeded" /\ slices'[r] = slices[r]
       \/ plan[r] = "none" /\ request[r] = "pending" /\ slices'[r] # <<>>

\* A call stays good whatever goes on around it.
LEMMA GoodAround ==
    ASSUME NEW r \in Requests, Good(r), Typed(r), Around(r)
    PROVE  Good(r)'
  <1>1. /\ planner' = planner /\ call' = call /\ lost' = lost /\ mark' = mark
        /\ sent' = sent /\ placed' = placed /\ filled' = filled /\ silent' = silent
    BY DEF Around
  <1>2. \/ request'[r] = request[r]
        \/ request[r] = "pending" /\ request'[r] \in {"expired", "failed"}
    BY DEF Around
  <1>3. \/ plan'[r] = plan[r] /\ slices'[r] = slices[r]
        \/ plan[r] = "running" /\ plan'[r] = "succeeded" /\ slices'[r] = slices[r]
        \/ plan[r] = "none" /\ request[r] = "pending" /\ slices'[r] # <<>>
    BY DEF Around
  <1>4. call[r].at \in InPlan => slices'[r] = slices[r] /\ plan'[r] = plan[r]
    BY <1>3 DEF Good, PlanHeld
  <1>5. PlanHeld(r)'
    BY <1>1, <1>2, <1>3, <1>4 DEF Good, PlanHeld, InPlan
  <1>6. SentSummed(r)'
    BY <1>1, <1>4 DEF Good, SentSummed, Current, InPlan
  <1>7. FillTold(r)' /\ SentIsMarked(r)'
    BY <1>1 DEF Good, FillTold, SentIsMarked, SentIsMarkedAt
  <1>8. RowTold(r)'
    BY <1>1, <1>2, <1>3, <1>4 DEF Good, RowTold, InPlan
  <1> QED BY <1>5, <1>6, <1>7, <1>8 DEF Good

\* The variables of which the others change none.
LEMMA OthersLeave ==
    ASSUME PlansTypeOK, OthersStep
    PROVE  /\ planner' = planner /\ call' = call /\ lost' = lost /\ mark' = mark
           /\ sent' = sent /\ placed' = placed /\ filled' = filled /\ silent' = silent
  <1> USE DEF rowVars, clockVars, strategyVars, orderVars
  <1>1. ASSUME NEW w \in Watchers, WatcherPlans(w) \/ WatcherFails(w) \/ WatcherMarksFailed(w)
        PROVE  /\ planner' = planner /\ call' = call /\ lost' = lost /\ mark' = mark
               /\ sent' = sent /\ placed' = placed /\ filled' = filled /\ silent' = silent
    BY <1>1 DEF WatcherPlans, WatcherFails, WatcherMarksFailed
  <1>2. ASSUME NEW r \in Requests,
               PublishPlan(r) \/ StoreOwnPlan(r) \/ DeadlinePasses(r) \/ PlanExpires(r)
        PROVE  /\ planner' = planner /\ call' = call /\ lost' = lost /\ mark' = mark
               /\ sent' = sent /\ placed' = placed /\ filled' = filled /\ silent' = silent
    BY <1>2 DEF PublishPlan, StoreOwnPlan, DeadlinePasses, PlanExpires
  <1>3. CASE StartRun \/ CompleteRun \/ FailRun
    BY <1>3 DEF StartRun, CompleteRun, FailRun
  <1> QED BY <1>1, <1>2, <1>3 DEF OthersStep

\* What they do to the rows, and the types of what else they change.
RowsAround ==
    /\ \A r \in Requests :
        /\ \/ request'[r] = request[r]
           \/ request[r] = "pending" /\ request'[r] \in {"expired", "failed"}
        /\ \/ plan'[r] = plan[r] /\ slices'[r] = slices[r]
           \/ plan[r] = "running" /\ plan'[r] = "succeeded" /\ slices'[r] = slices[r]
           \/ plan[r] = "none" /\ request[r] = "pending" /\ slices'[r] # <<>>
    /\ request' \in [Requests -> RowStates]
    /\ plan' \in [Requests -> {"none", "running", "succeeded"}]
    /\ DOMAIN slices' = Requests
    /\ \A r \in Requests : slices'[r] \in Seq(Slice) /\ Len(slices'[r]) <= MaxSlices

\* When only the plan of one request is new.
LEMMA NewPlan ==
    ASSUME PlansTypeOK, NEW r \in Requests, NEW s \in Seq(Slice), Len(s) <= MaxSlices, s # <<>>,
           NEW status \in {"running", "succeeded"},
           request[r] = "pending", plan[r] = "none", request' = request,
           slices' = [slices EXCEPT ![r] = s], plan' = [plan EXCEPT ![r] = status]
    PROVE  RowsAround
  <1>1. /\ request \in [Requests -> RowStates]
        /\ plan \in [Requests -> {"none", "running", "succeeded"}]
        /\ DOMAIN slices = Requests
        /\ \A q \in Requests : slices[q] \in Seq(Slice) /\ Len(slices[q]) <= MaxSlices
    BY DEF PlansTypeOK
  <1>2. /\ slices'[r] = s /\ DOMAIN slices' = Requests
        /\ \A q \in Requests : q # r => slices'[q] = slices[q] /\ plan'[q] = plan[q]
        /\ plan' \in [Requests -> {"none", "running", "succeeded"}]
    BY <1>1
  <1> QED BY <1>1, <1>2 DEF RowsAround

\* The rows, in the watchers' transactions.
LEMMA WatcherRows ==
    ASSUME PlansAssumption, PlansTypeOK, NEW w \in Watchers,
           WatcherPlans(w) \/ WatcherFails(w) \/ WatcherMarksFailed(w)
    PROVE  /\ RowsAround /\ failing' \in [Watchers -> Requests \cup {0}]
           /\ faults' \in 0..MaxFaults
           /\ late' = late /\ expired' = expired /\ run' = run /\ decision' = decision
  <1> USE DEF rowVars, clockVars, strategyVars, orderVars
  <1>0. /\ request \in [Requests -> RowStates]
        /\ plan \in [Requests -> {"none", "running", "succeeded"}]
        /\ DOMAIN slices = Requests
        /\ \A q \in Requests : slices[q] \in Seq(Slice) /\ Len(slices[q]) <= MaxSlices
        /\ failing \in [Watchers -> Requests \cup {0}]
        /\ faults \in 0..MaxFaults /\ MaxFaults \in Nat
    BY DEF PlansTypeOK, PlansAssumption
  <1>1. CASE WatcherPlans(w)
    <2>1. PICK r \in Requests :
            /\ Selects(r)
            /\ IF r \in late
               THEN request' = [request EXCEPT ![r] = "expired"] /\ UNCHANGED <<plan, slices>>
               ELSE /\ \E n \in SliceCounts : slices' = [slices EXCEPT ![r] = PlanOf(n)]
                    /\ plan' = [plan EXCEPT ![r] = "running"]
                    /\ UNCHANGED request
      BY <1>1 DEF WatcherPlans
    <2>2. request[r] = "pending" /\ plan[r] = "none"
      BY <2>1 DEF Selects
    <2>3. CASE r \in late
      <3>1. request' = [request EXCEPT ![r] = "expired"] /\ plan' = plan /\ slices' = slices
        BY <2>1, <2>3
      <3>2. RowsAround
        BY <1>0, <2>2, <3>1 DEF RowsAround, RowStates
      <3> QED BY <1>0, <1>1, <3>2 DEF WatcherPlans
    <2>4. CASE r \notin late
      <3>1. PICK n \in SliceCounts : slices' = [slices EXCEPT ![r] = PlanOf(n)]
        BY <2>1, <2>4
      <3>2. PlanOf(n) \in Seq(Slice) /\ Len(PlanOf(n)) \in 1..MaxSlices
        BY PlanOfIsPlan
      <3>3. PlanOf(n) # <<>> /\ Len(PlanOf(n)) <= MaxSlices
        BY <3>2 DEF PlansAssumption
      <3>4. plan' = [plan EXCEPT ![r] = "running"] /\ request' = request
        BY <2>1, <2>4
      <3>5. RowsAround
        BY <2>2, <3>1, <3>2, <3>3, <3>4, NewPlan
      <3> QED BY <1>0, <1>1, <3>5 DEF WatcherPlans
    <2> QED BY <2>3, <2>4
  <1>2. CASE WatcherFails(w)
    <2>1. RowsAround
      BY <1>0, <1>2 DEF WatcherFails, RowsAround
    <2>2. failing' \in [Watchers -> Requests \cup {0}] /\ faults' \in 0..MaxFaults
      BY <1>0, <1>2 DEF WatcherFails, Fault
    <2> QED BY <1>2, <2>1, <2>2 DEF WatcherFails
  <1>3. CASE WatcherMarksFailed(w)
    <2>1. \/ request' = request
          \/ /\ request[failing[w]] = "pending"
             /\ request' = [request EXCEPT ![failing[w]] = "failed"]
      BY <1>3 DEF WatcherMarksFailed, StillPending
    <2>2. failing[w] \in Requests /\ plan' = plan /\ slices' = slices
      BY <1>0, <1>3 DEF WatcherMarksFailed
    <2>3. RowsAround
      BY <1>0, <2>1, <2>2 DEF RowsAround, RowStates
    <2>4. failing' \in [Watchers -> Requests \cup {0}]
      BY <1>0, <1>3 DEF WatcherMarksFailed
    <2> QED BY <1>0, <1>3, <2>3, <2>4 DEF WatcherMarksFailed
  <1> QED BY <1>1, <1>2, <1>3

\* The others keep the types, and go on around the calls.
LEMMA OthersKeep ==
    ASSUME PlansAssumption, PlansTypeOK, OthersStep
    PROVE  PlansTypeOK' /\ \A r \in Requests : Around(r)
  <1> USE DEF rowVars, clockVars, strategyVars, orderVars
  <1> DEFINE Rest == /\ late' \subseteq Requests /\ expired' \subseteq Requests
                     /\ failing' \in [Watchers -> Requests \cup {0}]
                     /\ run' \in {"none", "running", "succeeded", "failed"}
                     /\ decision' \in [says : {"none", "for", "against"}, runs : 0..MaxRuns]
                     /\ faults' \in 0..MaxFaults
  <1>0. /\ request \in [Requests -> RowStates]
        /\ plan \in [Requests -> {"none", "running", "succeeded"}]
        /\ DOMAIN slices = Requests
        /\ \A q \in Requests : slices[q] \in Seq(Slice) /\ Len(slices[q]) <= MaxSlices
        /\ late \subseteq Requests /\ expired \subseteq Requests
        /\ failing \in [Watchers -> Requests \cup {0}]
        /\ run \in {"none", "running", "succeeded", "failed"}
        /\ decision \in [says : {"none", "for", "against"}, runs : 0..MaxRuns]
        /\ faults \in 0..MaxFaults /\ MaxFaults \in Nat /\ MaxRuns \in Nat
    BY DEF PlansTypeOK, PlansAssumption
  <1>1. ASSUME NEW w \in Watchers, WatcherPlans(w) \/ WatcherFails(w) \/ WatcherMarksFailed(w)
        PROVE  RowsAround /\ Rest
    BY <1>0, <1>1, WatcherRows
  <1>2. ASSUME NEW r \in Requests, PublishPlan(r)
        PROVE  RowsAround /\ Rest
    BY <1>0, <1>2 DEF PublishPlan, RowsAround
  <1>3. ASSUME NEW r \in Requests, StoreOwnPlan(r)
        PROVE  RowsAround /\ Rest
    <2>1. PICK p \in OwnPlans : slices' = [slices EXCEPT ![r] = p]
      BY <1>3 DEF StoreOwnPlan
    <2>2. p \in Seq(Slice) /\ p # <<>> /\ Len(p) <= MaxSlices
      BY <2>1 DEF PlansAssumption
    <2>3. /\ plan' = [plan EXCEPT ![r] = "succeeded"] /\ request' = request
          /\ request[r] = "pending" /\ plan[r] = "none"
      BY <1>3 DEF StoreOwnPlan
    <2>4. RowsAround
      BY <2>1, <2>2, <2>3, NewPlan
    <2> QED BY <1>0, <1>3, <2>4 DEF StoreOwnPlan
  <1>4. ASSUME NEW r \in Requests, DeadlinePasses(r) \/ PlanExpires(r)
        PROVE  RowsAround /\ Rest
    BY <1>0, <1>4 DEF DeadlinePasses, PlanExpires, RowsAround
  <1>5. ASSUME StartRun \/ CompleteRun \/ FailRun
        PROVE  RowsAround /\ Rest
    <2>1. RowsAround
      BY <1>0, <1>5 DEF StartRun, CompleteRun, FailRun, RowsAround
    <2>2. Rest
      BY <1>0, <1>5 DEF StartRun, CompleteRun, FailRun, Fault
    <2> QED BY <2>1, <2>2
  <1>6. RowsAround /\ Rest
    BY <1>1, <1>2, <1>3, <1>4, <1>5 DEF OthersStep
  <1>7. \A r \in Requests : Around(r)
    BY <1>6, OthersLeave DEF Around, RowsAround
  <1>8. PlansTypeOK'
    BY <1>6, OthersLeave DEF PlansTypeOK, RowsAround
  <1> QED BY <1>7, <1>8

----------------------------------------------------------------------------
(* The invariant.                                                          *)

\* Every step of a call is one of the lemmas above.
LEMMA CallKeeps ==
    ASSUME PlansAssumption, PlansInv, NEW r \in Requests, Begins(r) \/ CallStep(r)
    PROVE  PlansTypeOK' /\ Good(r)' /\ Elsewhere(r) /\ Onward(r)
  <1>1. CASE Begins(r)
    BY <1>1, ExecuteNativelyKeeps, ExecuteKeeps, CannotExecuteKeeps DEF Begins
  <1>2. CASE PlaceWhole(r) \/ Expire(r) \/ AwaitDue(r) \/ AskDecision(r)
    BY <1>2, PlaceWholeKeeps, ExpireKeeps, AwaitDueKeeps, AskDecisionKeeps
  <1>3. CASE Fetch(r)
    BY <1>3, FetchKeeps, FetchRefusedKeeps
  <1>4. CASE RejectSlice(r) \/ RejectExcess(r) \/ Revoke(r) \/ FailSlice(r)
    BY <1>4, RejectSliceKeeps, RejectExcessKeeps, RevokeKeeps, FailSliceKeeps
  <1>5. CASE MarkSubmitted(r) \/ PlaceSlice(r) \/ RecordFilled(r) \/ Finish(r)
    BY <1>5, MarkSubmittedKeeps, PlaceSliceKeeps, RecordFilledKeeps, FinishKeeps
  <1>6. CASE Accepted(r)
    <2>1. call[r].at = "placed" \/ call[r].at = "native_sent"
      BY <1>6 DEF Accepted
    <2> QED BY <1>6, <2>1, SliceAcceptedKeeps, WholeAcceptedKeeps
  <1>7. CASE NotAccepted(r)
    <2>1. call[r].at = "placed" \/ call[r].at = "native_sent"
      BY <1>7 DEF NotAccepted
    <2> QED BY <1>7, <2>1, SliceNotAcceptedKeeps, WholeNotAcceptedKeeps
  <1> QED BY <1>1, <1>2, <1>3, <1>4, <1>5, <1>6, <1>7 DEF CallStep

\* It holds at first.
LEMMA PlansInvInit ==
    ASSUME PlansAssumption, PlansInit
    PROVE  PlansInv
  <1> USE DEF PlansAssumption, PlansInit, NewCall
  <1>1. PlansTypeOK
    <2>1. slices = [r \in Requests |-> <<>>] /\ \A r \in Requests : slices[r] = <<>>
      OBVIOUS
    <2>2. \A r \in Requests : slices[r] \in Seq(Slice) /\ Len(slices[r]) <= MaxSlices
      BY <2>1
    <2>3. call \in [Requests -> Call]
      BY DEF Call, CallStates
    <2>4. mark \in [Requests -> [SliceIndex -> SliceStates]]
      BY DEF SliceStates
    <2>5. request \in [Requests -> RowStates]
      BY DEF RowStates
    <2> QED BY <2>1, <2>2, <2>3, <2>4, <2>5 DEF PlansTypeOK
  <1>2. ASSUME NEW r \in Requests PROVE Good(r)
    <2>1. /\ call[r].at = "idle" /\ call[r].pos = 0 /\ call[r].total = 0 /\ call[r].reported = 0
          /\ call[r].answer = "none" /\ request[r] = "none" /\ plan[r] = "none"
          /\ sent[r] = 0 /\ placed[r] = {} /\ filled[r] = 0
      OBVIOUS
    <2>2. PlanHeld(r) /\ SentSummed(r) /\ FillTold(r)
      BY <2>1 DEF PlanHeld, SentSummed, FillTold, InPlan
    <2>3. SentIsMarked(r) /\ RowTold(r)
      BY <2>1 DEF SentIsMarked, RowTold, InPlan
    <2> QED BY <2>2, <2>3 DEF Good
  <1> QED BY <1>1, <1>2 DEF PlansInv

\* Every step keeps it.
LEMMA PlansInvKept ==
    ASSUME PlansAssumption, PlansInv, [PlansNext]_plansVars
    PROVE  PlansInv'
  <1>1. ASSUME NEW r \in Requests, Begins(r) \/ CallStep(r) PROVE PlansInv'
    <2>1. PlansTypeOK' /\ Good(r)' /\ Elsewhere(r)
      BY <1>1, CallKeeps
    <2>2. \A q \in Requests : q # r => Good(q)'
      BY <2>1, GoodElsewhere DEF PlansInv
    <2> QED BY <2>1, <2>2 DEF PlansInv
  <1>2. CASE OthersStep
    <2>1. PlansTypeOK' /\ \A r \in Requests : Around(r)
      BY <1>2, OthersKeep DEF PlansInv
    <2>2. \A r \in Requests : Good(r)'
      BY <2>1, GoodAround, TypesOfOne DEF PlansInv
    <2> QED BY <2>1, <2>2 DEF PlansInv
  <1>3. CASE UNCHANGED plansVars
    <2>1. PlansTypeOK'
      BY <1>3 DEF PlansInv, PlansTypeOK, plansVars, rowVars, clockVars, strategyVars, orderVars
    <2>2. \A r \in Requests : Around(r)
      BY <1>3 DEF Around, plansVars, rowVars, clockVars, strategyVars, orderVars
    <2>3. \A r \in Requests : Good(r)'
      BY <2>2, GoodAround, TypesOfOne DEF PlansInv
    <2> QED BY <2>1, <2>3 DEF PlansInv
  <1> QED BY <1>1, <1>2, <1>3 DEF PlansNext

----------------------------------------------------------------------------
(* The theorems.                                                           *)

\* The invariant holds of every behaviour.
THEOREM PlansInvariant == PlansSpec => []PlansInv
  <1>1. PlansInit => PlansInv
    BY PlansInvInit, PlansAssumption
  <1>2. PlansInv /\ [PlansNext]_plansVars => PlansInv'
    BY PlansInvKept, PlansAssumption
  <1> QED BY <1>1, <1>2, PTL DEF PlansSpec

\* Rows and calls keep their types: a call is always at a slice its plan has, and what it has
\* counted never exceeds the approved quantity.
THEOREM PlansTyped == PlansSpec => []PlansTypeOK
  <1>1. PlansInv => PlansTypeOK
    BY DEF PlansInv
  <1> QED BY <1>1, PlansInvariant, PTL

\* What is still pending or revoked in the database after the call was not sent, unless two
\* UPDATEs were lost.
THEOREM RevokedWasNeverSent == PlansSpec => []RevokedWasNotSent
  <1>1. PlansInv => RevokedWasNotSent
    BY DEF PlansInv, Good, SentIsMarked, SentIsMarkedAt, RevokedWasNotSent
  <1> QED BY <1>1, PlansInvariant, PTL

\* The row of a request tells how its call ended, whatever the watchers do.
THEOREM RowsTellTheAnswer == PlansSpec => []RequestRowIsAnswer
  <1>1. PlansInv => RequestRowIsAnswer
    <2> SUFFICES ASSUME PlansInv, NEW r \in Requests, call[r].at = "returned", lost[r] = 0,
                        request[r] # "none"
                 PROVE  /\ request[r] \in (IF call[r].answer = "accepted"
                                THEN {"succeeded", "expired"} ELSE {"failed", "expired"})
                        /\ request[r] = "succeeded" =>
                                \A i \in DOMAIN slices[r] : mark[r][i] = "filled"
      BY DEF RequestRowIsAnswer
    <2>1. RowTold(r)
      BY DEF PlansInv, Good
    <2> QED BY <2>1 DEF RowTold
  <1> QED BY <1>1, PlansInvariant, PTL

\* The executed quantity of an accepted answer is what was filled, or less after a silent
\* acknowledgement.
THEOREM AnswersTellTheFill == PlansSpec => []AnswerTellsFill
  <1>1. PlansInv => AnswerTellsFill
    BY DEF PlansInv, Good, FillTold, AnswerTellsFill
  <1> QED BY <1>1, PlansInvariant, PTL

----------------------------------------------------------------------------
(* The refinement.                                                         *)

\* A step of a call is a step of the market order, or none.
LEMMA CallImplements ==
    ASSUME PlansAssumption, PlansInv, NEW r \in Requests, Begins(r) \/ CallStep(r)
    PROVE  [Market!MarketNext]_(Market!marketVars)
  <1>1. PlansTypeOK' /\ Good(r)' /\ Elsewhere(r) /\ Onward(r)
    BY CallKeeps
  <1>2. \A q \in Requests : q # r => Phase(q)' = Phase(q)
    BY <1>1 DEF Elsewhere, Phase
  <1> DEFINE p == [q \in Requests |-> Phase(q)]
  <1>3. p' = [p EXCEPT ![r] = Phase(r)']
    BY <1>2
  <1>4. p[r] = Phase(r) /\ p'[r] = Phase(r)'
    OBVIOUS
  <1>5. /\ Phase(r) \in {"idle", "open"} /\ Phase(r)' \in {"open", "returned"}
    BY <1>1 DEF Onward, Phase
  <1>6. CASE sent' = sent
    <2>1. CASE Phase(r)' = "returned"
      <3>1. Market!Return(r)
        BY <1>3, <1>4, <1>5, <1>6, <2>1 DEF Market!Return
      <3> QED BY <3>1 DEF Market!MarketNext
    <2>2. CASE Phase(r)' = "open" /\ Phase(r) = "idle"
      <3>1. Market!Begin(r)
        BY <1>3, <1>4, <1>6, <2>2 DEF Market!Begin
      <3> QED BY <3>1 DEF Market!MarketNext
    <2>3. CASE Phase(r)' = "open" /\ Phase(r) = "open"
      <3>1. \A q \in Requests : Phase(q)' = Phase(q)
        BY <1>2, <2>3
      <3>2. p' = p
        BY <3>1
      <3> QED BY <1>6, <3>2 DEF Market!marketVars
    <2> QED BY <1>5, <2>1, <2>2, <2>3
  <1>7. CASE sent' # sent
    <2>1. /\ call[r].at # "idle" /\ call'[r].at # "returned"
          /\ sent' = [sent EXCEPT ![r] = sent'[r]] /\ sent'[r] >= sent[r]
      BY <1>1, <1>7 DEF Onward
    <2>2. Phase(r) = "open" /\ Phase(r)' = "open"
      BY <1>5, <2>1 DEF Phase
    <2>a. \A q \in Requests : Phase(q)' = Phase(q)
      BY <1>2, <2>2
    <2>3. p' = p
      BY <2>a
    <2>4. /\ sent \in [Requests -> Nat] /\ sent' \in [Requests -> Nat] /\ sent'[r] <= Quantity
          /\ Quantity \in Nat
      BY <1>1 DEF PlansInv, PlansTypeOK, Good, SentSummed, PlansAssumption
    <2>5. sent'[r] # sent[r]
      BY <1>7, <2>1, <2>4
    <2>6. sent'[r] \in sent[r] + 1 .. Quantity
      BY <2>1, <2>4, <2>5
    <2>7. Market!Send(r)
      BY <1>4, <2>1, <2>2, <2>3, <2>6 DEF Market!Send
    <2> QED BY <2>7 DEF Market!MarketNext
  <1> QED BY <1>6, <1>7

\* A planned market order is one market order: never more than was approved, nothing after the
\* answer, whatever the plans and decisions are.
THEOREM PlansImplementMarket == PlansSpec => Implements
  <1>1. PlansInit => Market!MarketInit
    BY DEF PlansInit, NewCall, Market!MarketInit, Phase
  <1>2. PlansInv /\ [PlansNext]_plansVars => [Market!MarketNext]_(Market!marketVars)
    <2> SUFFICES ASSUME PlansInv, [PlansNext]_plansVars
                 PROVE  [Market!MarketNext]_(Market!marketVars)
      OBVIOUS
    <2>1. ASSUME NEW r \in Requests, Begins(r) \/ CallStep(r)
          PROVE  [Market!MarketNext]_(Market!marketVars)
      BY <2>1, CallImplements, PlansAssumption
    <2>2. CASE OthersStep
      <3>1. call' = call /\ sent' = sent
        BY <2>2, OthersLeave DEF PlansInv
      <3> QED BY <3>1 DEF Market!marketVars, Phase
    <2>3. CASE UNCHANGED plansVars
      BY <2>3 DEF plansVars, orderVars, Market!marketVars, Phase
    <2> QED BY <2>1, <2>2, <2>3 DEF PlansNext
  <1> QED BY <1>1, <1>2, PlansInvariant, PTL DEF PlansSpec, Implements, Market!MarketSpec
=============================================================================
