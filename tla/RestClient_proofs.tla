-------------------------- MODULE RestClient_proofs --------------------------
(***************************************************************************)
(* The calls of a RestClient use the gate as it is meant to be used, so    *)
(* what holds of the gate holds of them; no call but a refused one is ever *)
(* sent twice, so the venue carries out an order at most once; what is     *)
(* reserved with the limiter is given back; and on a pool of one thread    *)
(* nobody sleeps with the gate granted to it.                              *)
(*                                                                         *)
(* The second needs OnceInv: a call that may still be sent (it is on its   *)
(* way to the session, it reads the server's clock, or it was refused for  *)
(* its timestamp) has not been carried out yet.  The third needs what the  *)
(* sum of a set's costs becomes when a call joins or leaves the set, which *)
(* is shown first, by smallest counterexamples.  The fourth needs HeardInv:*)
(* a caller whose wait is about to start holds the thread unlock() needs.  *)
(***************************************************************************)
EXTENDS RestClient, RequestGate_proofs, FiniteSetTheorems, WellFoundedInduction

----------------------------------------------------------------------------
(* Types.                                                                  *)

OwnTypeOK ==
    /\ threads \in ThreadCounts
    /\ call \in [Callers -> Call]
    /\ header \in Nat /\ reserved \in Nat /\ lastUsed \in Nat /\ used \in Nat
    /\ lapsed \in BOOLEAN /\ penalized \in BOOLEAN
    /\ executed \in [Callers -> Nat]
    /\ calls \in Nat /\ faults \in Nat /\ cancels \in Nat

\* A new call is a call, whichever leg it starts or goes on with.
LEMMA CallTypes ==
    ASSUME NEW p \in Callers
    PROVE  /\ FirstLeg(p) \in {"public", "first", "key"}
           /\ NewCall(p) \in Call
           /\ NoCall(p) \in Call
           /\ \A leg \in Legs : [NewCall(p) EXCEPT !.leg = leg] \in Call
  <1>1. FirstLeg(p) \in {"public", "first", "key"}
    BY DEF FirstLeg
  <1>2. NewCall(p) \in Call
    BY <1>1 DEF NewCall, Call, Stages, Legs, Answers, kMaxAttempts
  <1>3. QED
    BY <1>1, <1>2 DEF NoCall, Call, Stages

\* Every request costs something.
LEMMA CostTypes ==
    ASSUME OwnTypeOK, NEW p \in Callers
    PROVE  CostOf(p) \in Nat \ {0}
  BY RestAssumption DEF CostOf, TimeCost

\* A step keeps the types of what RestClient adds to the gate.
LEMMA StepTypes ==
    ASSUME OwnTypeOK, [Next]_vars
    PROVE  OwnTypeOK'
  <1> USE DEF OwnTypeOK
  <1>1. ASSUME NEW p \in Callers, Begin(p) PROVE OwnTypeOK'
    BY <1>1, CallTypes DEF Begin, GoOnAs, limiterVars
  <1>2. ASSUME NEW p \in Callers, Acquire(p) PROVE OwnTypeOK'
    <2>1. call' \in [Callers -> Call]
      BY <1>2 DEF Acquire, Goto, GoOnAs, Call, Stages
    <2>2. header' \in Nat /\ reserved' \in Nat
      BY <1>2, CostTypes DEF Acquire, Refreshed
    <2>3. QED
      BY <1>2, <2>1, <2>2 DEF Acquire, sessionVars, boundVars
  <1>3. ASSUME NEW p \in Callers, UpdateFromHeaders(p) PROVE OwnTypeOK'
    <2>1. call' \in [Callers -> Call]
      BY <1>3 DEF UpdateFromHeaders, Goto, GoOnAs, Call, Stages
    <2>2. header' \in Nat /\ reserved' \in Nat
      BY <1>3 DEF UpdateFromHeaders, Refreshed, Call
    <2>3. QED
      BY <1>3, <2>1, <2>2 DEF UpdateFromHeaders, sessionVars, boundVars
  <1>4. ASSUME NEW p \in Callers, Release(p) PROVE OwnTypeOK'
    <2>1. reserved' \in Nat /\ penalized' \in BOOLEAN
      BY <1>4, CostTypes DEF Release, Released, Penalizes
    <2>2. call' \in [Callers -> Call]
      <3>1. CASE call[p].leg \in {"public", "time"} /\ ShouldRetryPublicGet(p)
        <4>1. GoOnAs(p, [call[p] EXCEPT !.at = "backoff", !.attempt = @ + 1])
          BY <1>4, <3>1 DEF Release
        <4>2. call[p].attempt + 1 \in 0..(kMaxAttempts - 1)
          BY <3>1 DEF ShouldRetryPublicGet, Call, kMaxAttempts
        <4>3. [call[p] EXCEPT !.at = "backoff", !.attempt = @ + 1] \in Call
          BY <4>2 DEF Call, Stages
        <4>4. QED
          BY <4>1, <4>3 DEF GoOnAs
      <3>2. CASE ~(call[p].leg \in {"public", "time"} /\ ShouldRetryPublicGet(p))
        <4>1. NextLeg(p, "second") \/ NextLeg(p, "time") \/ Return(p)
          BY <1>4, <3>2 DEF Release
        <4>2. QED
          BY <4>1, CallTypes DEF NextLeg, GoOnAs, Return, Legs
      <3>3. QED
        BY <3>1, <3>2
    <2>3. QED
      BY <1>4, <2>1, <2>2 DEF Release, sessionVars, boundVars
  <1>5. ASSUME NEW p \in Callers, Respond(p) PROVE OwnTypeOK'
    <2>1. used' \in Nat /\ lastUsed' \in Nat
      <3>1. used' \in Counted(p) /\ lastUsed' = used'
        BY <1>5 DEF Respond
      <3>2. QED
        BY <3>1, CostTypes DEF Counted
    <2>2. executed' \in [Callers -> Nat] /\ faults' \in Nat
      <3>1. \/ /\ executed' = [executed EXCEPT ![p] =
                                   IF call[p].leg = "time" THEN @ ELSE @ + 1]
               /\ faults' = faults
            \/ executed' = executed /\ faults' = faults + 1
        BY <1>5 DEF Respond
      <3>2. QED
        BY <3>1
    <2>3. call' \in [Callers -> Call]
      <3>1. \A answer \in AnswersTo(call[p].leg) : answer \in Answers
        BY DEF AnswersTo, Answers
      <3>2. \E answer \in Answers :
               GoOnAs(p, [call[p] EXCEPT !.at = "headers", !.answer = answer])
        BY <1>5, <3>1 DEF Respond, Answers
      <3>3. QED
        BY <3>2 DEF GoOnAs, Call, Stages
    <2>4. QED
      BY <1>5, <2>1, <2>2, <2>3 DEF Respond, limiterVars
  <1>6. ASSUME NEW p \in Callers, LoseResponse(p) PROVE OwnTypeOK'
    <2>1. /\ faults' = faults + 1
          /\ GoOnAs(p, [call[p] EXCEPT !.at = "headers", !.answer = "lost"])
          /\ used' = used \/ used' \in Counted(p)
          /\ executed' = executed \/ executed' = [executed EXCEPT ![p] = @ + 1]
      BY <1>6 DEF LoseResponse
    <2>2. used' \in Nat
      BY <2>1, CostTypes DEF Counted
    <2>3. executed' \in [Callers -> Nat] /\ faults' \in Nat
      BY <2>1
    <2>4. call' \in [Callers -> Call]
      BY <2>1 DEF GoOnAs, Call, Stages, Answers
    <2>5. QED
      BY <1>6, <2>2, <2>3, <2>4 DEF LoseResponse, limiterVars
  <1>7. ASSUME NEW p \in Callers, WakeUp(p) PROVE OwnTypeOK'
    BY <1>7, CallTypes DEF WakeUp, Return, GoOnAs, limiterVars, sessionVars, boundVars
  <1>8. ASSUME NEW p \in Callers, ReadHeaders(p) PROVE OwnTypeOK'
    BY <1>8 DEF ReadHeaders, GoOnAs, Call, Stages, limiterVars, sessionVars, boundVars
  <1>9. ASSUME NEW p \in Callers, Retry(p) PROVE OwnTypeOK'
    BY <1>9 DEF Retry, Goto, GoOnAs, Call, Stages, limiterVars, sessionVars, boundVars
  <1>10. ASSUME NEW p \in Callers, CancelBeforeSending(p) PROVE OwnTypeOK'
    BY <1>10, CallTypes DEF CancelBeforeSending, Return, GoOnAs, limiterVars, sessionVars
  <1>11. ASSUME NEW p \in Callers, CancelInLine(p) PROVE OwnTypeOK'
    BY <1>11 DEF CancelInLine, Goto, GoOnAs, Call, Stages, limiterVars, sessionVars
  <1>12. ASSUME NEW p \in Callers, QuitWithGate(p) PROVE OwnTypeOK'
    BY <1>12, CallTypes DEF QuitWithGate, Return, GoOnAs, limiterVars, sessionVars, boundVars
  <1>13. ASSUME NEW p \in Callers, Lock(p) \/ ParkCall(p) \/ RingCall(p) PROVE OwnTypeOK'
    BY <1>13 DEF Lock, ParkCall, RingCall, limiterVars, sessionVars, boundVars
  <1>14. CASE LocalMinuteEnds \/ PenaltyEnds
    BY <1>14 DEF LocalMinuteEnds, PenaltyEnds, sessionVars, boundVars
  <1>15. CASE UNCHANGED vars
    BY <1>15 DEF vars, limiterVars, sessionVars, boundVars
  <1>16. ASSUME NEW p \in Callers,
                Begin(p) \/ Step(p) \/ CancelBeforeSending(p) \/ CancelInLine(p)
         PROVE  OwnTypeOK'
    BY <1>16, <1>1, <1>2, <1>3, <1>4, <1>5, <1>6, <1>7, <1>8, <1>9, <1>10, <1>11, <1>12,
       <1>13 DEF Step
  <1> HIDE DEF OwnTypeOK
  <1>17. QED
    BY <1>14, <1>15, <1>16 DEF Next

\* The types of what RestClient adds to the gate.
LEMMA OwnTyped == Spec => []OwnTypeOK
  <1>1. Init => OwnTypeOK
    <2> SUFFICES ASSUME Init PROVE OwnTypeOK
      OBVIOUS
    <2>1. call = [p \in Callers |-> NoCall(p)] /\ executed = [p \in Callers |-> 0]
      BY DEF Init
    <2>2. call \in [Callers -> Call] /\ executed \in [Callers -> Nat]
      BY <2>1, CallTypes
    <2>3. QED
      BY <2>2 DEF Init, OwnTypeOK
  <1>2. OwnTypeOK /\ [Next]_vars => OwnTypeOK'
    BY StepTypes
  <1>3. QED
    BY <1>1, <1>2, PTL DEF Spec

----------------------------------------------------------------------------
(* The gate.                                                               *)

\* A step of the calls is a step of the gate, or leaves the gate alone.
LEMMA StepUsesGate ==
    ASSUME [Next]_vars
    PROVE  [\E p \in Callers : GateStep(p)]_gateVars
  <1>1. ASSUME NEW p \in Callers,
               \/ Begin(p) \/ Acquire(p) \/ UpdateFromHeaders(p) \/ Release(p)
               \/ ReadHeaders(p) \/ Retry(p) \/ CancelBeforeSending(p)
        PROVE  UNCHANGED gateVars
    BY <1>1 DEF Begin, Acquire, UpdateFromHeaders, Release, ReadHeaders, Retry,
                CancelBeforeSending
  <1>2. ASSUME NEW p \in Callers,
               \/ Lock(p) \/ WakeUp(p) \/ Respond(p) \/ LoseResponse(p)
               \/ QuitWithGate(p) \/ ParkCall(p) \/ RingCall(p) \/ CancelInLine(p)
        PROVE  GateStep(p)
    BY <1>2 DEF Lock, WakeUp, Respond, LoseResponse, QuitWithGate, ParkCall, RingCall,
                CancelInLine, GateStep
  <1>3. CASE LocalMinuteEnds \/ PenaltyEnds
    BY <1>3 DEF LocalMinuteEnds, PenaltyEnds
  <1>4. CASE UNCHANGED vars
    BY <1>4 DEF vars
  <1>5. QED
    BY <1>1, <1>2, <1>3, <1>4 DEF Next, Step

\* The calls of a RestClient take the gate's steps and no others, so every
\* property of the gate is one of theirs (http_session.cpp:201-257).
THEOREM CallsUseGate == Spec => GateSpec
  <1>1. Init => GateInit
    BY DEF Init
  <1>2. [Next]_vars => [\E p \in Callers : GateStep(p)]_gateVars
    BY StepUsesGate
  <1>3. QED
    BY <1>1, <1>2, PTL DEF Spec, GateSpec

\* Types of the composed system.
THEOREM CallsTyped == Spec => []TypeOK
  <1>1. GateInv /\ OwnTypeOK => TypeOK
    BY DEF GateInv, OwnTypeOK, TypeOK
  <1>2. QED
    BY <1>1, OwnTyped, CallsUseGate, GateKept, PTL

\* Two requests of a session are never on the wire together, on any number of
\* threads and whatever calls are cancelled.
THEOREM CallsExclude == Spec => []MutualExclusion
  BY CallsUseGate, GateExcludes, PTL

\* The session serves its calls in the order they came to it.
THEOREM CallsInOrder == Spec => InOrder
  BY CallsUseGate, GateServesInOrder, PTL

----------------------------------------------------------------------------
(* At most once.                                                           *)

\* A call that stands as c may be sent yet.
MayBeSent(c) ==
    \/ c.at \in {"acquire", "session", "backoff"}
    \/ c.at # "idle" /\ (c.leg = "time" \/ c.answer = "stamp")

\* p's call stands as c, and the venue has carried it out n times.
Once(p, c, n) ==
    /\ c.leg = "public" <=> Kind[p] = "public"
    /\ Kind[p] # "public" => n \in {0, 1} /\ (MayBeSent(c) => n = 0)

OnceInv == \A p \in Callers : Once(p, call[p], executed[p])

\* One call moves on: the condition on it alone is to be shown again.
LEMMA OneMoves ==
    ASSUME OwnTypeOK, OnceInv, NEW p \in Callers, NEW c, NEW n, Once(p, c, n),
           call' = [call EXCEPT ![p] = c],
           executed' = [executed EXCEPT ![p] = n]
    PROVE  OnceInv'
  <1>1. \A q \in Callers : /\ call'[q] = IF q = p THEN c ELSE call[q]
                           /\ executed'[q] = IF q = p THEN n ELSE executed[q]
    BY DEF OwnTypeOK
  <1>2. \A q \in Callers : Once(q, call'[q], executed'[q])
    BY <1>1 DEF OnceInv
  <1>3. QED
    BY <1>2 DEF OnceInv, Once

\* A call that is moved to c where c may still be sent only if nothing was carried out.
LEMMA Moves ==
    ASSUME OwnTypeOK, OnceInv, NEW p \in Callers, NEW c,
           GoOnAs(p, c), executed' = executed, Once(p, c, executed[p])
    PROVE  OnceInv'
  <1>1. executed' = [executed EXCEPT ![p] = executed[p]]
    BY DEF OwnTypeOK
  <1>2. QED
    BY <1>1, OneMoves DEF GoOnAs

\* A step keeps what AtMostOnce rests on, one action after the other.
LEMMA StepOnce ==
    ASSUME OwnTypeOK, OnceInv, [Next]_vars
    PROVE  OnceInv'
  <1>0. ASSUME NEW p \in Callers
        PROVE  /\ Once(p, call[p], executed[p]) /\ call[p] \in Call
               /\ FirstLeg(p) = "public" <=> Kind[p] = "public"
               /\ FirstLeg(p) # "time"
    BY DEF OnceInv, OwnTypeOK, FirstLeg
  <1>1. ASSUME NEW p \in Callers, Return(p), executed' = executed PROVE OnceInv'
    <2>1. Once(p, NoCall(p), executed[p])
      BY <1>0 DEF Once, MayBeSent, NoCall, NewCall
    <2>2. QED
      BY <1>1, <2>1, Moves DEF Return
  <1>2. ASSUME NEW p \in Callers, NEW at \in Stages, Goto(p, at), executed' = executed,
               at \in {"acquire", "session"} => MayBeSent(call[p]),
               at = "quit" => call[p].leg = "public",
               at # "backoff", call[p].at # "idle"
        PROVE OnceInv'
    <2>1. Once(p, [call[p] EXCEPT !.at = at], executed[p])
      BY <1>0, <1>2 DEF Once, MayBeSent, Call
    <2>2. QED
      BY <1>2, <2>1, Moves DEF Goto
  <1>3. ASSUME NEW p \in Callers, Begin(p) PROVE OnceInv'
    <2>1. Once(p, NewCall(p), 0)
      BY <1>0 DEF Once, NewCall
    <2>2. QED
      BY <1>3, <2>1, OneMoves DEF Begin, GoOnAs
  <1>4. ASSUME NEW p \in Callers, Acquire(p) PROVE OnceInv'
    <2>1. call[p].at = "acquire" /\ executed' = executed
          /\ (Goto(p, "session") \/ call' = call)
      BY <1>4 DEF Acquire, sessionVars
    <2>2. CASE call' = call
      BY <2>1, <2>2 DEF OnceInv, Once
    <2>3. CASE Goto(p, "session")
      BY <2>1, <2>3, <1>2 DEF MayBeSent, Stages
    <2>4. QED
      BY <2>1, <2>2, <2>3
  <1>5. ASSUME NEW p \in Callers, UpdateFromHeaders(p) \/ Retry(p) \/ CancelInLine(p)
        PROVE OnceInv'
    <2>1. /\ executed' = executed
          /\ \/ call[p].at = "update" /\ Goto(p, "release")
             \/ call[p].at = "backoff" /\ Goto(p, "acquire")
             \/ call[p].at = "session" /\ call[p].leg = "public" /\ Goto(p, "quit")
      BY <1>5 DEF UpdateFromHeaders, Retry, CancelInLine, sessionVars
    <2>2. QED
      BY <2>1, <1>2 DEF MayBeSent, Stages
  <1>6. ASSUME NEW p \in Callers, WakeUp(p) \/ CancelBeforeSending(p) \/ QuitWithGate(p)
        PROVE OnceInv'
    <2>1. executed' = executed /\ (Return(p) \/ call' = call)
      BY <1>6 DEF WakeUp, CancelBeforeSending, QuitWithGate, sessionVars
    <2>2. CASE call' = call
      BY <2>1, <2>2 DEF OnceInv, Once
    <2>3. QED
      BY <2>1, <2>2, <1>1
  <1>7. ASSUME NEW p \in Callers, ReadHeaders(p) PROVE OnceInv'
    <2>1. /\ call[p].at = "headers" /\ executed' = executed
          /\ GoOnAs(p, [call[p] EXCEPT !.at = "update", !.seen = lastUsed])
      BY <1>7 DEF ReadHeaders, sessionVars
    <2>2. Once(p, [call[p] EXCEPT !.at = "update", !.seen = lastUsed], executed[p])
      BY <1>0, <2>1 DEF Once, MayBeSent, Call
    <2>3. QED
      BY <2>1, <2>2, Moves
  <1>8. ASSUME NEW p \in Callers, Release(p) PROVE OnceInv'
    <2>1. call[p].at = "release" /\ executed' = executed
      BY <1>8 DEF Release, sessionVars
    <2>2. CASE call[p].leg \in {"public", "time"} /\ ShouldRetryPublicGet(p)
      <3>1. GoOnAs(p, [call[p] EXCEPT !.at = "backoff", !.attempt = @ + 1])
        BY <1>8, <2>2 DEF Release
      <3>2. Once(p, [call[p] EXCEPT !.at = "backoff", !.attempt = @ + 1], executed[p])
        BY <1>0, <2>1, <2>2 DEF Once, MayBeSent, Call
      <3>3. QED
        BY <2>1, <3>1, <3>2, Moves
    <2>3. ASSUME NEW leg \in {"time", "second"}, NextLeg(p, leg),
                 call[p].leg = "time" \/ ShouldSynchronize(p)
          PROVE OnceInv'
      <3>1. Once(p, [NewCall(p) EXCEPT !.leg = leg], executed[p])
        BY <1>0, <2>1, <2>3 DEF Once, MayBeSent, NewCall, ShouldSynchronize
      <3>2. QED
        BY <2>1, <2>3, <3>1, Moves DEF NextLeg
    <2>4. QED
      BY <1>8, <2>1, <2>2, <2>3, <1>1 DEF Release
  <1>9. ASSUME NEW p \in Callers, Respond(p) PROVE OnceInv'
    <2>1. call[p].at = "session" /\ (Kind[p] # "public" => executed[p] = 0)
      BY <1>0, <1>9 DEF Respond, Once, MayBeSent
    <2>2. CASE /\ GoOnAs(p, [call[p] EXCEPT !.at = "headers", !.answer = "ok"])
               /\ executed' = [executed EXCEPT ![p] =
                                 IF call[p].leg = "time" THEN @ ELSE @ + 1]
      <3> DEFINE n == IF call[p].leg = "time" THEN executed[p] ELSE executed[p] + 1
      <3>1. Once(p, [call[p] EXCEPT !.at = "headers", !.answer = "ok"], n)
        BY <1>0, <2>1 DEF Once, MayBeSent, Call
      <3>2. executed' = [executed EXCEPT ![p] = n]
        BY <2>2 DEF OwnTypeOK
      <3> HIDE DEF n
      <3>3. QED
        BY <2>2, <3>1, <3>2, OneMoves DEF GoOnAs
    <2>3. ASSUME NEW answer \in AnswersTo(call[p].leg), executed' = executed,
                 GoOnAs(p, [call[p] EXCEPT !.at = "headers", !.answer = answer])
          PROVE  OnceInv'
      <3>1. Once(p, [call[p] EXCEPT !.at = "headers", !.answer = answer], executed[p])
        BY <1>0, <2>1 DEF Once, MayBeSent, Call
      <3>2. QED
        BY <2>3, <3>1, Moves
    <2>4. QED
      BY <1>9, <2>2, <2>3 DEF Respond
  <1>10. ASSUME NEW p \in Callers, LoseResponse(p) PROVE OnceInv'
    <2>1. /\ call[p].at = "session" /\ (Kind[p] # "public" => executed[p] = 0)
          /\ GoOnAs(p, [call[p] EXCEPT !.at = "headers", !.answer = "lost"])
          /\ \/ executed' = executed
             \/ /\ call[p].leg # "time"
                /\ executed' = [executed EXCEPT ![p] = executed[p] + 1]
      BY <1>0, <1>10 DEF LoseResponse, Once, MayBeSent
    <2>2. \A n : n = executed[p] \/ (call[p].leg # "time" /\ n = executed[p] + 1)
              => Once(p, [call[p] EXCEPT !.at = "headers", !.answer = "lost"], n)
      BY <1>0, <2>1 DEF Once, MayBeSent, Call
    <2>3. QED
      BY <2>1, <2>2, Moves, OneMoves DEF GoOnAs
  <1>11. ASSUME NEW p \in Callers, Lock(p) \/ ParkCall(p) \/ RingCall(p) PROVE OnceInv'
    BY <1>11 DEF Lock, ParkCall, RingCall, sessionVars, OnceInv, Once
  <1>12. CASE LocalMinuteEnds \/ PenaltyEnds \/ UNCHANGED vars
    BY <1>12 DEF LocalMinuteEnds, PenaltyEnds, vars, sessionVars, OnceInv, Once
  <1>13. ASSUME NEW p \in Callers,
                Begin(p) \/ Step(p) \/ CancelBeforeSending(p) \/ CancelInLine(p)
         PROVE  OnceInv'
    BY <1>3, <1>4, <1>5, <1>6, <1>7, <1>8, <1>9, <1>10, <1>11, <1>13 DEF Step
  <1>14. QED
    BY <1>12, <1>13 DEF Next

\* An order is carried out at most once for each signedPost, whatever is lost on
\* the way: only a call the venue refused for its timestamp is sent again
\* (rest_client.cpp:602-725).
THEOREM OrdersAtMostOnce == Spec => []AtMostOnce
  <1>1. Init => OnceInv
    BY DEF Init, OnceInv, Once, MayBeSent, NoCall, NewCall, FirstLeg
  <1>2. OwnTypeOK /\ OnceInv /\ [Next]_vars => OnceInv'
    BY StepOnce
  <1>3. OnceInv => AtMostOnce
    BY DEF OnceInv, Once, AtMostOnce
  <1>4. QED
    BY <1>1, <1>2, <1>3, OwnTyped, PTL DEF Spec
----------------------------------------------------------------------------
(* Sums over finite sets.  MapThenSumSet takes the elements out one after   *)
(* the other; the lemmas show by smallest counterexamples that this has a   *)
(* result, that the result does not depend on the element taken, and that   *)
(* it depends on the weights in the set alone.                              *)

\* g sums the weights w over the subsets of S, the way MapThenSumSet does.
IsSum(g, w, S) ==
    g = [s \in SUBSET S |-> IF s = {} THEN 0
                            ELSE w[CHOOSE x \in s : TRUE] + g[s \ {CHOOSE x \in s : TRUE}]]

Total(w, S) == (CHOOSE g : IsSum(g, w, S))[S]

\* Among finite sets there is a smallest one: what induction over sets rests on.
LEMMA SmallestSet ==
    ASSUME NEW D, D # {}, \A d \in D : IsFiniteSet(d)
    PROVE  \E d \in D : \A e \in D : e \subseteq d => e = d
  <1> DEFINE S == UNION D
  <1>1. IsWellFoundedOn(StrictSubsetOrdering(S), FiniteSubsetsOf(S))
    BY FS_StrictSubsetOrderingWellFounded
  <1>2. D \subseteq FiniteSubsetsOf(S)
    BY DEF FiniteSubsetsOf
  <1>3. PICK d \in D : \A e \in D : <<e, d>> \notin StrictSubsetOrdering(S)
    BY <1>1, <1>2, WFMin
  <1>4. \A e \in D : e \subseteq d => e = d
    BY <1>3 DEF StrictSubsetOrdering
  <1>5. QED
    BY <1>4

\* Two sums of the same weights agree where both are defined.
LEMMA SumsAgree ==
    ASSUME NEW w, NEW S, NEW T, NEW g, NEW h, IsSum(g, w, S), IsSum(h, w, T),
           NEW U, U \subseteq S, U \subseteq T, IsFiniteSet(U)
    PROVE  g[U] = h[U]
  <1> DEFINE D == {s \in SUBSET U : g[s] # h[s]}
  <1>1. SUFFICES ASSUME D # {} PROVE FALSE
    OBVIOUS
  <1>2. PICK d \in D : \A e \in D : e \subseteq d => e = d
    <2>1. \A d \in D : IsFiniteSet(d)
      BY FS_Subset
    <2> HIDE DEF D
    <2>2. QED
      BY <1>1, <2>1, SmallestSet
  <1>3. d \in SUBSET U /\ g[d] # h[d]
    BY <1>2
  <1> DEFINE c == CHOOSE x \in d : TRUE
  <1>4. d # {}
    BY <1>3 DEF IsSum
  <1>5. c \in d
    BY <1>4
  <1>6. d \ {c} \notin D
    BY <1>2, <1>5
  <1>7. g[d \ {c}] = h[d \ {c}]
    BY <1>3, <1>6
  <1>8. g[d] = w[c] + g[d \ {c}] /\ h[d] = w[c] + h[d \ {c}]
    <2>1. d \in SUBSET S /\ d \in SUBSET T
      BY <1>3
    <2>2. QED
      BY <1>4, <2>1 DEF IsSum
  <1>9. QED
    BY <1>3, <1>7, <1>8

\* What a sum is, if there is one: that of nothing, or of all elements but one.
LEMMA TotalOfSum ==
    ASSUME NEW w, NEW S, IsFiniteSet(S), NEW g, IsSum(g, w, S)
    PROVE  \A s \in SUBSET S : g[s] = Total(w, s)
  <1>1. SUFFICES ASSUME NEW s \in SUBSET S PROVE g[s] = Total(w, s)
    OBVIOUS
  <1> DEFINE part == [r \in SUBSET s |-> g[r]]
  <1>2. IsSum(part, w, s)
    <2>1. \A r \in SUBSET s : part[r] = IF r = {} THEN 0
             ELSE w[CHOOSE x \in r : TRUE] + part[r \ {CHOOSE x \in r : TRUE}]
      BY DEF IsSum
    <2> DEFINE body == [r \in SUBSET s |-> IF r = {} THEN 0
             ELSE w[CHOOSE x \in r : TRUE] + part[r \ {CHOOSE x \in r : TRUE}]]
    <2>2. part = body
      <3>1. \A r \in SUBSET s : part[r] = body[r]
        BY <2>1
      <3>2. QED
        BY <3>1
    <2>3. QED
      BY <2>2 DEF IsSum
  <1> HIDE DEF part
  <1>3. IsSum(CHOOSE h : IsSum(h, w, s), w, s)
    BY <1>2
  <1>4. IsFiniteSet(s)
    BY FS_Subset
  <1>5. QED
    BY <1>3, <1>4, SumsAgree DEF Total

\* Every finite set has its sum.
LEMMA SumExists ==
    ASSUME NEW w, NEW S, IsFiniteSet(S)
    PROVE  \E g : IsSum(g, w, S)
  <1> DEFINE D == {s \in SUBSET S : ~\E g : IsSum(g, w, s)}
  <1>1. SUFFICES ASSUME D # {} PROVE FALSE
    OBVIOUS
  <1>2. \A s \in SUBSET S : IsFiniteSet(s)
    BY FS_Subset
  <1>3. PICK d \in D : \A e \in D : e \subseteq d => e = d
    <2>1. \A d \in D : IsFiniteSet(d)
      BY <1>2
    <2> HIDE DEF D
    <2>2. QED
      BY <1>1, <2>1, SmallestSet
  <1>4. \A s \in SUBSET d : s # d => \E g : IsSum(g, w, s)
    BY <1>3
  <1> DEFINE c(s) == CHOOSE x \in s : TRUE
             g == [s \in SUBSET d |->
                      IF s = {} THEN 0
                      ELSE IF s = d THEN w[c(d)] + Total(w, d \ {c(d)}) ELSE Total(w, s)]
  <1>5. \A s \in SUBSET d : s # {} => c(s) \in s
    OBVIOUS
  <1>6. ASSUME NEW s \in SUBSET d, s # {}, s # d
        PROVE  Total(w, s) = w[c(s)] + Total(w, s \ {c(s)})
    <2>1. PICK h : IsSum(h, w, s)
      BY <1>4, <1>6
    <2>2. h[s] = w[c(s)] + h[s \ {c(s)}]
      BY <1>6, <2>1 DEF IsSum
    <2>3. IsFiniteSet(s)
      BY <1>2, <1>3
    <2>4. \A r \in SUBSET s : h[r] = Total(w, r)
      BY <2>1, <2>3, TotalOfSum
    <2> HIDE DEF c
    <2>5. QED
      BY <2>2, <2>4
  <1>7. Total(w, {}) = 0
    <2>1. IsSum([s \in SUBSET {} |-> 0], w, {})
      BY DEF IsSum
    <2>2. QED
      BY <2>1, FS_EmptySet, TotalOfSum
  <1>8. \A s \in SUBSET d : s # {} => g[s] = w[c(s)] + g[s \ {c(s)}]
    <2>1. SUFFICES ASSUME NEW s \in SUBSET d, s # {} PROVE g[s] = w[c(s)] + g[s \ {c(s)}]
      OBVIOUS
    <2>2. /\ s \ {c(s)} \in SUBSET d /\ s \ {c(s)} # d
      BY <1>5, <2>1
    <2> HIDE DEF c
    <2>3. g[s \ {c(s)}] = Total(w, s \ {c(s)})
      BY <1>7, <2>2
    <2>4. g[s] = w[c(s)] + Total(w, s \ {c(s)})
      BY <1>6, <2>1
    <2>5. QED
      BY <2>3, <2>4
  <1>9. IsSum(g, w, d)
    <2> DEFINE body == [s \in SUBSET d |-> IF s = {} THEN 0 ELSE w[c(s)] + g[s \ {c(s)}]]
    <2>1. \A s \in SUBSET d : g[s] = body[s]
      BY <1>8
    <2>2. g = [s \in SUBSET d |-> g[s]]
      OBVIOUS
    <2> HIDE DEF g
    <2>3. g = body
      BY <2>1, <2>2
    <2>4. QED
      BY <2>3 DEF IsSum
  <1>10. QED
    BY <1>3, <1>9

\* The sum over a set: one element, and the sum over the rest.
LEMMA TotalStep ==
    ASSUME NEW w, NEW S, IsFiniteSet(S)
    PROVE  /\ Total(w, {}) = 0
           /\ S # {} => \E c \in S : Total(w, S) = w[c] + Total(w, S \ {c})
  <1>1. PICK g : IsSum(g, w, S)
    BY SumExists
  <1>2. \A s \in SUBSET S : g[s] = Total(w, s)
    BY <1>1, TotalOfSum
  <1>3. g[{}] = 0 /\ (S # {} => \E c \in S : g[S] = w[c] + g[S \ {c}])
    BY <1>1 DEF IsSum
  <1>4. QED
    BY <1>2, <1>3

\* Sums of naturals are naturals.
LEMMA TotalNat ==
    ASSUME NEW w, NEW S, IsFiniteSet(S), \A x \in S : w[x] \in Nat
    PROVE  Total(w, S) \in Nat
  <1> DEFINE D == {s \in SUBSET S : Total(w, s) \notin Nat}
  <1>1. SUFFICES ASSUME D # {} PROVE FALSE
    OBVIOUS
  <1>2. \A s \in SUBSET S : IsFiniteSet(s)
    BY FS_Subset
  <1>3. PICK d \in D : \A e \in D : e \subseteq d => e = d
    <2>1. \A d \in D : IsFiniteSet(d)
      BY <1>2
    <2> HIDE DEF D
    <2>2. QED
      BY <1>1, <2>1, SmallestSet
  <1>4. d # {} /\ IsFiniteSet(d)
    <2>1. Total(w, {}) = 0
      BY TotalStep
    <2>2. d \in SUBSET S /\ Total(w, d) \notin Nat
      OBVIOUS
    <2> HIDE DEF D
    <2>3. d # {}
      <3>1. SUFFICES ASSUME d = {} PROVE FALSE
        OBVIOUS
      <3>2. Total(w, d) = 0
        BY <2>1, <3>1
      <3>3. QED
        BY <2>2, <3>2
    <2>4. QED
      BY <1>2, <2>2, <2>3
  <1>5. PICK c \in d : Total(w, d) = w[c] + Total(w, d \ {c})
    BY <1>4, TotalStep
  <1>6. Total(w, d \ {c}) \in Nat
    BY <1>3, <1>5
  <1>7. QED
    BY <1>3, <1>5, <1>6

\* Equal weights, equal sums.
LEMMA TotalSame ==
    ASSUME NEW v, NEW w, NEW S, IsFiniteSet(S), \A x \in S : v[x] = w[x]
    PROVE  Total(v, S) = Total(w, S)
  <1>1. PICK g : IsSum(g, v, S)
    BY SumExists
  <1>2. \A s \in SUBSET S : s # {} => v[CHOOSE x \in s : TRUE] = w[CHOOSE x \in s : TRUE]
    OBVIOUS
  <1>3. IsSum(g, w, S)
    BY <1>1, <1>2 DEF IsSum
  <1>4. QED
    BY <1>1, <1>3, TotalOfSum

\* Whichever element is taken out, the rest adds up to what is left.
LEMMA TotalWithout ==
    ASSUME NEW w, NEW S, IsFiniteSet(S), \A x \in S : w[x] \in Nat, NEW a \in S
    PROVE  Total(w, S) = w[a] + Total(w, S \ {a})
  <1> DEFINE D == {s \in SUBSET S : \E x \in s : Total(w, s) # w[x] + Total(w, s \ {x})}
  <1>1. SUFFICES ASSUME D # {} PROVE FALSE
    OBVIOUS
  <1>2. \A s \in SUBSET S : IsFiniteSet(s)
    BY FS_Subset
  <1>3. PICK d \in D : \A e \in D : e \subseteq d => e = d
    <2>1. \A d \in D : IsFiniteSet(d)
      BY <1>2
    <2> HIDE DEF D
    <2>2. QED
      BY <1>1, <2>1, SmallestSet
  <1>4. PICK x \in d : Total(w, d) # w[x] + Total(w, d \ {x})
    BY <1>3
  <1>5. PICK c \in d : Total(w, d) = w[c] + Total(w, d \ {c})
    BY <1>2, <1>3, <1>4, TotalStep
  <1>6. /\ x # c /\ x \in d \ {c} /\ c \in d \ {x}
        /\ d \ {c} \in SUBSET S /\ d \ {c} \notin D
        /\ d \ {x} \in SUBSET S /\ d \ {x} \notin D
    BY <1>3, <1>4, <1>5
  <1>7. Total(w, d \ {c}) = w[x] + Total(w, (d \ {c}) \ {x})
    BY <1>6
  <1>8. Total(w, d \ {x}) = w[c] + Total(w, (d \ {x}) \ {c})
    BY <1>6
  <1>9. Total(w, (d \ {c}) \ {x}) = Total(w, (d \ {x}) \ {c})
    <2>1. (d \ {c}) \ {x} = (d \ {x}) \ {c}
      OBVIOUS
    <2>2. QED
      BY <2>1
  <1>10. Total(w, (d \ {x}) \ {c}) \in Nat /\ w[x] \in Nat /\ w[c] \in Nat
    <2>1. (d \ {x}) \ {c} \in SUBSET S
      BY <1>3
    <2>2. QED
      BY <1>2, <1>3, <2>1, TotalNat
  <1>11. ASSUME NEW l, NEW m, NEW n, NEW k \in Nat, NEW y \in Nat, NEW z \in Nat,
                l = y + m, m = z + k, n = y + k
         PROVE  l = z + n
    BY <1>11
  <1>12. Total(w, d) = w[x] + Total(w, d \ {x})
    BY <1>5, <1>7, <1>8, <1>9, <1>10, <1>11
  <1>13. QED
    BY <1>4, <1>12

\* What each call costs as it stands.
CostNow == [p \in Callers |-> CostOf(p)]

\* What ReservationsHeld compares with is such a sum.
LEMMA SumIsTotal ==
    MapThenSumSet(CostOf, Admitted) = Total(CostNow, Admitted)
  <1> DEFINE w == CostNow
             S == Admitted
             B(g) == [s \in SUBSET S |-> IF s = {} THEN 0
                            ELSE CostOf(CHOOSE x \in s : TRUE) + g[s \ {CHOOSE x \in s : TRUE}]]
             C(g) == [s \in SUBSET S |-> IF s = {} THEN 0
                            ELSE w[CHOOSE x \in s : TRUE] + g[s \ {CHOOSE x \in s : TRUE}]]
  <1>1. MapThenSumSet(CostOf, S) = (CHOOSE g : g = B(g))[S]
    BY DEF MapThenSumSet, MapThenFoldSet
  <1>2. ASSUME NEW s \in SUBSET S, s # {}
        PROVE  CostOf(CHOOSE x \in s : TRUE) = w[CHOOSE x \in s : TRUE]
    <2>1. (CHOOSE x \in s : TRUE) \in s 
      BY <1>2
    <2>2. (CHOOSE x \in s : TRUE) \in Callers
      BY <2>1 DEF Admitted
    <2>3. QED
      BY <2>2 DEF CostNow
  <1>3. ASSUME NEW g PROVE B(g) = C(g)
    <2> HIDE DEF w
    <2>1. QED
      BY <1>2
  <1> HIDE DEF B, C
  <1>4. (CHOOSE g : g = B(g)) = (CHOOSE g : g = C(g))
    BY <1>3
  <1>5. QED
    BY <1>1, <1>4 DEF Total, IsSum, C

----------------------------------------------------------------------------
(* Reservations.                                                           *)

\* Nothing is reserved beyond what the admitted calls cost, until one of them is
\* cancelled in line; and they are finitely many, as each was admitted by a step.
ReserveInv ==
    /\ IsFiniteSet(Admitted)
    /\ cancels = 0 => reserved <= Total(CostNow, Admitted)

\* The stages between a reservation and its release.
AdmittedStages == {"session", "headers", "update", "release"}

\* One call goes on as c: whether it is admitted depends on c, the others stay.
LEMMA OneGoesOn ==
    ASSUME OwnTypeOK, NEW p \in Callers, NEW c, GoOnAs(p, c)
    PROVE  /\ Admitted' = IF c.at \in AdmittedStages THEN Admitted \cup {p} ELSE Admitted \ {p}
           /\ p \in Admitted <=> call[p].at \in AdmittedStages
           /\ \A q \in Callers : q # p => CostNow'[q] = CostNow[q]
           /\ c.leg = call[p].leg => CostNow'[p] = CostNow[p]
  <1>1. call'[p] = c /\ \A q \in Callers : q # p => call'[q] = call[q]
    BY DEF GoOnAs, OwnTypeOK
  <1>2. QED
    BY <1>1 DEF Admitted, AdmittedStages, CostNow, CostOf

\* The weights are naturals.
LEMMA CostNowTyped ==
    ASSUME OwnTypeOK
    PROVE  \A q \in Admitted : CostNow[q] \in Nat /\ CostNow[q] = CostOf(q)
  BY CostTypes DEF CostNow, Admitted

\* A step that admits nobody, releases nobody and reserves nothing.
LEMMA AdmissionStays ==
    ASSUME OwnTypeOK, OwnTypeOK', ReserveInv, Admitted' = Admitted,
           \A q \in Admitted : CostNow'[q] = CostNow[q],
           reserved' <= reserved, cancels' = 0 => cancels = 0
    PROVE  ReserveInv'
  <1>1. Total(CostNow', Admitted) = Total(CostNow, Admitted)
    BY TotalSame DEF ReserveInv
  <1>2. Total(CostNow, Admitted) \in Nat
    BY CostNowTyped, TotalNat DEF ReserveInv
  <1>3. QED
    BY <1>1, <1>2 DEF ReserveInv, OwnTypeOK

\* A step of one call that is admitted before and after, or neither.
LEMMA CallStays ==
    ASSUME OwnTypeOK, OwnTypeOK', ReserveInv, NEW p \in Callers, NEW c, GoOnAs(p, c),
           reserved' <= reserved, cancels' = 0 => cancels = 0,
           \/ call[p].at \notin AdmittedStages /\ c.at \notin AdmittedStages
           \/ /\ call[p].at \in AdmittedStages /\ c.at \in AdmittedStages
              /\ c.leg = call[p].leg
    PROVE  ReserveInv'
  <1>1. Admitted' = Admitted /\ \A q \in Admitted : CostNow'[q] = CostNow[q]
    BY OneGoesOn DEF Admitted
  <1>2. QED
    BY <1>1, AdmissionStays

\* A step of one call that leaves the calls as they are.
LEMMA NoCallMoves ==
    ASSUME OwnTypeOK, OwnTypeOK', ReserveInv, call' = call,
           reserved' <= reserved, cancels' = cancels
    PROVE  ReserveInv'
  <1>1. Admitted' = Admitted /\ CostNow' = CostNow
    BY DEF Admitted, CostNow, CostOf
  <1>2. QED
    BY <1>1, AdmissionStays

\* A step keeps what ReservationsHeld rests on: acquire adds the call and its cost,
\* release takes both away, whatever part of the cost a new window has forgotten.
LEMMA StepReserve ==
    ASSUME OwnTypeOK, OwnTypeOK', ReserveInv, [Next]_vars
    PROVE  ReserveInv'
  <1>0. ASSUME NEW p \in Callers
        PROVE  /\ call[p] \in Call /\ NewCall(p).at = "acquire" /\ NoCall(p).at = "idle"
               /\ \A leg : [NewCall(p) EXCEPT !.leg = leg].at = "acquire"
    BY DEF OwnTypeOK, NewCall, NoCall
  <1>1. Refreshed(reserved) \in Nat /\ Refreshed(reserved) <= reserved
    BY DEF Refreshed, OwnTypeOK
  <1>2. ASSUME NEW p \in Callers, Acquire(p) PROVE ReserveInv'
    <2>1. CASE call' = call
      <3>1. reserved' = Refreshed(reserved) /\ cancels' = cancels
        <4>1. GoOnAs(p, [call[p] EXCEPT !.at = "session"]) => call'[p].at = "session"
          BY <1>0 DEF GoOnAs, OwnTypeOK, Call
        <4>2. QED
          BY <1>2, <2>1, <4>1 DEF Acquire, Goto, boundVars
      <3>2. QED
        BY <1>1, <2>1, <3>1, NoCallMoves
    <2>2. CASE call' # call
      <3>1. /\ reserved' = Refreshed(reserved) + CostOf(p) /\ cancels' = cancels
            /\ call[p].at = "acquire" /\ GoOnAs(p, [call[p] EXCEPT !.at = "session"])
        BY <1>2, <2>2 DEF Acquire, Goto, boundVars
      <3>2. /\ p \notin Admitted /\ Admitted' = Admitted \cup {p}
            /\ \A q \in Callers : CostNow'[q] = CostNow[q]
        BY <1>0, <3>1, OneGoesOn DEF AdmittedStages, Call
      <3>3. CostNow'[p] = CostOf(p) /\ CostOf(p) \in Nat
        BY <3>2, CostTypes DEF CostNow
      <3>4. IsFiniteSet(Admitted')
        BY <3>2, FS_AddElement DEF ReserveInv
      <3>5. \A q \in Admitted' : CostNow'[q] \in Nat
        BY <3>2, <3>3, CostNowTyped DEF Admitted
      <3>6. Total(CostNow', Admitted') = CostNow'[p] + Total(CostNow', Admitted' \ {p})
        BY <3>2, <3>4, <3>5, TotalWithout
      <3>7. Total(CostNow', Admitted' \ {p}) = Total(CostNow, Admitted)
        <4>1. Admitted' \ {p} = Admitted
          BY <3>2
        <4>2. \A q \in Admitted : CostNow'[q] = CostNow[q]
          BY <3>2 DEF Admitted
        <4>3. QED
          BY <4>1, <4>2, TotalSame DEF ReserveInv
      <3>8. Total(CostNow, Admitted) \in Nat
        BY CostNowTyped, TotalNat DEF ReserveInv
      <3>9. cancels' = 0 => reserved' <= Total(CostNow', Admitted')
        BY <1>1, <3>1, <3>3, <3>6, <3>7, <3>8 DEF ReserveInv, OwnTypeOK
      <3>10. QED
        BY <3>4, <3>9 DEF ReserveInv
    <2>3. QED
      BY <2>1, <2>2
  <1>3. ASSUME NEW p \in Callers, Release(p) PROVE ReserveInv'
    <2>1. PICK c : GoOnAs(p, c) /\ c.at \notin AdmittedStages
      <3>1. \/ GoOnAs(p, [call[p] EXCEPT !.at = "backoff", !.attempt = @ + 1])
            \/ NextLeg(p, "second") \/ NextLeg(p, "time") \/ Return(p)
        BY <1>3 DEF Release
      <3>2. [call[p] EXCEPT !.at = "backoff", !.attempt = @ + 1].at = "backoff"
        BY <1>0 DEF Call
      <3>3. QED
        BY <1>0, <3>1, <3>2 DEF NextLeg, Return, AdmittedStages
    <2>2. p \in Admitted /\ Admitted' = Admitted \ {p}
      BY <1>3, <2>1, OneGoesOn DEF Release, AdmittedStages
    <2>3. \A q \in Admitted \ {p} : CostNow'[q] = CostNow[q]
      BY <2>1, OneGoesOn DEF Admitted
    <2>4. reserved' = Released(CostOf(p)) /\ cancels' = cancels
      BY <1>3 DEF Release, boundVars
    <2>5. IsFiniteSet(Admitted \ {p})
      BY FS_RemoveElement DEF ReserveInv
    <2>6. Total(CostNow, Admitted) = CostNow[p] + Total(CostNow, Admitted \ {p})
      BY <2>2, CostNowTyped, TotalWithout DEF ReserveInv
    <2>7. Total(CostNow', Admitted') = Total(CostNow, Admitted \ {p})
      BY <2>2, <2>3, <2>5, TotalSame
    <2>8. Total(CostNow, Admitted \ {p}) \in Nat
      BY <2>5, CostNowTyped, TotalNat
    <2>9. CostNow[p] = CostOf(p) /\ CostOf(p) \in Nat
      BY <2>2, CostNowTyped
    <2>10. cancels' = 0 => reserved' <= Total(CostNow', Admitted')
      BY <2>4, <2>6, <2>7, <2>8, <2>9 DEF ReserveInv, OwnTypeOK, Released
    <2>11. QED
      BY <2>2, <2>5, <2>10 DEF ReserveInv
  <1>4. ASSUME NEW p \in Callers, CancelInLine(p) PROVE ReserveInv'
    <2>1. cancels' # 0 /\ GoOnAs(p, [call[p] EXCEPT !.at = "quit"])
      BY <1>4 DEF CancelInLine, Goto, OwnTypeOK
    <2>2. Admitted' = Admitted \ {p}
      BY <1>0, <2>1, OneGoesOn DEF AdmittedStages, Call
    <2>3. QED
      BY <2>1, <2>2, FS_RemoveElement DEF ReserveInv
  <1>5. ASSUME NEW p \in Callers, UpdateFromHeaders(p) PROVE ReserveInv'
    <2>1. /\ call[p].at = "update" /\ GoOnAs(p, [call[p] EXCEPT !.at = "release"])
          /\ reserved' = Refreshed(reserved) /\ cancels' = cancels
      BY <1>5 DEF UpdateFromHeaders, Goto, boundVars
    <2>2. QED
      BY <1>0, <1>1, <2>1, CallStays DEF AdmittedStages, Call
  <1>6. ASSUME NEW p \in Callers, Respond(p) \/ LoseResponse(p) PROVE ReserveInv'
    <2>1. PICK answer :
             /\ call[p].at = "session" /\ reserved' = reserved /\ cancels' = cancels
             /\ GoOnAs(p, [call[p] EXCEPT !.at = "headers", !.answer = answer])
      BY <1>6 DEF Respond, LoseResponse, limiterVars
    <2> DEFINE c == [call[p] EXCEPT !.at = "headers", !.answer = answer]
    <2>2. c.at = "headers" /\ c.leg = call[p].leg /\ reserved' <= reserved
      BY <1>0, <2>1 DEF Call, OwnTypeOK
    <2>3. GoOnAs(p, c)
      BY <2>1
    <2> HIDE DEF c
    <2>4. QED
      BY <2>1, <2>2, <2>3, CallStays DEF AdmittedStages
  <1>7. ASSUME NEW p \in Callers, ReadHeaders(p) PROVE ReserveInv'
    <2>1. /\ call[p].at = "headers" /\ reserved' = reserved /\ cancels' = cancels
          /\ GoOnAs(p, [call[p] EXCEPT !.at = "update", !.seen = lastUsed])
      BY <1>7 DEF ReadHeaders, limiterVars, boundVars
    <2> DEFINE c == [call[p] EXCEPT !.at = "update", !.seen = lastUsed]
    <2>2. c.at = "update" /\ c.leg = call[p].leg /\ reserved' <= reserved
      BY <1>0, <2>1 DEF Call, OwnTypeOK
    <2>3. GoOnAs(p, c)
      BY <2>1
    <2> HIDE DEF c
    <2>4. QED
      BY <2>1, <2>2, <2>3, CallStays DEF AdmittedStages
  <1>8. ASSUME NEW p \in Callers,
               Begin(p) \/ Retry(p) \/ CancelBeforeSending(p) \/ QuitWithGate(p)
        PROVE ReserveInv'
    <2>1. /\ call[p].at \in {"idle", "backoff", "acquire", "quit"}
          /\ reserved' = reserved /\ (cancels' = 0 => cancels = 0)
          /\ \/ GoOnAs(p, NewCall(p)) \/ GoOnAs(p, NoCall(p))
             \/ GoOnAs(p, [call[p] EXCEPT !.at = "acquire"])
      BY <1>8 DEF Begin, Retry, CancelBeforeSending, QuitWithGate, Return, Goto, limiterVars,
                  boundVars, OwnTypeOK
    <2>2. [call[p] EXCEPT !.at = "acquire"].at = "acquire"
      BY <1>0 DEF Call
    <2>3. PICK c : GoOnAs(p, c) /\ c.at \in {"acquire", "idle"}
      BY <1>0, <2>1, <2>2
    <2>4. reserved' <= reserved
      BY <2>1 DEF OwnTypeOK
    <2>5. QED
      BY <2>1, <2>3, <2>4, CallStays DEF AdmittedStages
  <1>9. ASSUME NEW p \in Callers, WakeUp(p) PROVE ReserveInv'
    <2>1. /\ reserved' = reserved /\ cancels' = cancels
          /\ \/ call' = call
             \/ call[p].at = "quit" /\ GoOnAs(p, NoCall(p))
      BY <1>9 DEF WakeUp, Return, limiterVars, boundVars
    <2>2. QED
      BY <1>0, <2>1, CallStays, NoCallMoves DEF AdmittedStages, OwnTypeOK
  <1>10. CASE \/ \E p \in Callers : Lock(p) \/ ParkCall(p) \/ RingCall(p)
              \/ LocalMinuteEnds \/ PenaltyEnds \/ UNCHANGED vars
    <2>1. call' = call /\ reserved' = reserved /\ cancels' = cancels
      BY <1>10 DEF Lock, ParkCall, RingCall, LocalMinuteEnds, PenaltyEnds, vars, limiterVars,
                   boundVars
    <2>2. QED
      BY <2>1, NoCallMoves DEF OwnTypeOK
  <1>11. QED
    BY <1>2, <1>3, <1>4, <1>5, <1>6, <1>7, <1>8, <1>9, <1>10 DEF Next, Step

\* WR-14: what is reserved is never more than what the calls that are out have
\* reserved, so every call gives back what it took, on each of its paths and across
\* the ends of windows; only a call cancelled in line does not
\* (rate_limiter.cpp:57-126, rest_client.cpp:568-725).
THEOREM ReservationsGivenBack == Spec => []ReservationsHeld
  <1>1. Init => ReserveInv
    <2> SUFFICES ASSUME Init PROVE ReserveInv
      OBVIOUS
    <2>1. Admitted = {}
      BY DEF Init, Admitted, NoCall, NewCall
    <2>2. IsFiniteSet({}) /\ Total(CostNow, {}) = 0
      BY FS_EmptySet, TotalStep
    <2>3. QED
      BY <2>1, <2>2 DEF ReserveInv, Init
  <1>2. OwnTypeOK /\ OwnTypeOK' /\ ReserveInv /\ [Next]_vars => ReserveInv'
    BY StepReserve
  <1>3. ReserveInv => ReservationsHeld
    BY SumIsTotal DEF ReserveInv, ReservationsHeld
  <1>4. QED
    BY <1>1, <1>2, <1>3, OwnTyped, PTL DEF Spec

----------------------------------------------------------------------------
(* Grants are heard.                                                       *)

\* The calls that are out, and the callers in the middle of an unlock().
Out == {p \in Callers : call[p].at # "idle"}
Ringers == {p \in Callers : \E q \in Callers : <<p, q>> \in ringing}

\* A caller whose wait is about to start is on its way to the session, so it holds a
\* thread; and finitely many callers are out, as each was sent out by a step, so a
\* pool of one thread can tell that none of them runs.
HeardInv ==
    /\ GrantIsHeard
    /\ \A p \in Callers : gate[p] = "parking" => call[p].at = "session"
    /\ IsFiniteSet(Out)
    /\ IsFiniteSet(Ringers)

\* When the only thread is free nobody runs.
LEMMA NobodyRuns ==
    ASSUME HeardInv, threads = 1, ThreadFree
    PROVE  \A p \in Callers : ~Running(p)
  <1> DEFINE Runners == {p \in Callers : Running(p)}
  <1>1. Runners \subseteq Out \cup Ringers
    BY DEF Out, Ringers, Running
  <1>2. IsFiniteSet(Out \cup Ringers)
    BY FS_Union DEF HeardInv
  <1>3. IsFiniteSet(Runners)
    BY <1>1, <1>2, FS_Subset
  <1>4. Cardinality(Runners) < 1
    BY DEF ThreadFree
  <1> HIDE DEF Runners
  <1>5. Cardinality(Runners) = 0
    BY <1>3, <1>4, FS_CardinalityType
  <1>6. Runners = {}
    BY <1>3, <1>5, FS_EmptySet
  <1>7. QED
    BY <1>6 DEF Runners

\* unlock() on the only thread finds the first waiter asleep or awake already, never
\* on its way to sleep, and leaves a cancel() for it to come.
LEMMA LeaveIsHeard ==
    ASSUME GateInv, HeardInv, ThreadFree, NEW p \in Callers, Leave(p), threads' = threads
    PROVE  GrantIsHeard'
  <1> USE DEF GateInv
  <1> SUFFICES ASSUME threads = 1, NEW q \in granted'
               PROVE  \/ gate'[q] = "woken"
                      \/ gate'[q] = "parked" /\ \E r \in Callers : <<r, q>> \in ringing'
    BY DEF GrantIsHeard
  <1>1. gate[p] = "in" /\ gate' = [gate EXCEPT ![p] = "out"]
    BY DEF Leave
  <1>2. CASE q \in granted
    <2>1. q # p /\ q \in Callers
      BY <1>1, <1>2 DEF GrantedWait, Waiting, GateTypeOK
    <2>2. gate'[q] = gate[q]
      BY <1>1, <2>1 DEF GateTypeOK
    <2>3. ringing \subseteq ringing'
      BY DEF Leave
    <2>4. QED
      BY <1>2, <2>2, <2>3 DEF HeardInv, GrantIsHeard
  <1>3. CASE q \notin granted
    <2>1. waiters # <<>> /\ q = Head(waiters) /\ <<p, q>> \in ringing'
      BY <1>3 DEF Leave
    <2>2. q \in Callers /\ gate[q] \in Waiting
      <3>1. 1 \in 1..Len(waiters) /\ waiters[1] = q
        BY <2>1 DEF GateTypeOK
      <3>2. QED
        BY <3>1 DEF GateTypeOK, QueuedWait
    <2>3. gate[q] # "parking"
      <3>1. ~Running(q)
        BY <2>2, NobodyRuns
      <3>2. QED
        BY <2>2, <3>1 DEF Running, HeardInv
    <2>4. gate'[q] = gate[q]
      BY <1>1, <2>2 DEF Waiting, GateTypeOK
    <2>5. QED
      BY <2>1, <2>2, <2>3, <2>4 DEF Waiting
  <1>4. QED
    BY <1>2, <1>3

\* Whatever else happens at the gate leaves a granted caller awake or to be woken.
LEMMA OthersAreHeard ==
    ASSUME GateInv, HeardInv, NEW p \in Callers,
           Enter(p) \/ Park(p) \/ Abandon(p) \/ Wake(p) \/ Ring(p), threads' = threads
    PROVE  GrantIsHeard'
  <1> SUFFICES ASSUME threads = 1, NEW q \in granted'
               PROVE  \/ gate'[q] = "woken"
                      \/ gate'[q] = "parked" /\ \E r \in Callers : <<r, q>> \in ringing'
    BY DEF GrantIsHeard
  <1> USE DEF GateInv
  <1>1. q \in granted /\ q \in Callers
    BY DEF Enter, Park, Abandon, Wake, Ring, GateTypeOK
  <1>2. /\ gate[q] \in Waiting
        /\ \/ gate[q] = "woken"
           \/ gate[q] = "parked" /\ \E r \in Callers : <<r, q>> \in ringing
    BY <1>1 DEF GrantedWait, HeardInv, GrantIsHeard
  <1>3. CASE Enter(p) \/ Park(p)
    BY <1>2, <1>3 DEF Enter, Park, GateTypeOK
  <1>4. CASE Abandon(p)
    BY <1>1, <1>2, <1>4 DEF Abandon, GateTypeOK
  <1>5. CASE Wake(p)
    <2>1. q # p
      BY <1>5 DEF Wake
    <2>2. gate'[q] = gate[q] /\ \A r \in Callers : <<r, q>> \in ringing => <<r, q>> \in ringing'
      BY <1>1, <1>5, <2>1 DEF Wake, GateTypeOK
    <2>3. QED
      BY <1>2, <2>2
  <1>6. CASE Ring(p)
    <2>1. PICK s \in Callers :
             /\ gate' = IF gate[s] = "parked" THEN [gate EXCEPT ![s] = "woken"] ELSE gate
             /\ ringing' = ringing \ {<<p, s>>}
      BY <1>6 DEF Ring
    <2>2. CASE q = s
      BY <1>1, <1>2, <2>1, <2>2 DEF GateTypeOK
    <2>3. CASE q # s
      <3>1. gate'[q] = gate[q]
        BY <1>1, <2>1, <2>3 DEF GateTypeOK
      <3>2. \A r \in Callers : <<r, q>> \in ringing => <<r, q>> \in ringing'
        BY <2>1, <2>3
      <3>3. QED
        BY <1>2, <3>1, <3>2
    <2>4. QED
      BY <2>2, <2>3
  <1>7. QED
    BY <1>3, <1>4, <1>5, <1>6

\* A step sends out one caller at most, and starts one unlock() at most.
LEMMA FewOut ==
    ASSUME OwnTypeOK, HeardInv, NEW p \in Callers,
           \A q \in Callers : q # p => call'[q] = call[q],
           \A r \in ringing' : r \in ringing \/ r[1] = p
    PROVE  IsFiniteSet(Out') /\ IsFiniteSet(Ringers')
  <1>1. IsFiniteSet(Out \cup {p}) /\ IsFiniteSet(Ringers \cup {p})
    BY FS_AddElement DEF HeardInv
  <1>2. Out' \subseteq Out \cup {p}
    BY DEF Out
  <1>3. Ringers' \subseteq Ringers \cup {p}
    BY DEF Ringers
  <1>4. QED
    BY <1>1, <1>2, <1>3, FS_Subset

\* A step of p keeps what GrantIsHeard rests on if it does at the gate what it may do
\* there, and if p is not about to sleep when it leaves the session.
LEMMA CallIsHeard ==
    ASSUME OwnTypeOK, GateInv, HeardInv, NEW p \in Callers, threads' = threads,
           \A q \in Callers : q # p => call'[q] = call[q],
           call'[p].at = call[p].at \/ call[p].at # "session" \/ gate[p] # "parking",
           \/ UNCHANGED gateVars
           \/ Enter(p) /\ call'[p].at = "session"
           \/ Park(p) \/ Abandon(p) \/ Wake(p) \/ Ring(p)
           \/ ThreadFree /\ Leave(p)
    PROVE  HeardInv'
  <1> USE DEF GateInv
  <1>1. GrantIsHeard'
    <2>1. CASE UNCHANGED gateVars
      BY <2>1 DEF HeardInv, GrantIsHeard, gateVars
    <2>2. QED
      BY <2>1, LeaveIsHeard, OthersAreHeard
  <1>2. ASSUME NEW q \in Callers, gate'[q] = "parking" PROVE call'[q].at = "session"
    <2>1. CASE gate[q] = "parking"
      <3>1. call[q].at = "session"
        BY <2>1 DEF HeardInv
      <3>2. QED
        BY <2>1, <3>1
    <2>2. CASE gate[q] # "parking"
      <3>1. Enter(p) /\ q = p
        BY <1>2, <2>2 DEF Enter, Park, Abandon, Wake, Ring, Leave, gateVars, GateTypeOK
      <3>2. QED
        BY <3>1 DEF Enter, Park, Abandon, Wake, Ring, Leave, gateVars, GateTypeOK
    <2>3. QED
      BY <2>1, <2>2
  <1>3. \A r \in ringing' : r \in ringing \/ r[1] = p
    <2>1. ringing' \subseteq ringing \/ \E q : ringing' = ringing \cup {<<p, q>>}
      <3>1. CASE Leave(p)
        BY <3>1 DEF Leave
      <3>2. CASE ~Leave(p)
        BY <3>2 DEF Enter, Park, Abandon, Wake, Ring, gateVars
      <3>3. QED
        BY <3>1, <3>2
    <2>2. QED
      BY <2>1
  <1>4. QED
    BY <1>1, <1>2, <1>3, FewOut DEF HeardInv

\* One action after the other.
LEMMA StepHeard ==
    ASSUME OwnTypeOK, GateInv, HeardInv, [Next]_vars
    PROVE  HeardInv'
  <1>0. ASSUME NEW p \in Callers, NEW c, GoOnAs(p, c)
        PROVE  \A q \in Callers : q # p => call'[q] = call[q]
    BY <1>0 DEF GoOnAs, OwnTypeOK
  <1>1. ASSUME NEW p \in Callers,
               \/ Begin(p) \/ Acquire(p) \/ UpdateFromHeaders(p) \/ Release(p)
               \/ ReadHeaders(p) \/ Retry(p) \/ CancelBeforeSending(p)
        PROVE  HeardInv'
    <2>1. call[p].at # "session" /\ threads' = threads /\ UNCHANGED gateVars
      BY <1>1 DEF Begin, Acquire, UpdateFromHeaders, Release, ReadHeaders, Retry,
                  CancelBeforeSending
    <2>2. call' = call \/ \E c : GoOnAs(p, c)
      BY <1>1 DEF Begin, Acquire, UpdateFromHeaders, Release, ReadHeaders, Retry,
                  CancelBeforeSending, Goto, Return, NextLeg
    <2>3. \A q \in Callers : q # p => call'[q] = call[q]
      BY <1>0, <2>2
    <2>4. QED
      BY <2>1, <2>3, CallIsHeard
  <1>2. ASSUME NEW p \in Callers, Lock(p) \/ ParkCall(p) \/ RingCall(p)
        PROVE  HeardInv'
    <2>1. /\ threads' = threads /\ call' = call
          /\ \/ Enter(p) /\ call[p].at = "session"
             \/ Park(p) \/ Ring(p)
      BY <1>2 DEF Lock, ParkCall, RingCall
    <2>2. QED
      BY <2>1, CallIsHeard
  <1>3. ASSUME NEW p \in Callers, WakeUp(p) \/ CancelInLine(p)
        PROVE  HeardInv'
    <2>1. /\ threads' = threads /\ gate[p] # "parking"
          /\ Wake(p) \/ Abandon(p)
          /\ call' = call \/ \E c : GoOnAs(p, c)
      BY <1>3 DEF WakeUp, CancelInLine, Wake, Abandon, Goto, Return
    <2>2. \A q \in Callers : q # p => call'[q] = call[q]
      BY <1>0, <2>1
    <2>3. QED
      BY <2>1, <2>2, CallIsHeard
  <1>4. ASSUME NEW p \in Callers, Respond(p) \/ LoseResponse(p) \/ QuitWithGate(p)
        PROVE  HeardInv'
    <2>1. /\ threads' = threads /\ gate[p] # "parking"
          /\ ThreadFree /\ Leave(p)
      BY <1>4 DEF Respond, LoseResponse, QuitWithGate, Leave
    <2>2. \E c : GoOnAs(p, c)
      BY <1>4 DEF Respond, LoseResponse, QuitWithGate, Return
    <2>3. \A q \in Callers : q # p => call'[q] = call[q]
      BY <1>0, <2>2
    <2>4. QED
      BY <2>1, <2>3, CallIsHeard
  <1>5. CASE LocalMinuteEnds \/ PenaltyEnds \/ UNCHANGED vars
    <2>1. threads' = threads /\ call' = call /\ UNCHANGED gateVars
      BY <1>5 DEF LocalMinuteEnds, PenaltyEnds, vars
    <2>2. Out' = Out /\ Ringers' = Ringers
      BY <2>1 DEF Out, Ringers, gateVars
    <2>3. QED
      BY <2>1, <2>2 DEF HeardInv, GrantIsHeard, gateVars
  <1>6. QED
    BY <1>1, <1>2, <1>3, <1>4, <1>5 DEF Next, Step

\* On a pool of one thread nobody sleeps with the gate granted to it: when unlock()
\* takes the first waiter, its wait has begun, so that the cancel() to come ends it
\* (http_session.cpp:36-98).  On two threads rest_lost_wakeup shows it asleep.
THEOREM GrantsAreHeard == Spec => []GrantIsHeard
  <1>1. Init => HeardInv
    <2> SUFFICES ASSUME Init PROVE HeardInv
      OBVIOUS
    <2>1. Out = {} /\ Ringers = {}
      BY DEF Init, GateInit, Out, Ringers, NoCall, NewCall
    <2>2. IsFiniteSet({})
      BY FS_EmptySet
    <2>3. granted = {} /\ \A p \in Callers : gate[p] # "parking"
      BY DEF Init, GateInit
    <2>4. QED
      BY <2>1, <2>2, <2>3 DEF HeardInv, GrantIsHeard
  <1>2. OwnTypeOK /\ GateInv /\ HeardInv /\ [Next]_vars => HeardInv'
    BY StepHeard
  <1>3. HeardInv => GrantIsHeard
    BY DEF HeardInv
  <1>4. QED
    BY <1>1, <1>2, <1>3, OwnTyped, CallsUseGate, GateKept, PTL DEF Spec
=============================================================================
