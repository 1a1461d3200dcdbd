----------------------------- MODULE RestClient -----------------------------
(***************************************************************************)
(* Calls of one RestClient (src/src/rest/rest_client.cpp) over its         *)
(* HttpSession and the RateLimiter all clients share.                      *)
(*                                                                         *)
(* Every call reserves its cost with the limiter, goes through the gate of *)
(* the session, exchanges a request for a response, tells the limiter what *)
(* the response's headers say was used, and gives its reservation back.    *)
(* publicGet tries up to three times; a signed call that the venue refuses *)
(* for its timestamp reads the server's clock with a public call of its    *)
(* own and is signed and sent once more; a call with the API key alone is  *)
(* never repeated.                                                         *)
(*                                                                         *)
(* One weight per window stands for the limiter's three counters (weight   *)
(* per minute, orders per minute, orders per ten seconds), which acquire   *)
(* admits by the same rule.                                                *)
(***************************************************************************)
EXTENDS RequestGate, FiniteSetsExt

CONSTANTS
    ThreadCounts,   \* the values ContextConfig::threadPoolSize may have
    Kind,           \* what each caller calls: publicGet, signed*, apiKey*
    Cost,           \* the cost of its request
    Budget,         \* safeBudget(limit, safetyRatio)
    Rolls,          \* windows end while calls are out
    MaxCalls,       \* bound: calls made
    MaxFaults,      \* bound: requests that do not succeed
    MaxCancels      \* bound: public calls cancelled by their caller

kMaxAttempts == 3
TimeCost == 1       \* RateLimiter::Cost{} of serverTime

ASSUME RestAssumption ==
    /\ ThreadCounts \subseteq Nat \ {0}
    /\ Kind \in [Callers -> {"public", "signed", "key"}]
    /\ Cost \in [Callers -> Nat \ {0}]
    /\ Budget \in Nat \ {0}
    /\ \A p \in Callers : Cost[p] <= Budget
    /\ Rolls \in BOOLEAN
    /\ {MaxCalls, MaxFaults, MaxCancels} \subseteq Nat

VARIABLES
    threads,    \* threadPoolSize, fixed from the start
    call,       \* the coroutine of each caller
    header,     \* m_headerUsedWeight
    reserved,   \* m_reservedWeight
    lapsed,     \* a minute has passed since m_windowStart
    penalized,  \* m_penaltyUntil is still to come
    lastUsed,   \* the session's m_lastUsedWeight
    used,       \* the venue's count for its minute
    executed,   \* how often the venue carried out the call
    calls, faults, cancels      \* counted against the bounds

limiterVars == <<header, reserved, lapsed, penalized>>
sessionVars == <<lastUsed, used, executed>>
boundVars == <<calls, faults, cancels>>
vars == <<threads, call, limiterVars, sessionVars, boundVars, gateVars>>

\* What a coroutine is about to do; its leg: a public call, a call with the API
\* key, or the first sending of a signed call, the reading of the server's clock
\* after it, its second sending; publicGet's attempt; the answer it holds; and
\* the header usage it has read from the session.
Stages == {"idle", "acquire", "session", "headers", "update", "release", "backoff", "quit"}
Legs == {"public", "key", "first", "time", "second"}
Answers == {"none", "ok", "limit", "busy", "stamp", "error", "lost"}
Call == [at : Stages, leg : Legs, attempt : 0..(kMaxAttempts - 1), answer : Answers,
         seen : Nat]

FirstLeg(p) == CASE Kind[p] = "public" -> "public"
                 [] Kind[p] = "signed" -> "first"
                 [] OTHER -> "key"
NewCall(p) == [at |-> "acquire", leg |-> FirstLeg(p), attempt |-> 0, answer |-> "none",
               seen |-> 0]
NoCall(p) == [NewCall(p) EXCEPT !.at = "idle"]
CostOf(p) == IF call[p].leg = "time" THEN TimeCost ELSE Cost[p]

Init ==
    /\ GateInit
    /\ threads \in ThreadCounts
    /\ call = [p \in Callers |-> NoCall(p)]
    /\ header = 0 /\ reserved = 0 /\ lapsed = FALSE /\ penalized = FALSE
    /\ lastUsed = 0 /\ used = 0
    /\ executed = [p \in Callers |-> 0]
    /\ calls = 0 /\ faults = 0 /\ cancels = 0

\* A caller whose coroutine is between two awaits, and has a thread for itself.
Running(p) ==
    \/ call[p].at \in {"headers", "update", "release"}
    \/ call[p].at = "session" /\ gate[p] \in {"out", "parking"}
    \/ \E q \in Callers : <<p, q>> \in ringing

\* Another coroutine may be resumed.
ThreadFree == Cardinality({p \in Callers : Running(p)}) < threads

\* p's unlock() is over.
RungOut(p) == \A q \in Callers : <<p, q>> \notin ringing

GoOnAs(p, c) == call' = [call EXCEPT ![p] = c]
Goto(p, at) == GoOnAs(p, [call[p] EXCEPT !.at = at])
Return(p) == GoOnAs(p, NoCall(p))

Begin(p) ==
    /\ ThreadFree /\ RungOut(p)
    /\ call[p].at = "idle" /\ calls < MaxCalls
    /\ calls' = calls + 1
    /\ GoOnAs(p, NewCall(p))
    /\ executed' = [executed EXCEPT ![p] = 0]
    /\ UNCHANGED <<threads, limiterVars, lastUsed, used, faults, cancels, gateVars>>

----------------------------------------------------------------------------
(* RateLimiter.                                                            *)

\* refreshWindowsLocked: what is left of a counter when the limiter looks.
Refreshed(count) == IF lapsed THEN 0 ELSE count

LargerOf(a, b) == IF a >= b THEN a ELSE b
Fits(cost) == LargerOf(Refreshed(header), Refreshed(reserved)) + cost <= Budget

\* One turn of acquire's loop; a caller that is not granted sleeps and tries again.
Acquire(p) ==
    /\ ThreadFree
    /\ call[p].at = "acquire"
    /\ lapsed' = FALSE
    /\ header' = Refreshed(header)
    /\ IF ~penalized /\ Fits(CostOf(p))
       THEN reserved' = Refreshed(reserved) + CostOf(p) /\ Goto(p, "session")
       ELSE reserved' = Refreshed(reserved) /\ UNCHANGED call
    /\ UNCHANGED <<threads, penalized, sessionVars, boundVars, gateVars>>

\* updateFromHeaders.
UpdateFromHeaders(p) ==
    /\ call[p].at = "update"
    /\ lapsed' = FALSE
    /\ header' = call[p].seen
    /\ reserved' = Refreshed(reserved)
    /\ Goto(p, "release")
    /\ UNCHANGED <<threads, penalized, sessionVars, boundVars, gateVars>>

\* The mistake WR-14 reports: the reservation stays until the window ends.
NotReleased(cost) == reserved

\* The mistake of forgetting that the window may have ended since acquire.
ReleasedUnclamped(cost) == reserved - cost

\* release, with max(0, ...).
Released(cost) == IF reserved >= cost THEN reserved - cost ELSE 0

----------------------------------------------------------------------------
(* HttpSession::execute.                                                   *)

Lock(p) ==
    /\ call[p].at = "session"
    /\ Enter(p)
    /\ UNCHANGED <<threads, call, limiterVars, sessionVars, boundVars>>

WakeUp(p) ==
    /\ ThreadFree
    /\ Wake(p)
    /\ IF call[p].at = "quit" /\ gate'[p] = "out" THEN Return(p) ELSE UNCHANGED call
    /\ UNCHANGED <<threads, limiterVars, sessionVars, boundVars>>

AnswersTo(leg) ==
    CASE leg \in {"public", "time"} -> {"limit", "busy", "error"}
      [] leg = "key" -> {"limit", "error"}
      [] OTHER -> {"limit", "stamp", "error"}

\* The venue counts a request, in the same minute as the last or in a new one.
Counted(p) == {used + CostOf(p)} \cup IF Rolls THEN {CostOf(p)} ELSE {}

\* The response comes: its headers are kept, and the gate is left.  The venue
\* carries out what it answers with "ok".
Respond(p) ==
    /\ ThreadFree
    /\ call[p].at = "session" /\ gate[p] = "in"
    /\ \/ /\ GoOnAs(p, [call[p] EXCEPT !.at = "headers", !.answer = "ok"])
          /\ executed' = [executed EXCEPT ![p] = IF call[p].leg = "time" THEN @ ELSE @ + 1]
          /\ UNCHANGED faults
       \/ /\ faults < MaxFaults /\ faults' = faults + 1
          /\ \E answer \in AnswersTo(call[p].leg) :
                GoOnAs(p, [call[p] EXCEPT !.at = "headers", !.answer = answer])
          /\ UNCHANGED executed
    /\ used' \in Counted(p)
    /\ lastUsed' = used'
    /\ Leave(p)
    /\ UNCHANGED <<threads, limiterVars, calls, cancels>>

\* Connecting, writing or reading fails or times out, or the caller cancels:
\* the stream is reset, and what the venue has done is not known.
LoseResponse(p) ==
    /\ ThreadFree
    /\ call[p].at = "session" /\ gate[p] = "in"
    /\ faults < MaxFaults /\ faults' = faults + 1
    /\ GoOnAs(p, [call[p] EXCEPT !.at = "headers", !.answer = "lost"])
    /\ \/ UNCHANGED <<used, executed>>
       \/ /\ used' \in Counted(p)
          /\ \/ UNCHANGED executed
             \/ /\ call[p].leg # "time"
                /\ executed' = [executed EXCEPT ![p] = @ + 1]
    /\ Leave(p)
    /\ UNCHANGED <<threads, lastUsed, limiterVars, calls, cancels>>

\* m_session->lastUsedWeight(), which may by now be another call's.
ReadHeaders(p) ==
    /\ call[p].at = "headers" /\ RungOut(p)
    /\ GoOnAs(p, [call[p] EXCEPT !.at = "update", !.seen = lastUsed])
    /\ UNCHANGED <<threads, limiterVars, sessionVars, boundVars, gateVars>>

----------------------------------------------------------------------------
(* What publicGet, signed* and apiKey* do with the result.                 *)

ShouldRetryPublicGet(p) ==
    call[p].answer \in {"limit", "busy"} /\ call[p].attempt + 1 < kMaxAttempts

\* The mistake of signing and sending again whatever was not answered.
ShouldResendWhatIsLost(p) == call[p].leg = "first" /\ call[p].answer \in {"stamp", "lost"}

ShouldSynchronize(p) == call[p].leg = "first" /\ call[p].answer = "stamp"

Penalizes(p) == call[p].answer = "limit" /\ call[p].leg # "second"

NextLeg(p, leg) == GoOnAs(p, [NewCall(p) EXCEPT !.leg = leg])

\* release and, on a rate limit, penalize: an acquire that came between the two is
\* one that came after a penalty that has already ended.
Release(p) ==
    /\ call[p].at = "release"
    /\ reserved' = Released(CostOf(p))
    /\ penalized' = (penalized \/ Penalizes(p))
    /\ IF call[p].leg \in {"public", "time"} /\ ShouldRetryPublicGet(p)
       THEN GoOnAs(p, [call[p] EXCEPT !.at = "backoff", !.attempt = @ + 1])
       ELSE IF call[p].leg = "time" /\ call[p].answer = "ok" THEN NextLeg(p, "second")
       ELSE IF ShouldSynchronize(p) THEN NextLeg(p, "time")
       ELSE Return(p)
    /\ UNCHANGED <<threads, header, lapsed, sessionVars, boundVars, gateVars>>

\* retryDelay has passed.
Retry(p) ==
    /\ ThreadFree
    /\ call[p].at = "backoff"
    /\ Goto(p, "acquire")
    /\ UNCHANGED <<threads, limiterVars, sessionVars, boundVars, gateVars>>

----------------------------------------------------------------------------
(* klinesWithTimeout cancels the call it races.                            *)

CancelBeforeSending(p) ==
    /\ ThreadFree
    /\ call[p].leg = "public" /\ call[p].at \in {"acquire", "backoff"}
    /\ cancels < MaxCancels /\ cancels' = cancels + 1
    /\ Return(p)
    /\ UNCHANGED <<threads, limiterVars, sessionVars, calls, faults, gateVars>>

\* lock() throws past publicGet, which does not get to its release.
CancelInLine(p) ==
    /\ ThreadFree
    /\ call[p].leg = "public" /\ call[p].at = "session"
    /\ cancels < MaxCancels /\ cancels' = cancels + 1
    /\ Abandon(p)
    /\ Goto(p, "quit")
    /\ UNCHANGED <<threads, limiterVars, sessionVars, calls, faults>>

\* Granted the gate all the same: the next co_await throws, which leaves it.
QuitWithGate(p) ==
    /\ ThreadFree
    /\ call[p].at = "quit"
    /\ Leave(p)
    /\ Return(p)
    /\ UNCHANGED <<threads, limiterVars, sessionVars, boundVars>>

----------------------------------------------------------------------------
(* Time.                                                                   *)

\* With nothing counted, a window that ends makes no difference.
LocalMinuteEnds ==
    /\ Rolls /\ ~lapsed /\ header + reserved > 0
    /\ lapsed' = TRUE
    /\ UNCHANGED <<threads, call, header, reserved, penalized, sessionVars, boundVars, gateVars>>

PenaltyEnds ==
    /\ penalized
    /\ penalized' = FALSE
    /\ UNCHANGED <<threads, call, header, reserved, lapsed, sessionVars, boundVars, gateVars>>

ParkCall(p) == Park(p) /\ UNCHANGED <<threads, call, limiterVars, sessionVars, boundVars>>
RingCall(p) == Ring(p) /\ UNCHANGED <<threads, call, limiterVars, sessionVars, boundVars>>

Step(p) ==
    \/ Acquire(p) \/ UpdateFromHeaders(p) \/ Release(p)
    \/ Lock(p) \/ WakeUp(p) \/ Respond(p) \/ LoseResponse(p) \/ ReadHeaders(p)
    \/ Retry(p) \/ QuitWithGate(p) \/ ParkCall(p) \/ RingCall(p)

Next ==
    \/ \E p \in Callers : Begin(p) \/ Step(p) \/ CancelBeforeSending(p) \/ CancelInLine(p)
    \/ LocalMinuteEnds \/ PenaltyEnds

Spec == Init /\ [][Next]_vars

\* Every coroutine that can run gets a thread, a request is answered or times
\* out (m_requestIoTimeout), minutes and penalties end.
FairSpec ==
    /\ Spec
    /\ \A p \in Callers : WF_vars(Step(p))
    /\ WF_vars(LocalMinuteEnds) /\ WF_vars(PenaltyEnds)

----------------------------------------------------------------------------
TypeOK ==
    /\ GateTypeOK
    /\ threads \in ThreadCounts
    /\ call \in [Callers -> Call]
    /\ {header, reserved, lastUsed, used} \subseteq Nat
    /\ {lapsed, penalized} \subseteq BOOLEAN
    /\ executed \in [Callers -> Nat]
    /\ {calls, faults, cancels} \subseteq Nat

\* A signed or keyed call, an order above all, is carried out at most once however
\* it is retried (rest_client.cpp:646: only a call refused for its timestamp is
\* sent again), and a call is off the session when it returns.
AtMostOnce == \A p \in Callers : Kind[p] # "public" => executed[p] <= 1

\* The calls that have reserved and not given back.
Admitted == {p \in Callers : call[p].at \in {"session", "headers", "update", "release"}}

\* WR-14 (docs/comprehensive-reviews/2026-05-29-src-v1.1.md:162, "reservations
\* never released"): a reservation does not outlive the call that made it, unless
\* that call was cancelled in line.
ReservationsHeld ==
    cancels = 0 => reserved <= MapThenSumSet(CostOf, Admitted)

\* The gate's grants are heard (http_session.cpp:36-98): on a pool of one thread
\* the caller an unlock() hands the gate to is awake, or asleep with the cancel()
\* that wakes it still to come; its wait never begins behind that cancel().
GrantIsHeard ==
    threads = 1 =>
        \A p \in granted :
            \/ gate[p] = "woken"
            \/ gate[p] = "parked" /\ \E q \in Callers : <<q, p>> \in ringing

\* On a pool of one thread no call is left behind at the gate, at the limiter or
\* in a retry: once no more calls are made, all that were made return
\* (http_session.cpp:36-98, rate_limiter.cpp:57-126, rest_client.cpp:568-628).
CallsDrain ==
    threads = 1 /\ calls = MaxCalls ~> \A p \in Callers : call[p].at = "idle"
=============================================================================
