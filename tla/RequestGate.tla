---------------------------- MODULE RequestGate ----------------------------
(***************************************************************************)
(* HttpSession::RequestGate (src/src/transport/http_session.cpp): the      *)
(* mutex of coroutines that keeps the request and response of one call     *)
(* together on the connection.  A caller that finds the gate locked queues *)
(* a waiter and sleeps on its timer, which never expires; unlock() hands   *)
(* the gate to the first waiter and cancels that timer to wake it.         *)
(*                                                                         *)
(* m_mutex is held only inside lock() and unlock(): between queueing the   *)
(* waiter and starting the wait ("parking"), and between granting the gate *)
(* and cancelling the timer ("ringing"), another thread of the pool may    *)
(* run.  Here everything may come between; RestClient says which threads   *)
(* there are.                                                              *)
(***************************************************************************)
EXTENDS Naturals, SequencesExt

CONSTANT Callers    \* the coroutines that share the session

VARIABLES
    gate,       \* where each caller stands
    locked,     \* m_locked
    waiters,    \* m_waiters, by their callers
    granted,    \* callers whose waiter has `granted' set
    ringing     \* <<p, q>>: p's unlock() has yet to cancel the timer of q

gateVars == <<gate, locked, waiters, granted, ringing>>

GateStates == {"out", "parking", "parked", "woken", "in"}
Waiting == {"parking", "parked", "woken"}

GateInit ==
    /\ gate = [p \in Callers |-> "out"]
    /\ locked = FALSE
    /\ waiters = <<>>
    /\ granted = {}
    /\ ringing = {}

\* m_waiters.erase(find(waiter)).
Erase(p) ==
    IF \E i \in 1..Len(waiters) : waiters[i] = p
    THEN RemoveAt(waiters, CHOOSE i \in 1..Len(waiters) : waiters[i] = p)
    ELSE waiters

----------------------------------------------------------------------------
(* lock() up to the wait, and the wait.                                    *)

\* The mistake of handing out a gate that is already taken.
EnterUnchecked(p) ==
    /\ gate[p] = "out"
    /\ IF waiters = <<>>
       THEN locked' = TRUE /\ gate' = [gate EXCEPT ![p] = "in"] /\ UNCHANGED waiters
       ELSE /\ gate' = [gate EXCEPT ![p] = "parking"]
            /\ waiters' = Append(waiters, p)
            /\ UNCHANGED locked
    /\ UNCHANGED <<granted, ringing>>

Enter(p) ==
    /\ gate[p] = "out"
    /\ IF ~locked
       THEN locked' = TRUE /\ gate' = [gate EXCEPT ![p] = "in"] /\ UNCHANGED waiters
       ELSE /\ gate' = [gate EXCEPT ![p] = "parking"]
            /\ waiters' = Append(waiters, p)
            /\ UNCHANGED locked
    /\ UNCHANGED <<granted, ringing>>

\* timer.async_wait starts; a cancel() made before it has found nothing to cancel.
Park(p) ==
    /\ gate[p] = "parking"
    /\ gate' = [gate EXCEPT ![p] = "parked"]
    /\ UNCHANGED <<locked, waiters, granted, ringing>>

\* The call is cancelled from outside while it waits (klinesWithTimeout).
Abandon(p) ==
    /\ gate[p] = "parked"
    /\ gate' = [gate EXCEPT ![p] = "woken"]
    /\ UNCHANGED <<locked, waiters, granted, ringing>>

\* The mistake of taking every wake-up for a grant.
WakeUnchecked(p) ==
    /\ gate[p] = "woken"
    /\ gate' = [gate EXCEPT ![p] = "in"]
    /\ granted' = granted \ {p}
    /\ ringing' = {r \in ringing : r[2] # p}
    /\ waiters' = Erase(p)
    /\ UNCHANGED locked

\* The mistake of leaving the waiter of a cancelled call in the queue (CR-34).
WakeStaysQueued(p) ==
    /\ gate[p] = "woken"
    /\ gate' = [gate EXCEPT ![p] = IF p \in granted THEN "in" ELSE "out"]
    /\ granted' = granted \ {p}
    /\ ringing' = {r \in ringing : r[2] # p}
    /\ UNCHANGED <<locked, waiters>>

\* async_wait returns: with the gate, or with an error that lock() throws on.
\* A ring that comes after that finds no wait.
Wake(p) ==
    /\ gate[p] = "woken"
    /\ IF p \in granted
       THEN gate' = [gate EXCEPT ![p] = "in"] /\ UNCHANGED waiters
       ELSE gate' = [gate EXCEPT ![p] = "out"] /\ waiters' = Erase(p)
    /\ granted' = granted \ {p}
    /\ ringing' = {r \in ringing : r[2] # p}
    /\ UNCHANGED locked

----------------------------------------------------------------------------
(* unlock().                                                               *)

\* The mistake of serving the waiter that came last.
LeaveToLast(p) ==
    /\ gate[p] = "in"
    /\ gate' = [gate EXCEPT ![p] = "out"]
    /\ IF waiters = <<>>
       THEN locked' = FALSE /\ UNCHANGED <<waiters, granted, ringing>>
       ELSE /\ granted' = granted \cup {Last(waiters)}
            /\ ringing' = ringing \cup {<<p, Last(waiters)>>}
            /\ waiters' = Front(waiters)
            /\ UNCHANGED locked

\* The mistake of handing the gate on without cancelling the timer of its waiter.
LeaveUnrung(p) ==
    /\ gate[p] = "in"
    /\ gate' = [gate EXCEPT ![p] = "out"]
    /\ IF waiters = <<>>
       THEN locked' = FALSE /\ UNCHANGED <<waiters, granted>>
       ELSE /\ granted' = granted \cup {Head(waiters)}
            /\ waiters' = Tail(waiters)
            /\ UNCHANGED locked
    /\ UNCHANGED ringing

Leave(p) ==
    /\ gate[p] = "in"
    /\ gate' = [gate EXCEPT ![p] = "out"]
    /\ IF waiters = <<>>
       THEN locked' = FALSE /\ UNCHANGED <<waiters, granted, ringing>>
       ELSE /\ granted' = granted \cup {Head(waiters)}
            /\ ringing' = ringing \cup {<<p, Head(waiters)>>}
            /\ waiters' = Tail(waiters)
            /\ UNCHANGED locked

\* next->timer.cancel(): it ends the wait if one has started.
Ring(p) ==
    \E q \in Callers :
        /\ <<p, q>> \in ringing
        /\ gate' = IF gate[q] = "parked" THEN [gate EXCEPT ![q] = "woken"] ELSE gate
        /\ ringing' = ringing \ {<<p, q>>}
        /\ UNCHANGED <<locked, waiters, granted>>

GateStep(p) ==
    Enter(p) \/ Park(p) \/ Abandon(p) \/ Wake(p) \/ Leave(p) \/ Ring(p)

GateSpec == GateInit /\ [][\E p \in Callers : GateStep(p)]_gateVars

----------------------------------------------------------------------------
GateTypeOK ==
    /\ gate \in [Callers -> GateStates]
    /\ locked \in BOOLEAN
    /\ waiters \in Seq(Callers)
    /\ granted \subseteq Callers
    /\ ringing \subseteq Callers \X Callers

\* The callers the gate belongs to, those that do not know it yet included.
Holders == {p \in Callers : gate[p] = "in" \/ p \in granted}

\* http_session.cpp:202 "Beast streams allow only one in-flight operation chain
\* per connection": two callers are never through the gate together, whatever is
\* cancelled and however many threads run them.
MutualExclusion == \A p, q \in Callers : gate[p] = "in" /\ gate[q] = "in" => p = q

\* What the gate keeps true of its own books: it has at most one holder, and one
\* exactly when it is locked; a caller that waits is either queued, once, or the
\* holder; and nobody queues at an open gate.
LockedForHolder == locked <=> Holders # {}
OneHolder == \A p, q \in Holders : p = q
GrantedWait ==
    /\ \A p \in granted : gate[p] \in Waiting
    /\ \A r \in ringing : r[2] \in granted
QueuedWait ==
    \A i \in 1..Len(waiters) : gate[waiters[i]] \in Waiting /\ waiters[i] \notin granted
QueuedOnce == \A i, j \in 1..Len(waiters) : waiters[i] = waiters[j] => i = j
WaitersQueued ==
    \A p \in Callers : gate[p] \in Waiting /\ p \notin granted
                        => \E i \in 1..Len(waiters) : waiters[i] = p
OpenIsEmpty == ~locked => waiters = <<>>

GateInv ==
    /\ GateTypeOK
    /\ LockedForHolder
    /\ OneHolder
    /\ GrantedWait
    /\ QueuedWait
    /\ QueuedOnce
    /\ WaitersQueued
    /\ OpenIsEmpty

\* The line the callers stand in: the holder, then the queue.
Line == IF Holders = {} THEN <<>> ELSE <<CHOOSE p \in Callers : p \in Holders>> \o waiters
Order == INSTANCE FifoLine WITH line <- Line

\* The gate serves its callers in the order lock() queued them, one at a time;
\* only a call cancelled while it waits steps out (http_session.cpp:36-96).
InOrder == Order!LineSpec
=============================================================================
