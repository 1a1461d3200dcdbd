----------------------------- MODULE Exchange -----------------------------
(***************************************************************************)
(* The venue as the signal engine sees it: positions, the exit orders that *)
(* rest on them, the user data stream, and one outstanding request for     *)
(* each coroutine.  The order and account services of src/ are the channel *)
(* in between: a request that fails after it was sent may still have taken *)
(* effect (orders::isAmbiguousPlacementError), and the engine cannot tell. *)
(*                                                                         *)
(* One-way mode and one direction: a position is a number of lots, market  *)
(* orders add to it, reduce-only orders take from it.  Exit orders stay    *)
(* until they fill or are cancelled, which is why the code cancels them.   *)
(***************************************************************************)
EXTENDS PositionTracker, Sequences

CONSTANTS
    Procs,          \* the engine's coroutines
    MaxFaults,      \* bound: requests that fail though the venue would serve them
    MaxExternal,    \* bound: positions closed by hand
    Ambiguous,      \* may a failed request have taken effect?
    AckOnly,        \* may a market order answer without its executed quantity?
    DropsEvents     \* may the user data stream lose what it queued?

ASSUME ExchangeAssumption ==
    /\ MaxFaults \in Nat /\ MaxExternal \in Nat
    /\ Ambiguous \in BOOLEAN /\ AckOnly \in BOOLEAN /\ DropsEvents \in BOOLEAN

VARIABLES
    live,       \* [Symbols -> lots held]
    exits,      \* [Symbols -> open exit orders, with the lots they have left]
    events,     \* fills the user data stream has still to deliver
    call,       \* [Procs -> the coroutine's outstanding request, or its answer]
    faults,     \* requests that failed so far
    externals   \* positions closed by hand so far

exchangeVars == <<live, exits, events, call, faults, externals>>

Order == [id : ExitId, qty : Nat]
Event == [sym : Symbols, id : ExitId \cup {NoExit}, filled : BOOLEAN, qty : Nat]
Ops == {"none", "leverage", "snapshot", "market", "close", "place", "cancel"}
Call == [op : Ops, sym : Symbols, id : ExitId \cup {NoExit}, qty : Nat,
         st : {"idle", "sent", "accepted", "failed"}, val : [Symbols -> Nat]]

NoVal == [s \in Symbols |-> 0]
AnySymbol == CHOOSE s \in Symbols : TRUE
NoCall == [op |-> "none", sym |-> AnySymbol, id |-> NoExit, qty |-> 0,
           st |-> "idle", val |-> NoVal]
Request(op, s, id, qty) ==
    [NoCall EXCEPT !.op = op, !.sym = s, !.id = id, !.qty = qty, !.st = "sent"]

\* What the coroutine's continuation looks at.
Answered(p) == call[p].st \in {"accepted", "failed"}
Ok(p) == call[p].st = "accepted"

ExchangeInit ==
    /\ live = NoVal
    /\ exits = [s \in Symbols |-> {}]
    /\ events = <<>>
    /\ call = [p \in Procs |-> NoCall]
    /\ faults = 0
    /\ externals = 0

ExchangeTypeOK ==
    /\ live \in [Symbols -> Nat]
    /\ exits \in [Symbols -> SUBSET Order]
    /\ events \in Seq(Event)
    /\ call \in [Procs -> Call]
    /\ faults \in 0 .. MaxFaults
    /\ externals \in 0 .. MaxExternal

----------------------------------------------------------------------------
(* Serving a request.                                                      *)

Pending(p, op) == call[p].st = "sent" /\ call[p].op = op

\* A request that took effect is answered with success, or its answer is lost
\* and the service reports a failure.
AnswerWith(p, val) ==
    \/ /\ call' = [call EXCEPT ![p].st = "accepted", ![p].val = val]
       /\ UNCHANGED faults
    \/ /\ Ambiguous /\ faults < MaxFaults
       /\ call' = [call EXCEPT ![p].st = "failed"]
       /\ faults' = faults + 1

Answer(p) == AnswerWith(p, NoVal)
Fail(p) == call' = [call EXCEPT ![p].st = "failed"]

ServeLeverage(p) ==
    /\ Pending(p, "leverage")
    /\ Answer(p)
    /\ UNCHANGED <<live, exits, events, externals>>

ServeSnapshot(p) ==
    /\ Pending(p, "snapshot")
    /\ call' = [call EXCEPT ![p].st = "accepted", ![p].val = live]
    /\ UNCHANGED <<live, exits, events, faults, externals>>

\* Whatever part of a market order fills, fills at once.
ServeMarket(p) ==
    /\ Pending(p, "market")
    /\ LET s == call[p].sym IN
       \E q \in 1 .. call[p].qty :
           /\ live' = [live EXCEPT ![s] = @ + q]
           /\ \/ AnswerWith(p, [NoVal EXCEPT ![s] = q])
              \/ AckOnly /\ AnswerWith(p, NoVal)
    /\ UNCHANGED <<exits, events, externals>>

ServeClose(p) ==
    /\ Pending(p, "close")
    /\ LET s == call[p].sym IN
       /\ live[s] > 0
       /\ live' = [live EXCEPT ![s] = IF @ > call[p].qty THEN @ - call[p].qty ELSE 0]
    /\ Answer(p)
    /\ UNCHANGED <<exits, events, externals>>

ServePlace(p) ==
    /\ Pending(p, "place")
    /\ call[p].id.leg = "tp" => live[call[p].sym] > 0
    /\ exits' = [exits EXCEPT ![call[p].sym] =
                    @ \cup {[id |-> call[p].id, qty |-> call[p].qty]}]
    /\ Answer(p)
    /\ UNCHANGED <<live, events, externals>>

ServeCancel(p) ==
    /\ Pending(p, "cancel")
    /\ LET s == call[p].sym
           mine == {o \in exits[s] : o.id = call[p].id}
       IN /\ mine # {}
          /\ exits' = [exits EXCEPT ![s] = @ \ mine]
    /\ Answer(p)
    /\ UNCHANGED <<live, events, externals>>

\* The venue itself refuses: nothing to close, nothing to take profit on,
\* no such order.
Refuse(p) ==
    /\ LET s == call[p].sym IN
       \/ Pending(p, "close") /\ live[s] = 0
       \/ Pending(p, "place") /\ call[p].id.leg = "tp" /\ live[s] = 0
       \/ Pending(p, "cancel") /\ \A o \in exits[s] : o.id # call[p].id
    /\ Fail(p)
    /\ UNCHANGED <<live, exits, events, faults, externals>>

\* A request that never took effect: refused by a rate limit, a filter, the
\* journal, or lost on its way out.
Lose(p) ==
    /\ call[p].st = "sent" /\ faults < MaxFaults
    /\ Fail(p)
    /\ faults' = faults + 1
    /\ UNCHANGED <<live, exits, events, externals>>

Serve(p) ==
    \/ ServeLeverage(p) \/ ServeSnapshot(p) \/ ServeMarket(p)
    \/ ServeClose(p) \/ ServePlace(p) \/ ServeCancel(p) \/ Refuse(p) \/ Lose(p)

----------------------------------------------------------------------------
(* What the market does by itself.                                         *)

Notice(s, id, filled, q) ==
    events' = Append(events, [sym |-> s, id |-> id, filled |-> filled, qty |-> q])

\* A take-profit limit fills in parts; a triggered stop sells all it can.
FillExit(s) ==
    /\ live[s] > 0
    /\ \E o \in exits[s] : \E q \in 1 .. o.qty :
        /\ q <= live[s]
        /\ o.id.leg = "sl" => (q = o.qty \/ q = live[s])
        /\ live' = [live EXCEPT ![s] = @ - q]
        /\ exits' = [exits EXCEPT ![s] =
              (@ \ {o}) \cup (IF q < o.qty /\ o.id.leg = "tp"
                              THEN {[o EXCEPT !.qty = @ - q]} ELSE {})]
        /\ Notice(s, o.id, q = o.qty \/ o.id.leg = "sl", q)
    /\ UNCHANGED <<call, faults, externals>>

CloseByHand(s) ==
    /\ externals < MaxExternal /\ live[s] > 0
    /\ externals' = externals + 1
    /\ live' = [live EXCEPT ![s] = 0]
    /\ Notice(s, NoExit, TRUE, live[s])
    /\ UNCHANGED <<exits, call, faults>>

\* The stream is down, or its listen key has expired.
DropEvents ==
    /\ DropsEvents /\ events # <<>>
    /\ events' = <<>>
    /\ UNCHANGED <<live, exits, call, faults, externals>>

Market == (\E s \in Symbols : FillExit(s) \/ CloseByHand(s)) \/ DropEvents
=============================================================================
