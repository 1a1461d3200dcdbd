------------------------ MODULE SignalEngine_proofs ------------------------
(***************************************************************************)
(* Safety of the signal engine, proved for every value of the constants:   *)
(* IInv is an inductive invariant of Spec, and from it follow the types,   *)
(* the ownership of reservations, that a commit never fails, and that a    *)
(* trailing stop is never hung on the successor of the position it was     *)
(* made for.  JInv is inductive on top of IInv; from the two follow that a *)
(* poll never removes the entry of a position that is there, and, where a  *)
(* replacement is placed for all that is held, that a tracked live         *)
(* position keeps a stop.                                                  *)
(*                                                                         *)
(* First come the facts every step rests on, then one lemma for each way a *)
(* coroutine may step, then the actions, then the theorems of IInv.  The   *)
(* second half does the same for JInv: what a step of the engine is        *)
(* (EngineStep) and what a step of the venue is (ExchangeStep), that each  *)
(* keeps JInv, that every action is one of the two, and the theorems.      *)
(***************************************************************************)
EXTENDS SignalEngine, PositionTracker_proofs

\* The three coroutines are there, and a symbol to fill the unused fields with.
LEMMA Constants ==
    /\ Procs = {"opener", "monitor", "trailer"}
    /\ AnySymbol \in Symbols
    /\ OpenQty \in Nat
    /\ NoVal \in [Symbols -> Nat]
    /\ MaxFaults \in Nat /\ MaxExternal \in Nat
    /\ MaxOpens \in Nat /\ MaxTrails \in Nat /\ MaxCrashes \in Nat
    /\ TakeProfits \in SUBSET BOOLEAN /\ StopLosses \in SUBSET BOOLEAN
    /\ Trailing \in BOOLEAN
  BY SignalEngineAssumption, ExchangeAssumption DEF AnySymbol, NoVal

\* Having nothing to ask for is no order.
LEMMA NoCallTyped == NoCall \in Call /\ NoCall.op = "none"
  BY Constants DEF NoCall, Call, Ops

\* A request is a call, of the kind and with the id it is made with.
LEMMA RequestTyped ==
    ASSUME NEW o \in Ops, NEW s \in Symbols, NEW id \in ExitId \cup {NoExit}, NEW q \in Nat
    PROVE  /\ Request(o, s, id, q) \in Call
           /\ Request(o, s, id, q).op = o /\ Request(o, s, id, q).id = id
  BY NoCallTyped DEF Request, NoCall, Call

\* What a coroutine asks for, and that only PlaceExit places.
LEMMA RequestsTyped ==
    /\ AccountSnapshot \in Call /\ AccountSnapshot.op # "place"
    /\ \A s \in Symbols :
        /\ PositionOf(s) \in Call /\ PositionOf(s).op # "place"
        /\ \A q \in Nat : /\ CloseByMarket(s, q) \in Call /\ CloseByMarket(s, q).op # "place"
                          /\ Request("market", s, NoExit, q) \in Call
                          /\ Request("market", s, NoExit, q).op # "place"
        /\ Request("leverage", s, NoExit, 0) \in Call
        /\ Request("leverage", s, NoExit, 0).op # "place"
        /\ \A id \in ExitId \cup {NoExit} :
            CancelExit(s, id) \in Call /\ CancelExit(s, id).op # "place"
        /\ \A id \in ExitId : \A q \in Nat :
            PlaceExit(s, id, q) \in Call /\ PlaceExit(s, id, q).id = id
<1>1. {"snapshot", "close", "market", "leverage", "cancel", "place"} \subseteq Ops
  BY DEF Ops
<1>2. AccountSnapshot \in Call /\ AccountSnapshot.op # "place"
  BY <1>1, RequestTyped, Constants, 0 \in Nat DEF AccountSnapshot
<1>3. ASSUME NEW s \in Symbols
      PROVE  /\ PositionOf(s) \in Call /\ PositionOf(s).op # "place"
             /\ Request("leverage", s, NoExit, 0) \in Call
             /\ Request("leverage", s, NoExit, 0).op # "place"
  BY <1>1, RequestTyped, 0 \in Nat DEF PositionOf
<1>4. ASSUME NEW s \in Symbols, NEW q \in Nat
      PROVE  /\ CloseByMarket(s, q) \in Call /\ CloseByMarket(s, q).op # "place"
             /\ Request("market", s, NoExit, q) \in Call
             /\ Request("market", s, NoExit, q).op # "place"
  BY <1>1, RequestTyped DEF CloseByMarket
<1>5. ASSUME NEW s \in Symbols, NEW id \in ExitId \cup {NoExit}
      PROVE  CancelExit(s, id) \in Call /\ CancelExit(s, id).op # "place"
  BY <1>1, RequestTyped, 0 \in Nat DEF CancelExit
<1>6. ASSUME NEW s \in Symbols, NEW id \in ExitId, NEW q \in Nat
      PROVE  PlaceExit(s, id, q) \in Call /\ PlaceExit(s, id, q).id = id
  BY <1>1, RequestTyped DEF PlaceExit
<1>7. QED
  BY <1>2, <1>3, <1>4, <1>5, <1>6

\* Waiting for a request moves one coroutine, and asks for one thing.
LEMMA AwaitTyped ==
    ASSUME NEW p \in Procs, NEW at, NEW r \in Call, r.op = "place" => r.id \in ExitId,
           TypeOK, PlacesKnownExit, Await(p, at, r)
    PROVE  /\ call' \in [Procs -> Call] /\ PlacesKnownExit'
           /\ pc'[p] = at
           /\ \A q \in Procs \ {p} : pc'[q] = pc[q]
           /\ DOMAIN pc' = Procs
           /\ pc' = [pc EXCEPT ![p] = at]
  BY DEF TypeOK, ExchangeTypeOK, PlacesKnownExit, Await

\* Readings of the clock are later than everything in sight.
LEMMA NowTyped ==
    ASSUME TypeOK
    PROVE  now \in Stamp /\ now \in Nat /\ now > clock /\ clock \in Nat
  BY DEF TypeOK, now, Stamp

\* The unused field of a coroutine is a copy of no opening.
LEMMA NoCopyTyped == NoCopy \in Copy /\ NoCopy.pos.openedAt = 0
  BY Constants DEF NoCopy, Copy, NoPos

\* A copy has the fields of an entry.
LEMMA CopyFields ==
    ASSUME NEW c \in Copy
    PROVE  /\ c.sym \in Symbols /\ c.pos \in TrackedPosition \cup {NoPos}
           /\ c.pos.openedAt \in Nat /\ c.pos.qty \in Nat
           /\ c.pos.tp \in ExitId \cup {NoExit} /\ c.pos.sl \in ExitId \cup {NoExit}
<1>1. c.sym \in Symbols /\ c.pos \in TrackedPosition \cup {NoPos}
  BY DEF Copy
<1>2. CASE c.pos = NoPos
  BY <1>1, <1>2 DEF NoPos
<1>3. CASE c.pos \in TrackedPosition
  BY <1>1, <1>3 DEF TrackedPosition, Stamp
<1>4. QED
  BY <1>1, <1>2, <1>3

\* all() and expired() hand out copies.
LEMMA TrackedAreCopies ==
    ASSUME NEW t \in TrackerMap
    PROVE  AllTracked(t) \subseteq Copy /\ ExpiredTracked(t) \subseteq AllTracked(t)
  BY AllTrackedCopies DEF Copy, ExpiredTracked

\* The types of what a coroutine finds in the state.
LEMMA StateTyped ==
    ASSUME IInv
    PROVE  /\ tracker \in TrackerMap
           /\ op \in Opening /\ op.sym \in Symbols /\ op.qty \in Nat
           /\ op.tp \in ExitId \cup {NoExit} /\ op.sl \in ExitId \cup {NoExit}
           /\ mon \in MonitorLocals /\ mon.snap \in [Symbols -> Nat]
           /\ mon.todo \subseteq Symbols /\ mon.expired \subseteq Copy /\ mon.cur \in Copy
           /\ trl \in TrailerLocals /\ trl.todo \subseteq Copy /\ trl.cur \in Copy
           /\ trl.id \in ExitId \cup {NoExit}
           /\ \A p \in Procs : call[p] \in Call /\ call[p].val \in [Symbols -> Nat]
  BY DEF IInv, TypeOK, ExchangeTypeOK, Opening, MonitorLocals, TrailerLocals, Call

----------------------------------------------------------------------------
(* How a coroutine may step.                                               *)

\* Whoever leaves reservations alone and takes copies of committed entries only
\* keeps the parts of IInv that are about the tracker.
LEMMA QuietStep ==
    ASSUME IInv, pc'["opener"] = pc["opener"], op' = op,
           clock' \in {clock, now}, Quiet(tracker, tracker', clock'),
           \A c \in MonitorCopies' : c \in MonitorCopies \cup AllTracked(tracker') \cup {NoCopy},
           \A c \in TrailerCopies' : c \in TrailerCopies \cup AllTracked(tracker') \cup {NoCopy}
    PROVE  ReservationOwned' /\ CommitNeverFails' /\ NoneFromTheFuture' /\ ReservationIsApart'
<1>1. /\ tracker \in TrackerMap /\ tracker' \in TrackerMap
      /\ clock \in Nat /\ clock' \in Nat /\ clock <= clock'
  BY StateTyped, NowTyped DEF IInv, Quiet
<1>2. ReservationOwned' /\ CommitNeverFails'
  BY DEF IInv, ReservationOwned, CommitNeverFails, Quiet
<1>3. \A s \in Symbols : tracker'[s].openedAt <= clock'
  BY <1>1, EntryFields DEF IInv, NoneFromTheFuture, Quiet
<1>4. ASSUME NEW c \in Copy, c.pos.openedAt <= clock
      PROVE  c.pos.openedAt <= clock'
  BY <1>1, <1>4, CopyFields
<1>5. \A c \in AllTracked(tracker') \cup {NoCopy} : c.pos.openedAt <= clock'
  BY <1>1, <1>3, AllTrackedCopies, NoCopyTyped
<1>6. MonitorCopies \subseteq Copy /\ TrailerCopies \subseteq Copy
  BY StateTyped DEF MonitorCopies, TrailerCopies
<1>7. NoneFromTheFuture'
  BY <1>3, <1>4, <1>5, <1>6 DEF IInv, NoneFromTheFuture
<1>8. ReservationIsApart'
  <2> SUFFICES ASSUME NEW s \in Symbols, tracker'[s].inFlight
               PROVE  /\ \A c \in MonitorCopies' \cup TrailerCopies' :
                             c.sym = s => ~SameOpening(tracker', c)
                      /\ tracker'[s].tp = NoExit /\ tracker'[s].sl = NoExit
    BY DEF ReservationIsApart
  <2>1. tracker'[s] = tracker[s] /\ tracker[s].inFlight
    BY DEF Quiet
  <2>2. tracker[s].openedAt # 0
    BY <1>1, <2>1, EntryFields, NoPosIsApart DEF Has
  <2>3. \A c \in AllTracked(tracker') : c.sym # s
    BY <1>1, AllTrackedCopies
  <2>4. QED
    BY <2>1, <2>2, <2>3, NoCopyTyped DEF IInv, ReservationIsApart, SameOpening
<1>9. QED
  BY <1>2, <1>7, <1>8

\* A step of the monitor.
LEMMA MonitorKeeps ==
    ASSUME IInv, UNCHANGED monitorRest,
           clock' \in {clock, now}, Quiet(tracker, tracker', clock'),
           mon' \in MonitorLocals,
           \A c \in MonitorCopies' : c \in MonitorCopies \cup AllTracked(tracker') \cup {NoCopy},
           NEW at \in MonitorPcs, NEW r \in Call, r.op # "place", Await("monitor", at, r)
    PROVE  IInv'
<1>1. /\ call' \in [Procs -> Call] /\ PlacesKnownExit'
      /\ pc' = [pc EXCEPT !["monitor"] = at]
  BY AwaitTyped, Constants DEF IInv
<1>2. TypeOK'
  BY <1>1, NowTyped, Constants
     DEF IInv, TypeOK, ExchangeTypeOK, monitorRest, fixedVars, boundVars, venueVars, Quiet
<1>3. pc'["opener"] = pc["opener"] /\ pc'["trailer"] = pc["trailer"]
  BY <1>1, Constants DEF IInv, TypeOK
<1>4. ReplacementIsLater'
  BY <1>3 DEF IInv, ReplacementIsLater, monitorRest
<1>5. QED
  BY <1>1, <1>2, <1>3, <1>4, QuietStep DEF IInv, monitorRest, TrailerCopies

\* A step of the trailer, which never reads the clock but to place a stop.
LEMMA TrailerKeeps ==
    ASSUME IInv, UNCHANGED trailerRest, trails' \in 0 .. MaxTrails,
           clock' \in {clock, now}, Quiet(tracker, tracker', clock'),
           trl' \in TrailerLocals,
           \A c \in TrailerCopies' : c \in TrailerCopies \cup AllTracked(tracker') \cup {NoCopy},
           NEW at \in TrailerPcs, NEW r \in Call, r.op = "place" => r.id \in ExitId,
           Await("trailer", at, r),
           at \in TrailingPcs =>
               trl'.id \in ExitId /\ trl'.id.stamp > trl'.cur.pos.openedAt
    PROVE  IInv'
<1>1. /\ call' \in [Procs -> Call] /\ PlacesKnownExit'
      /\ pc' = [pc EXCEPT !["trailer"] = at]
  BY AwaitTyped, Constants DEF IInv
<1>2. TypeOK'
  BY <1>1, NowTyped, Constants
     DEF IInv, TypeOK, ExchangeTypeOK, trailerRest, venueVars, Quiet
<1>3. pc'["opener"] = pc["opener"] /\ pc'["trailer"] = at
  BY <1>1, Constants DEF IInv, TypeOK
<1>4. ReplacementIsLater'
  BY <1>3 DEF ReplacementIsLater
<1>5. QED
  BY <1>1, <1>2, <1>3, <1>4, QuietStep DEF IInv, trailerRest, MonitorCopies

\* A step of the opener: it may add and drop its own reservation.
LEMMA OpenerKeeps ==
    ASSUME IInv, UNCHANGED <<cooldown, mon, trl, placeStopLoss, trails, crashes, live, exits,
                             events, externals>>,
           faults' \in 0 .. MaxFaults, opens' \in 0 .. MaxOpens, clock' \in {clock, now},
           op' \in Opening, tracker' \in TrackerMap,
           \A s \in Symbols :
               /\ tracker'[s].openedAt \in {0, tracker[s].openedAt, clock'}
               /\ tracker'[s].inFlight =>
                   \/ tracker'[s] = tracker[s]
                   \/ tracker'[s] = PendingAt(now) /\ clock' = now,
           NEW at \in OpenerPcs \ {"lateClose"},
           NEW r \in Call, r.op = "place" => r.id \in ExitId, Await("opener", at, r),
           \A s \in Symbols : tracker'[s].inFlight <=> (at \in OpeningPcs /\ op'.sym = s)
    PROVE  IInv'
<1>1. /\ call' \in [Procs -> Call] /\ PlacesKnownExit'
      /\ pc' = [pc EXCEPT !["opener"] = at]
  BY AwaitTyped, Constants DEF IInv
<1>2. TypeOK'
  BY <1>1, NowTyped, Constants DEF IInv, TypeOK, ExchangeTypeOK
<1>3. pc'["opener"] = at /\ pc'["trailer"] = pc["trailer"]
  BY <1>1, Constants DEF IInv, TypeOK
<1>4. ReservationOwned' /\ CommitNeverFails' /\ ReplacementIsLater'
  BY <1>3 DEF IInv, ReservationOwned, CommitNeverFails, ReplacementIsLater
<1>5. /\ tracker \in TrackerMap /\ clock \in Nat /\ now \in Stamp /\ clock' \in Nat
      /\ clock <= clock' /\ now > clock
      /\ MonitorCopies \subseteq Copy /\ TrailerCopies \subseteq Copy
      /\ MonitorCopies' = MonitorCopies /\ TrailerCopies' = TrailerCopies
  BY StateTyped, NowTyped DEF IInv, MonitorCopies, TrailerCopies
<1>6. \A s \in Symbols : tracker'[s].openedAt <= clock'
  BY <1>5, EntryFields DEF IInv, NoneFromTheFuture
<1>7. NoneFromTheFuture'
  BY <1>5, <1>6, CopyFields DEF IInv, NoneFromTheFuture
<1>8. ASSUME NEW s \in Symbols, tracker'[s].inFlight
      PROVE  /\ \A c \in MonitorCopies \cup TrailerCopies :
                    c.sym = s => ~SameOpening(tracker', c)
             /\ tracker'[s].tp = NoExit /\ tracker'[s].sl = NoExit
  <2>1. CASE tracker'[s] = tracker[s]
    BY <1>8, <2>1 DEF IInv, ReservationIsApart, SameOpening
  <2>2. CASE tracker'[s] = PendingAt(now)
    BY <1>5, <2>2, BuiltEntries, CopyFields, 0 \in Nat
       DEF IInv, NoneFromTheFuture, SameOpening
  <2>3. QED
    BY <1>8, <2>1, <2>2
<1>9. QED
  BY <1>1, <1>2, <1>4, <1>5, <1>7, <1>8 DEF IInv, ReservationIsApart

----------------------------------------------------------------------------
(* The steps of the monitor.                                               *)

\* Going on with the expired copies that are left.
LEMMA ExpireFromKeeps ==
    ASSUME IInv, UNCHANGED monitorRest,
           clock' \in {clock, now}, Quiet(tracker, tracker', clock'),
           NEW expired \in SUBSET Copy,
           expired \subseteq MonitorCopies \cup AllTracked(tracker'), ExpireFrom(expired)
    PROVE  IInv'
<1>1. mon' \in MonitorLocals /\ MonitorCopies' = expired \cup {NoCopy}
  BY Constants, NoCopyTyped DEF ExpireFrom, NoMon, MonitorLocals, MonitorCopies
<1>2. \E at \in MonitorPcs : Await("monitor", at, NoCall)
  BY DEF ExpireFrom, Goto, MonitorPcs
<1>3. \A c \in TrailerCopies' : c \in TrailerCopies
  BY DEF monitorRest, TrailerCopies
<1>4. QED
  BY <1>1, <1>2, <1>3, NoCallTyped, MonitorKeeps

\* Going on with the live symbols that are left, or on to what has expired.
LEMMA ReconcileFromKeeps ==
    ASSUME IInv, UNCHANGED monitorRest,
           clock' \in {clock, now}, Quiet(tracker, tracker', clock'),
           NEW snap \in [Symbols -> Nat], NEW todo \in SUBSET Symbols, ReconcileFrom(snap, todo)
    PROVE  IInv'
<1>1. CASE todo = {}
  <2>1. /\ ExpiredTracked(tracker') \subseteq AllTracked(tracker')
        /\ AllTracked(tracker') \subseteq Copy
    BY TrackedAreCopies DEF Quiet
  <2>2. QED
    BY <1>1, <2>1, ExpireFromKeeps DEF ReconcileFrom
<1>2. CASE todo # {}
  <2>1. mon' \in MonitorLocals /\ MonitorCopies' = {NoCopy}
    BY <1>2, Constants, NoCopyTyped DEF ReconcileFrom, NoMon, MonitorLocals, MonitorCopies
  <2>2. Await("monitor", "reconcile", NoCall) /\ "reconcile" \in MonitorPcs
    BY <1>2 DEF ReconcileFrom, Goto, MonitorPcs
  <2>3. QED
    BY <2>1, <2>2, NoCallTyped, MonitorKeeps
<1>3. QED
  BY <1>1, <1>2

\* The entry of another opening, a reservation among them, is not removed.
LEMMA ForgetKeeps ==
    ASSUME IInv, UNCHANGED <<clock, monitorRest>>, Forget(mon.cur)
    PROVE  IInv'
<1>1. tracker[mon.cur.sym].inFlight => ~SameOpening(tracker, mon.cur)
  BY StateTyped, CopyFields DEF IInv, ReservationIsApart, MonitorCopies
<1>2. Quiet(tracker, tracker', clock')
  BY <1>1, StateTyped, CopyFields, RemoveIfOpenedAtIsQuiet DEF Forget
<1>3. QED
  BY <1>2, StateTyped, ExpireFromKeeps DEF Forget, MonitorCopies

\* Asking for something leaves the tracker as it is.
LEMMA MonitorAsks ==
    ASSUME IInv, UNCHANGED <<tracker, clock, monitorRest>>, mon' \in MonitorLocals,
           MonitorCopies' \subseteq MonitorCopies,
           NEW at \in MonitorPcs, NEW r \in Call, r.op # "place", Await("monitor", at, r)
    PROVE  IInv'
  BY StateTyped, NothingIsQuiet, MonitorKeeps

\* Cancelling the stop of what was closed, or forgetting it if it has none.
LEMMA CancelStopKeeps ==
    ASSUME IInv, UNCHANGED <<clock, monitorRest>>, CancelStopAndForget(mon.cur)
    PROVE  IInv'
<1>1. CASE mon.cur.pos.sl # NoExit
  <2>1. CancelExit(mon.cur.sym, mon.cur.pos.sl) \in Call
        /\ CancelExit(mon.cur.sym, mon.cur.pos.sl).op # "place"
    BY StateTyped, CopyFields, RequestsTyped
  <2>2. "expireCancelSl" \in MonitorPcs /\ MonitorCopies' = MonitorCopies
    BY <1>1 DEF MonitorPcs, CancelStopAndForget, MonitorCopies
  <2>3. QED
    BY <1>1, <2>1, <2>2, StateTyped, MonitorAsks DEF CancelStopAndForget
<1>2. CASE mon.cur.pos.sl = NoExit
  BY <1>2, ForgetKeeps DEF CancelStopAndForget
<1>3. QED
  BY <1>1, <1>2

\* Cancelling the exits of what was closed.
LEMMA CancelExitsKeeps ==
    ASSUME IInv, UNCHANGED <<clock, monitorRest>>, CancelExitsAndForget(mon.cur)
    PROVE  IInv'
<1>1. CASE mon.cur.pos.tp # NoExit
  <2>1. CancelExit(mon.cur.sym, mon.cur.pos.tp) \in Call
        /\ CancelExit(mon.cur.sym, mon.cur.pos.tp).op # "place"
    BY StateTyped, CopyFields, RequestsTyped
  <2>2. "expireCancelTp" \in MonitorPcs /\ MonitorCopies' = MonitorCopies
    BY <1>1 DEF MonitorPcs, CancelExitsAndForget, MonitorCopies
  <2>3. QED
    BY <1>1, <2>1, <2>2, StateTyped, MonitorAsks DEF CancelExitsAndForget
<1>2. CASE mon.cur.pos.tp = NoExit
  BY <1>2, CancelStopKeeps DEF CancelExitsAndForget
<1>3. QED
  BY <1>1, <1>2

\* Every step of monitorTimeExit keeps IInv.
LEMMA MonitorStepKeeps ==
    ASSUME IInv, MonitorStep
    PROVE  IInv'
<1>1. CASE MonitorWakes
  BY <1>1, RequestsTyped, StateTyped, MonitorAsks DEF MonitorWakes, MonitorPcs, MonitorCopies
<1>2. CASE MonitorSnapshot
  <2>1. CASE Ok("monitor")
    <3> DEFINE gone == {c \in AllTracked(tracker) : call["monitor"].val[c.sym] = 0}
               left == {s \in Symbols : call["monitor"].val[s] > 0}
    <3>1. Quiet(tracker, tracker', clock')
      BY <1>2, <2>1, gone \in SUBSET AllTracked(tracker), StateTyped, RemoveAllIsQuiet
         DEF MonitorSnapshot
    <3>2. ReconcileFrom(call["monitor"].val, left) /\ UNCHANGED <<clock, monitorRest>>
      BY <1>2, <2>1 DEF MonitorSnapshot
    <3>3. call["monitor"].val \in [Symbols -> Nat]
      BY StateTyped, Constants
    <3>4. QED
      BY <3>1, <3>2, <3>3, ReconcileFromKeeps
  <2>2. CASE ~Ok("monitor")
    BY <1>2, <2>2, NoCallTyped, StateTyped, MonitorAsks
       DEF MonitorSnapshot, Goto, MonitorPcs, MonitorCopies
  <2>3. QED
    BY <2>1, <2>2
<1>3. ASSUME NEW s \in mon.todo, ReconcileSymbol(s)
      PROVE  IInv'
  <2>1. s \in Symbols /\ mon.snap[s] \in Nat /\ mon.todo \ {s} \in SUBSET Symbols
    BY StateTyped
  <2>2. CASE Has(tracker, s)
    BY <1>3, <2>1, <2>2, StateTyped, RefreshIsQuiet, ReconcileFromKeeps DEF ReconcileSymbol
  <2>3. CASE ~Has(tracker, s) /\ placeStopLoss
    <3>1. mon' \in MonitorLocals /\ MonitorCopies' = MonitorCopies
      BY <1>3, <2>3, StateTyped DEF ReconcileSymbol, MonitorLocals, MonitorCopies
    <3>2. QED
      BY <1>3, <2>1, <2>3, <3>1, RequestsTyped, MonitorAsks DEF ReconcileSymbol, MonitorPcs
  <2>4. CASE ~Has(tracker, s) /\ ~placeStopLoss
    BY <1>3, <2>1, <2>4, StateTyped, NowTyped, AddRecoveredIsQuiet, ReconcileFromKeeps
       DEF ReconcileSymbol, ClockTicks, IInv
  <2>5. QED
    BY <2>2, <2>3, <2>4
<1>4. CASE ForcedCloseReturns
  BY <1>4, StateTyped, NothingIsQuiet, ReconcileFromKeeps DEF ForcedCloseReturns
<1>5. ASSUME NEW c \in mon.expired, ExpireNext(c)
      PROVE  IInv'
  <2>1. c \in Copy /\ c.sym \in Symbols
    BY StateTyped, CopyFields
  <2>2. CASE SameOpening(tracker, c)
    <3>1. mon' \in MonitorLocals /\ MonitorCopies' \subseteq MonitorCopies
      <4>1. mon' = [mon EXCEPT !.expired = mon.expired \ {c}, !.cur = c]
        BY <1>5, <2>2 DEF ExpireNext
      <4>2. mon.expired \ {c} \in SUBSET Copy
        BY StateTyped
      <4>3. mon' \in MonitorLocals /\ mon'.expired = mon.expired \ {c} /\ mon'.cur = c
        BY <2>1, <4>1, <4>2, StateTyped DEF MonitorLocals
      <4>4. QED
        BY <4>3 DEF MonitorCopies
    <3>2. QED
      BY <1>5, <2>1, <2>2, <3>1, RequestsTyped, MonitorAsks DEF ExpireNext, MonitorPcs
  <2>3. CASE ~SameOpening(tracker, c)
    BY <1>5, <2>3, StateTyped, NothingIsQuiet, ExpireFromKeeps DEF ExpireNext, MonitorCopies
  <2>4. QED
    BY <2>2, <2>3
<1>6. CASE ExpirePolled
  <2> DEFINE held == call["monitor"].val[mon.cur.sym]
             qty == IF held > 0 THEN held ELSE mon.cur.pos.qty
  <2>1. CASE Ok("monitor") /\ held = 0
    BY <1>6, <2>1, ForgetKeeps DEF ExpirePolled
  <2>2. CASE ~(Ok("monitor") /\ held = 0)
    <3>1. qty \in Nat /\ mon.cur.sym \in Symbols
      BY StateTyped, CopyFields, Constants
    <3>2. /\ Await("monitor", "expireClose", CloseByMarket(mon.cur.sym, qty))
          /\ UNCHANGED <<tracker, mon, clock, monitorRest>>
      BY <1>6, <2>2 DEF ExpirePolled
    <3> HIDE DEF qty
    <3>3. QED
      BY <3>1, <3>2, RequestsTyped, StateTyped, MonitorAsks DEF MonitorPcs, MonitorCopies
  <2>3. QED
    BY <2>1, <2>2
<1>7. CASE ExpireCloseReturns
  BY <1>7, CancelExitsKeeps DEF ExpireCloseReturns
<1>8. CASE ExpireTpCancelled
  BY <1>8, CancelStopKeeps DEF ExpireTpCancelled
<1>9. CASE ExpireSlCancelled
  BY <1>9, ForgetKeeps DEF ExpireSlCancelled
<1>10. QED
  BY <1>1, <1>2, <1>3, <1>4, <1>5, <1>6, <1>7, <1>8, <1>9 DEF MonitorStep

----------------------------------------------------------------------------
(* The steps of the trailer.                                               *)

\* Going on with the copies that are left to trail.
LEMMA TrailFromKeeps ==
    ASSUME IInv, UNCHANGED <<clock, trails, trailerRest>>, Quiet(tracker, tracker', clock'),
           NEW todo \in SUBSET Copy, todo \subseteq TrailerCopies \cup AllTracked(tracker'),
           TrailFrom(todo)
    PROVE  IInv'
<1>1. trl' \in TrailerLocals /\ TrailerCopies' = todo \cup {NoCopy}
  BY NoCopyTyped DEF TrailFrom, NoTrl, TrailerLocals, TrailerCopies
<1>2. \E at \in {"sleep", "trail"} : Await("trailer", at, NoCall)
  BY DEF TrailFrom, Goto
<1>3. trails' \in 0 .. MaxTrails
  BY DEF IInv, TypeOK
<1>4. QED
  BY <1>1, <1>2, <1>3, NoCallTyped, TrailerKeeps DEF TrailerPcs, TrailingPcs

\* Going on to cancel, with the replacement in hand.
LEMMA TrailerCancels ==
    ASSUME IInv, UNCHANGED <<tracker, trl, clock, trails, trailerRest>>,
           pc["trailer"] \in TrailingPcs,
           NEW at \in {"trailCancel", "trailRollback"}, NEW id \in ExitId \cup {NoExit},
           Await("trailer", at, CancelExit(trl.cur.sym, id))
    PROVE  IInv'
<1>1. trl.id \in ExitId /\ trl.id.stamp > trl.cur.pos.openedAt
  BY DEF IInv, ReplacementIsLater
<1>2. CancelExit(trl.cur.sym, id) \in Call /\ CancelExit(trl.cur.sym, id).op # "place"
  BY StateTyped, CopyFields, RequestsTyped
<1>3. trails' \in 0 .. MaxTrails
  BY DEF IInv, TypeOK
<1>4. QED
  BY <1>1, <1>2, <1>3, StateTyped, NothingIsQuiet, TrailerKeeps DEF TrailerPcs, TrailerCopies

\* Recording a replacement touches no reservation.
LEMMA RecordStopIsQuiet ==
    ASSUME IInv, RecordStop(trl.cur)
    PROVE  Quiet(tracker, tracker', clock')
  BY StateTyped, CopyFields, NothingIsQuiet, UpdateStopLossIsQuiet DEF RecordStop

\* Every step of monitorTrailingStops keeps IInv.
LEMMA TrailerStepKeeps ==
    ASSUME IInv, TrailerStep
    PROVE  IInv'
<1>1. CASE TrailerWakes
  BY <1>1, StateTyped, NothingIsQuiet, TrackedAreCopies, TrailFromKeeps DEF TrailerWakes
<1>2. ASSUME NEW c \in trl.todo, TrailSkips(c)
      PROVE  IInv'
  BY <1>2, StateTyped, NothingIsQuiet, TrailFromKeeps DEF TrailSkips, TrailerCopies
<1>3. ASSUME NEW c \in trl.todo, TrailPlaces(c)
      PROVE  IInv'
  <2> DEFINE id == [leg |-> "sl", stamp |-> now]
  <2>1. c \in Copy /\ c.sym \in Symbols /\ c.pos.qty \in Nat
        /\ c.pos.openedAt \in Nat /\ c.pos.openedAt <= clock
    BY StateTyped, CopyFields DEF IInv, NoneFromTheFuture, TrailerCopies
  <2>2. id \in ExitId /\ id.stamp > c.pos.openedAt
    BY <2>1, NowTyped DEF ExitId, IInv
  <2>3. /\ trl' = [todo |-> trl.todo \ {c}, cur |-> c, id |-> id]
        /\ Await("trailer", "trailPlace", PlaceExit(c.sym, id, c.pos.qty))
        /\ clock' = now /\ trails < MaxTrails /\ trails' = trails + 1
        /\ UNCHANGED <<tracker, trailerRest>>
    BY <1>3 DEF TrailPlaces, ClockTicks
  <2>4. trails' \in 0 .. MaxTrails
    BY <2>3, Constants DEF IInv, TypeOK
  <2> HIDE DEF id
  <2>5. trl' \in TrailerLocals /\ TrailerCopies' \subseteq TrailerCopies
        /\ trl'.id = id /\ trl'.cur = c
    BY <2>1, <2>2, <2>3, StateTyped DEF TrailerLocals, TrailerCopies
  <2>6. QED
    BY <2>1, <2>2, <2>3, <2>4, <2>5, RequestsTyped, StateTyped, NothingIsQuiet, TrailerKeeps
       DEF TrailerPcs
<1>4. CASE TrailPlaced
  <2>1. CASE Ok("trailer") /\ KnowsStop(trl.cur.pos)
    BY <1>4, <2>1, StateTyped, CopyFields, TrailerCancels DEF TrailPlaced, Resumes, TrailingPcs
  <2>2. CASE ~(Ok("trailer") /\ KnowsStop(trl.cur.pos))
    <3>1. Quiet(tracker, tracker', clock')
      BY <1>4, <2>2, StateTyped, NothingIsQuiet, RecordStopIsQuiet DEF TrailPlaced
    <3>2. QED
      BY <1>4, <2>2, <3>1, StateTyped, TrailFromKeeps DEF TrailPlaced, TrailerCopies
  <2>3. QED
    BY <2>1, <2>2
<1>5. CASE TrailCancelled
  <2>1. CASE Ok("trailer")
    BY <1>5, <2>1, StateTyped, RecordStopIsQuiet, TrailFromKeeps
       DEF TrailCancelled, TrailerCopies
  <2>2. CASE ~Ok("trailer")
    BY <1>5, <2>2, StateTyped, TrailerCancels DEF TrailCancelled, Resumes, TrailingPcs
  <2>3. QED
    BY <2>1, <2>2
<1>6. CASE TrailRolledBack
  BY <1>6, StateTyped, NothingIsQuiet, TrailFromKeeps DEF TrailRolledBack, TrailerCopies
<1>7. QED
  BY <1>1, <1>2, <1>3, <1>4, <1>5, <1>6 DEF TrailerStep

----------------------------------------------------------------------------
(* The steps of the opener.                                                *)

\* What one opening may leave alone.
OpenerFrame == UNCHANGED <<openerRest, faults>> \/ (UNCHANGED openerRest /\ PriceFails)

\* A step of an opening counts at most one fault and leaves the rest.
LEMMA FrameFacts ==
    ASSUME IInv, OpenerFrame
    PROVE  /\ UNCHANGED <<cooldown, mon, trl, placeStopLoss, trails, crashes, live, exits,
                          events, externals>>
           /\ faults' \in 0 .. MaxFaults /\ opens' \in 0 .. MaxOpens
  BY Constants DEF IInv, TypeOK, ExchangeTypeOK, OpenerFrame, PriceFails, openerRest,
                   fixedVars, boundVars

\* Going on with the same opening leaves its reservation in place.
LEMMA OpenerAsks ==
    ASSUME IInv, OpenerFrame, pc["opener"] \in OpeningPcs,
           UNCHANGED tracker, clock' \in {clock, now},
           op' \in Opening, op'.sym = op.sym,
           NEW at \in OpeningPcs, NEW r \in Call, r.op = "place" => r.id \in ExitId,
           Await("opener", at, r)
    PROVE  IInv'
<1>1. at \in OpenerPcs \ {"lateClose"}
  BY DEF OpenerPcs, OpeningPcs
<1>2. QED
  BY <1>1, FrameFacts, StateTyped, OpenerKeeps DEF IInv, ReservationOwned

\* An opening that is undone takes its reservation with it.
LEMMA DropOpeningKeeps ==
    ASSUME IInv, OpenerFrame, DropOpening
    PROVE  IInv'
<1>1. /\ tracker' \in TrackerMap
      /\ \A s \in Symbols : tracker'[s] = IF s = op.sym THEN NoPos ELSE tracker[s]
  BY StateTyped, RemoveIsTyped DEF DropOpening
<1>2. \A s \in Symbols : ~tracker'[s].inFlight
  BY <1>1, NoPosIsApart DEF IInv, ReservationOwned
<1>3. "idle" \in OpenerPcs \ {"lateClose"} /\ "idle" \notin OpeningPcs
  BY DEF OpenerPcs, OpeningPcs
<1>4. QED
  BY <1>1, <1>2, <1>3, FrameFacts, NoCallTyped, NoPosIsApart, StateTyped, OpenerKeeps
     DEF DropOpening, Goto

\* The position an opening commits is an entry stamped now.
LEMMA OpenedTyped ==
    ASSUME IInv, NEW o \in Opening
    PROVE  /\ Opened(o) \in TrackedPosition
           /\ Opened(o).openedAt = now /\ Opened(o).inFlight = FALSE
           /\ o.sym \in Symbols /\ o.qty \in Nat
           /\ o.tp \in ExitId \cup {NoExit} /\ o.sl \in ExitId \cup {NoExit}
<1>1. now \in Stamp
  BY NowTyped DEF IInv
<1>2. QED
  BY <1>1, Constants DEF Opened, TrackedPosition, Opening

\* The reservation is there, so both commits succeed.
LEMMA CommitKeeps ==
    ASSUME IInv, OpenerFrame, pc["opener"] \in OpeningPcs,
           NEW o \in Opening, o.sym = op.sym, CommitOpening(o) \/ CommitEmergency(o)
    PROVE  IInv'
<1>1. o.sym \in Symbols /\ tracker[o.sym].inFlight
  BY StateTyped DEF IInv, ReservationOwned
<1>2. /\ tracker' = CommitReserved(tracker, o.sym, Opened(o))
      /\ clock' = now /\ op' = o /\ Await("opener", "idle", NoCall)
  BY <1>1 DEF CommitOpening, CommitEmergency, ClockTicks, Goto
<1>3. /\ tracker' \in TrackerMap
      /\ \A s \in Symbols : tracker'[s] = IF s = o.sym THEN Opened(o) ELSE tracker[s]
  <2>1. tracker \in TrackerMap /\ Opened(o) \in TrackedPosition /\ ~Opened(o).inFlight
    BY StateTyped, OpenedTyped
  <2>2. QED
    BY <1>1, <1>2, <2>1, CommitIsTyped
<1>4. \A s \in Symbols : ~tracker'[s].inFlight
  BY <1>1, <1>3, OpenedTyped DEF IInv, ReservationOwned
<1>5. "idle" \in OpenerPcs \ {"lateClose"} /\ "idle" \notin OpeningPcs
  BY DEF OpenerPcs, OpeningPcs
<1>6. QED
  BY <1>2, <1>3, <1>4, <1>5, FrameFacts, NoCallTyped, OpenedTyped, OpenerKeeps

\* Closing what could not be protected leaves the reservation for now.
LEMMA EmergencyCloseKeeps ==
    ASSUME IInv, OpenerFrame, pc["opener"] \in OpeningPcs,
           NEW o \in Opening, o.sym = op.sym, EmergencyClose(o)
    PROVE  IInv'
<1>1. "emergencyClose" \in OpeningPcs
  BY DEF OpeningPcs
<1>2. QED
  BY <1>1, OpenedTyped, RequestsTyped, OpenerAsks DEF EmergencyClose

\* Cancelling the take-profit leaves the reservation for now.
LEMMA UndoTakeProfitKeeps ==
    ASSUME IInv, OpenerFrame, pc["opener"] \in OpeningPcs,
           NEW o \in Opening, o.sym = op.sym, UndoTakeProfit(o)
    PROVE  IInv'
<1>1. CASE o.tpPlaced
  <2>1. "undoTp" \in OpeningPcs
    BY DEF OpeningPcs
  <2>2. QED
    BY <1>1, <2>1, OpenedTyped, RequestsTyped, OpenerAsks DEF UndoTakeProfit
<1>2. CASE ~o.tpPlaced
  BY <1>2, EmergencyCloseKeeps DEF UndoTakeProfit
<1>3. QED
  BY <1>1, <1>2

\* Both exits are placed under an id made up on the spot.
LEMMA FreshExit ==
    ASSUME IInv, NEW leg \in {"tp", "sl"}
    PROVE  [leg |-> leg, stamp |-> now] \in ExitId
  BY NowTyped DEF IInv, ExitId

\* From the take-profit to the stop, on each of its three ways.
LEMMA EnterStopLossKeeps ==
    ASSUME IInv, UNCHANGED openerRest, pc["opener"] \in OpeningPcs,
           NEW o \in Opening, o.sym = op.sym, EnterStopLoss(o)
    PROVE  IInv'
<1>1. CASE ~placeStopLoss /\ PriceFits /\ CommitOpening(o)
  BY <1>1, CommitKeeps DEF OpenerFrame, PriceFits
<1>2. CASE placeStopLoss /\ PriceFits
  <2> DEFINE id == [leg |-> "sl", stamp |-> now]
  <2>1. /\ op' = [o EXCEPT !.sl = id] /\ Await("opener", "sl", PlaceExit(o.sym, id, o.qty))
        /\ clock' = now /\ UNCHANGED tracker
        \/ \E leveled \in BOOLEAN : PriceFails /\ UndoTakeProfit([o EXCEPT !.leveled = leveled])
    BY <1>2 DEF EnterStopLoss, ClockTicks
  <2>2. id \in ExitId
    BY FreshExit
  <2>3. [o EXCEPT !.sl = id] \in Opening /\ [o EXCEPT !.sl = id].sym = op.sym
    BY <2>2 DEF Opening
  <2>4. PlaceExit(o.sym, id, o.qty) \in Call /\ PlaceExit(o.sym, id, o.qty).id \in ExitId
    BY <2>2, OpenedTyped, RequestsTyped
  <2>5. "sl" \in OpeningPcs
    BY DEF OpeningPcs
  <2> HIDE DEF id
  <2>6. OpenerFrame
    BY <1>2 DEF OpenerFrame, PriceFits
  <2>7. ~PriceFails
    BY <1>2 DEF PriceFits, PriceFails, IInv, TypeOK, ExchangeTypeOK
  <2>8. QED
    BY <2>1, <2>3, <2>4, <2>5, <2>6, <2>7, OpenerAsks
<1>3. ASSUME NEW leveled \in BOOLEAN, PriceFails, UndoTakeProfit([o EXCEPT !.leveled = leveled])
      PROVE  IInv'
  <2>1. [o EXCEPT !.leveled = leveled] \in Opening /\ [o EXCEPT !.leveled = leveled].sym = op.sym
    BY DEF Opening
  <2>2. QED
    BY <1>3, <2>1, UndoTakeProfitKeeps DEF OpenerFrame
<1>4. QED
  BY <1>1, <1>2, <1>3 DEF EnterStopLoss

\* From the filled order to the take-profit, on each of its three ways.
LEMMA EnterTakeProfitKeeps ==
    ASSUME IInv, UNCHANGED openerRest, pc["opener"] \in OpeningPcs,
           NEW o \in Opening, o.sym = op.sym, EnterTakeProfit(o)
    PROVE  IInv'
<1>1. CASE ~o.fixedTp /\ EnterStopLoss(o)
  BY <1>1, EnterStopLossKeeps
<1>2. CASE o.fixedTp /\ PriceFails /\ EmergencyClose(o)
  BY <1>2, EmergencyCloseKeeps DEF OpenerFrame
<1>3. CASE o.fixedTp /\ PriceFits
  <2> DEFINE id == [leg |-> "tp", stamp |-> now]
  <2>1. ~PriceFails
    BY <1>3 DEF PriceFits, PriceFails, IInv, TypeOK, ExchangeTypeOK
  <2>2. /\ op' = [o EXCEPT !.tp = id] /\ Await("opener", "tp", PlaceExit(o.sym, id, o.qty))
        /\ clock' = now /\ UNCHANGED tracker
    BY <1>3, <2>1 DEF EnterTakeProfit, ClockTicks
  <2>3. id \in ExitId
    BY FreshExit
  <2>4. [o EXCEPT !.tp = id] \in Opening /\ [o EXCEPT !.tp = id].sym = op.sym
    BY <2>3 DEF Opening
  <2>5. PlaceExit(o.sym, id, o.qty) \in Call /\ PlaceExit(o.sym, id, o.qty).id \in ExitId
    BY <2>3, OpenedTyped, RequestsTyped
  <2>6. "tp" \in OpeningPcs
    BY DEF OpeningPcs
  <2> HIDE DEF id
  <2>7. QED
    BY <1>3, <2>2, <2>4, <2>5, <2>6, OpenerAsks DEF OpenerFrame, PriceFits
<1>4. QED
  BY <1>1, <1>2, <1>3 DEF EnterTakeProfit

\* Outside an opening nothing is reserved, and nothing needs to be.
LEMMA OpenerIdles ==
    ASSUME IInv, pc["opener"] \notin OpeningPcs,
           UNCHANGED <<cooldown, mon, trl, placeStopLoss, trails, crashes, venueVars>>,
           UNCHANGED <<tracker, clock>>, opens' \in 0 .. MaxOpens, op' \in Opening,
           NEW at \in {"boot", "bootSnapshot", "idle", "preflight"},
           NEW r \in Call, r.op # "place", Await("opener", at, r)
    PROVE  IInv'
<1>1. at \in OpenerPcs \ {"lateClose"} /\ at \notin OpeningPcs
  BY DEF OpenerPcs, OpeningPcs
<1>2. faults' \in 0 .. MaxFaults
  BY DEF venueVars, IInv, TypeOK, ExchangeTypeOK
<1>3. QED
  BY <1>1, <1>2, StateTyped, OpenerKeeps DEF venueVars, IInv, ReservationOwned

\* The locals of an opening before it has done anything.
LEMMA NewOpeningTyped ==
    ASSUME NEW s \in Symbols, NEW fixedTp \in BOOLEAN
    PROVE  /\ NewOpening(s) \in Opening
           /\ [NewOpening(s) EXCEPT !.fixedTp = fixedTp] \in Opening
  BY Constants DEF NewOpening, Opening

\* A signal reserves nothing yet.
LEMMA SignalKeeps ==
    ASSUME IInv, NEW s \in Symbols, Signal(s)
    PROVE  IInv'
<1>1. op' \in Opening
  BY Constants, NewOpeningTyped DEF Signal
<1>2. opens' \in 0 .. MaxOpens
  BY Constants DEF Signal, IInv, TypeOK
<1>3. pc["opener"] \notin OpeningPcs
  BY DEF Signal, OpeningPcs
<1>4. QED
  BY <1>1, <1>2, <1>3, NoCallTyped, OpenerIdles DEF Signal, Goto, venueVars

\* reserve() and the pc agree on whose symbol it is.
LEMMA ReserveKeeps ==
    ASSUME IInv, ReserveSymbol
    PROVE  IInv'
<1>1. pc["opener"] \notin OpeningPcs /\ \A s \in Symbols : ~tracker[s].inFlight
  BY DEF ReserveSymbol, OpeningPcs, IInv, ReservationOwned
<1>2. opens' \in 0 .. MaxOpens /\ op' \in Opening /\ op' = op /\ faults' \in 0 .. MaxFaults
  BY StateTyped DEF ReserveSymbol, localVars, fixedVars, boundVars, venueVars, IInv, TypeOK,
                    ExchangeTypeOK
<1>3. CASE Has(tracker, op.sym)
  BY <1>1, <1>2, <1>3, NoCallTyped, OpenerIdles
     DEF ReserveSymbol, Goto, localVars, fixedVars, boundVars
<1>4. CASE ~Has(tracker, op.sym)
  <2>1. /\ tracker' \in TrackerMap /\ clock' = now
        /\ \A s \in Symbols : tracker'[s] = IF s = op.sym THEN PendingAt(now) ELSE tracker[s]
    BY <1>4, StateTyped, NowTyped, ReserveIsTyped DEF ReserveSymbol, ClockTicks, IInv
  <2>2. PendingAt(now).openedAt = now /\ PendingAt(now).inFlight
    BY NowTyped, BuiltEntries, 0 \in Nat DEF IInv
  <2>3. "leverage" \in OpeningPcs /\ "leverage" \in OpenerPcs \ {"lateClose"}
    BY DEF OpeningPcs, OpenerPcs
  <2>4. UNCHANGED <<cooldown, mon, trl, placeStopLoss, trails, crashes, live, exits, events,
                    externals>>
    BY DEF ReserveSymbol, localVars, fixedVars, boundVars, venueVars
  <2>5. \A s \in Symbols :
          /\ tracker'[s].openedAt \in {0, tracker[s].openedAt, clock'}
          /\ tracker'[s].inFlight =>
              tracker'[s] = tracker[s] \/ (tracker'[s] = PendingAt(now) /\ clock' = now)
          /\ tracker'[s].inFlight <=> s = op.sym
    BY <1>1, <2>1, <2>2
  <2>6. /\ Request("leverage", op.sym, NoExit, 0) \in Call
        /\ Request("leverage", op.sym, NoExit, 0).op # "place"
        /\ Await("opener", "leverage", Request("leverage", op.sym, NoExit, 0))
    BY <1>4, StateTyped, RequestsTyped DEF ReserveSymbol
  <2>7. QED
    BY <1>2, <2>1, <2>3, <2>4, <2>5, <2>6, OpenerKeeps
<1>5. QED
  BY <1>3, <1>4

\* At boot the tracker is filled for the first time.
LEMMA BootSnapshotKeeps ==
    ASSUME IInv, BootSnapshot
    PROVE  IInv'
<1>1. pc["opener"] = "bootSnapshot" /\ pc["opener"] \notin OpeningPcs
  BY DEF BootSnapshot, Resumes, OpeningPcs
<1>2. /\ \A s \in Symbols : ~tracker[s].inFlight
      /\ tracker \in TrackerMap /\ clock \in Nat /\ now \in Stamp /\ now > clock
      /\ call["opener"].val \in [Symbols -> Nat]
  BY <1>1, StateTyped, NowTyped, Constants DEF IInv, ReservationOwned
<1>3. /\ tracker' \in TrackerMap /\ clock' \in Nat /\ clock <= clock'
      /\ \A s \in Symbols : ~tracker'[s].inFlight /\ tracker'[s].openedAt <= clock'
  <2>1. CASE Ok("opener")
    BY <1>2, <2>1, LoadIsTyped DEF BootSnapshot, ClockTicks, Stamp
  <2>2. CASE ~Ok("opener")
    BY <1>2, <2>2 DEF BootSnapshot, IInv, NoneFromTheFuture
  <2>3. QED
    BY <2>1, <2>2
<1>4. /\ pc'["opener"] = "idle" /\ pc'["monitor"] = "sleep"
      /\ pc'["trailer"] \in {"off", "sleep"}
      /\ pc' \in [Procs -> OpenerPcs \cup MonitorPcs \cup TrailerPcs]
  BY Constants DEF BootSnapshot, OpenerPcs, MonitorPcs, TrailerPcs
<1>5. call' \in [Procs -> Call] /\ PlacesKnownExit'
  BY NoCallTyped DEF BootSnapshot, IInv, TypeOK, ExchangeTypeOK, PlacesKnownExit
<1>6. UNCHANGED <<cooldown, localVars, fixedVars, venueVars>>
  BY DEF BootSnapshot
<1>7. TypeOK'
  BY <1>3, <1>4, <1>5, <1>6 DEF IInv, TypeOK, ExchangeTypeOK, localVars, fixedVars, boundVars,
     venueVars, OpenerPcs, MonitorPcs, TrailerPcs
<1>8. ReservationOwned' /\ CommitNeverFails' /\ ReservationIsApart' /\ ReplacementIsLater'
  BY <1>3, <1>4 DEF ReservationOwned, CommitNeverFails, ReservationIsApart, ReplacementIsLater,
     OpeningPcs, TrailingPcs
<1>9. NoneFromTheFuture'
  <2>1. MonitorCopies \subseteq Copy /\ TrailerCopies \subseteq Copy
        /\ MonitorCopies' = MonitorCopies /\ TrailerCopies' = TrailerCopies
    BY <1>6, StateTyped DEF MonitorCopies, TrailerCopies, localVars
  <2>2. QED
    BY <1>2, <1>3, <2>1, CopyFields DEF IInv, NoneFromTheFuture
<1>10. QED
  BY <1>5, <1>7, <1>8, <1>9 DEF IInv

\* Every step of the scan loop and of an opening keeps IInv.
LEMMA OpenerContinuesKeeps ==
    ASSUME IInv, OpenerContinues
    PROVE  IInv'
<1>1. CASE Boot
  <2>1. opens' \in 0 .. MaxOpens /\ op' \in Opening /\ pc["opener"] \notin OpeningPcs
    BY <1>1, StateTyped DEF Boot, localVars, fixedVars, boundVars, IInv, TypeOK, OpeningPcs
  <2>2. QED
    BY <1>1, <2>1, RequestsTyped, OpenerIdles DEF Boot, localVars, fixedVars, boundVars
<1>2. CASE BootSnapshot
  BY <1>2, BootSnapshotKeeps
<1>3. CASE PreflightBlocks
  <2>1. opens' \in 0 .. MaxOpens /\ op' \in Opening /\ pc["opener"] \notin OpeningPcs
    BY <1>3, StateTyped
       DEF PreflightBlocks, localVars, fixedVars, boundVars, IInv, TypeOK, OpeningPcs
  <2>2. QED
    BY <1>3, <2>1, NoCallTyped, OpenerIdles
       DEF PreflightBlocks, Goto, localVars, fixedVars, boundVars
<1>4. CASE ReserveSymbol
  BY <1>4, ReserveKeeps
<1>5. CASE LeverageSet
  <2>1. OpenerFrame /\ pc["opener"] \in OpeningPcs
    BY <1>5 DEF LeverageSet, Resumes, OpenerFrame, openerRest, venueVars, OpeningPcs
  <2>2. CASE Ok("opener")
    <3>1. "market" \in OpeningPcs
      BY DEF OpeningPcs
    <3>2. QED
      BY <1>5, <2>1, <2>2, <3>1, StateTyped, Constants, RequestsTyped, OpenerAsks
         DEF LeverageSet
  <2>3. CASE ~Ok("opener")
    BY <1>5, <2>1, <2>3, DropOpeningKeeps DEF LeverageSet
  <2>4. QED
    BY <2>2, <2>3
<1>6. CASE MarketDone
  <2> DEFINE executed == call["opener"].val[op.sym]
             o == [op EXCEPT !.qty = executed]
  <2>1. pc["opener"] \in OpeningPcs /\ UNCHANGED openerRest
    BY <1>6 DEF MarketDone, Resumes, OpeningPcs
  <2>2. executed \in Nat /\ o \in Opening /\ o.sym = op.sym
    BY StateTyped, Constants DEF Opening
  <2>3. CASE ~Ok("opener")
    BY <1>6, <2>1, <2>3, DropOpeningKeeps DEF MarketDone, OpenerFrame
  <2>4. CASE Ok("opener") /\ executed > 0
    BY <1>6, <2>1, <2>2, <2>4, EnterTakeProfitKeeps DEF MarketDone
  <2>5. CASE Ok("opener") /\ ~(executed > 0)
    <3>1. "fillPoll" \in OpeningPcs
      BY DEF OpeningPcs
    <3>2. QED
      BY <1>6, <2>1, <2>5, <3>1, StateTyped, RequestsTyped, OpenerAsks
         DEF MarketDone, OpenerFrame
  <2>6. QED
    BY <2>3, <2>4, <2>5
<1>7. CASE FillPolled
  <2> DEFINE held == call["opener"].val[op.sym]
             o == [op EXCEPT !.qty = IF Ok("opener") /\ held > 0 THEN held ELSE @]
  <2>1. o \in Opening /\ o.sym = op.sym
    BY StateTyped, Constants DEF Opening
  <2>2. EnterTakeProfit(o) /\ UNCHANGED openerRest /\ pc["opener"] \in OpeningPcs
    BY <1>7 DEF FillPolled, Resumes, OpeningPcs
  <2> HIDE DEF o
  <2>3. QED
    BY <2>1, <2>2, EnterTakeProfitKeeps
<1>8. CASE TakeProfitPlaced
  <2>1. pc["opener"] \in OpeningPcs /\ UNCHANGED openerRest
    BY <1>8 DEF TakeProfitPlaced, Resumes, OpeningPcs
  <2>2. [op EXCEPT !.tpPlaced = TRUE] \in Opening /\ [op EXCEPT !.tpPlaced = TRUE].sym = op.sym
    BY StateTyped DEF Opening
  <2>3. QED
    BY <1>8, <2>1, <2>2, StateTyped, EnterStopLossKeeps, EmergencyCloseKeeps
       DEF TakeProfitPlaced, OpenerFrame
<1>9. CASE StopLossPlaced
  <2>1. pc["opener"] \in OpeningPcs /\ OpenerFrame
    BY <1>9 DEF StopLossPlaced, Resumes, OpeningPcs, OpenerFrame
  <2>2. QED
    BY <1>9, <2>1, StateTyped, CommitKeeps, UndoTakeProfitKeeps DEF StopLossPlaced
<1>10. CASE TakeProfitUndone
  <2>1. pc["opener"] \in OpeningPcs /\ OpenerFrame
    BY <1>10 DEF TakeProfitUndone, Resumes, OpeningPcs, OpenerFrame
  <2>2. QED
    BY <1>10, <2>1, StateTyped, EmergencyCloseKeeps DEF TakeProfitUndone
<1>11. CASE OpenerCloseReturns
  <2>1. pc["opener"] = "emergencyClose" /\ pc["opener"] \in OpeningPcs /\ OpenerFrame
    BY <1>11 DEF OpenerCloseReturns, OpeningPcs, OpenerFrame, IInv, CommitNeverFails
  <2>2. CASE Ok("opener")
    <3>1. "emergencyPoll" \in OpeningPcs
      BY DEF OpeningPcs
    <3>2. QED
      BY <1>11, <2>1, <2>2, <3>1, StateTyped, RequestsTyped, OpenerAsks
         DEF OpenerCloseReturns
  <2>3. CASE ~Ok("opener")
    BY <1>11, <2>1, <2>3, StateTyped, CommitKeeps DEF OpenerCloseReturns
  <2>4. QED
    BY <2>2, <2>3
<1>12. CASE EmergencyVerified
  <2>1. pc["opener"] \in OpeningPcs /\ OpenerFrame
    BY <1>12 DEF EmergencyVerified, Resumes, OpeningPcs, OpenerFrame
  <2>2. QED
    BY <1>12, <2>1, StateTyped, DropOpeningKeeps, CommitKeeps DEF EmergencyVerified
<1>13. QED
  BY <1>1, <1>2, <1>3, <1>4, <1>5, <1>6, <1>7, <1>8, <1>9, <1>10, <1>11, <1>12
     DEF OpenerContinues

----------------------------------------------------------------------------
(* The venue, the user data stream, time and restarts.                     *)

\* Neither the venue nor time concerns the coroutines.
LEMMA OutsideKeeps ==
    ASSUME IInv, UNCHANGED <<clock, pc, localVars, fixedVars>>,
           Quiet(tracker, tracker', clock'), cooldown' \subseteq Symbols,
           ExchangeTypeOK', PlacesKnownExit'
    PROVE  IInv'
<1>1. TypeOK'
  BY DEF IInv, TypeOK, Quiet, localVars, fixedVars, boundVars
<1>2. ReplacementIsLater'
  BY DEF IInv, ReplacementIsLater, localVars
<1>3. MonitorCopies' = MonitorCopies /\ TrailerCopies' = TrailerCopies
  BY DEF MonitorCopies, TrailerCopies, localVars
<1>4. QED
  BY <1>1, <1>2, <1>3, QuietStep DEF IInv, localVars

\* A request keeps its kind and its id while it is answered.
LEMMA AnsweredTyped ==
    ASSUME IInv, NEW p \in Procs, NEW val \in [Symbols -> Nat],
           NEW st \in {"accepted", "failed"},
           call' = [call EXCEPT ![p].st = st, ![p].val = val]
             \/ call' = [call EXCEPT ![p].st = st]
    PROVE  call' \in [Procs -> Call] /\ PlacesKnownExit'
<1>1. \A q \in Procs : call[q] \in Call
  BY StateTyped
<1>2. PICK answer \in {[call[p] EXCEPT !.st = st, !.val = val], [call[p] EXCEPT !.st = st]} :
        call' = [call EXCEPT ![p] = answer]
  BY DEF IInv, TypeOK, ExchangeTypeOK
<1>3. \A q \in Procs : /\ call'[q] \in Call
                       /\ call'[q].op = call[q].op /\ call'[q].id = call[q].id
  <2>1. answer \in Call /\ answer.op = call[p].op /\ answer.id = call[p].id
    BY <1>1 DEF Call
  <2>2. call \in [Procs -> Call]
    BY DEF IInv, TypeOK, ExchangeTypeOK
  <2>3. QED
    BY <1>1, <1>2, <2>1, <2>2
<1>4. call' \in [Procs -> Call]
  BY <1>2, <1>3 DEF IInv, TypeOK, ExchangeTypeOK
<1>5. QED
  BY <1>3, <1>4 DEF IInv, PlacesKnownExit

\* An answer is typed whether it reaches the coroutine or is lost.
LEMMA AnswerTyped ==
    ASSUME IInv, NEW p \in Procs, NEW val \in [Symbols -> Nat], AnswerWith(p, val)
    PROVE  call' \in [Procs -> Call] /\ PlacesKnownExit' /\ faults' \in 0 .. MaxFaults
<1>1. faults' \in 0 .. MaxFaults
  BY Constants DEF AnswerWith, IInv, TypeOK, ExchangeTypeOK
<1>2. QED
  BY <1>1, AnsweredTyped DEF AnswerWith

\* Serving a request keeps the state of the venue typed.
LEMMA ServeTyped ==
    ASSUME IInv, NEW p \in Procs, Serve(p)
    PROVE  ExchangeTypeOK' /\ PlacesKnownExit'
<1>1. /\ call[p] \in Call /\ call[p].sym \in Symbols /\ call[p].qty \in Nat
      /\ live \in [Symbols -> Nat] /\ exits \in [Symbols -> SUBSET Order]
      /\ NoVal \in [Symbols -> Nat] /\ ExchangeTypeOK
      /\ \A q \in Nat : [NoVal EXCEPT ![call[p].sym] = q] \in [Symbols -> Nat]
  BY StateTyped, Constants DEF IInv, TypeOK, ExchangeTypeOK, Call
<1>2. CASE ServeLeverage(p)
  BY <1>1, <1>2, AnswerTyped DEF ServeLeverage, Answer, ExchangeTypeOK
<1>3. CASE ServeSnapshot(p)
  BY <1>1, <1>3, AnsweredTyped DEF ServeSnapshot, ExchangeTypeOK
<1>4. CASE ServeMarket(p)
  <2>1. PICK q \in 1 .. call[p].qty :
           /\ live' = [live EXCEPT ![call[p].sym] = @ + q]
           /\ \/ AnswerWith(p, [NoVal EXCEPT ![call[p].sym] = q])
              \/ AckOnly /\ AnswerWith(p, NoVal)
    BY <1>4 DEF ServeMarket
  <2>2. q \in Nat /\ live' \in [Symbols -> Nat]
    BY <1>1, <2>1
  <2>3. call' \in [Procs -> Call] /\ PlacesKnownExit' /\ faults' \in 0 .. MaxFaults
    BY <1>1, <2>1, <2>2, AnswerTyped
  <2>4. QED
    BY <1>1, <1>4, <2>2, <2>3 DEF ServeMarket, ExchangeTypeOK
<1>5. CASE ServeClose(p)
  <2>1. live' \in [Symbols -> Nat]
    BY <1>1, <1>5 DEF ServeClose
  <2>2. QED
    BY <1>1, <1>5, <2>1, AnswerTyped DEF ServeClose, Answer, ExchangeTypeOK
<1>6. CASE ServePlace(p)
  <2>1. call[p].id \in ExitId
    BY <1>6 DEF ServePlace, Pending, IInv, PlacesKnownExit
  <2>2. [id |-> call[p].id, qty |-> call[p].qty] \in Order
    BY <1>1, <2>1 DEF Order
  <2>3. exits' \in [Symbols -> SUBSET Order]
    BY <1>1, <1>6, <2>2 DEF ServePlace
  <2>4. QED
    BY <1>1, <1>6, <2>3, AnswerTyped DEF ServePlace, Answer, ExchangeTypeOK
<1>7. CASE ServeCancel(p)
  <2>1. exits' \in [Symbols -> SUBSET Order]
    BY <1>1, <1>7 DEF ServeCancel
  <2>2. QED
    BY <1>1, <1>7, <2>1, AnswerTyped DEF ServeCancel, Answer, ExchangeTypeOK
<1>8. CASE Refuse(p)
  BY <1>1, <1>8, AnsweredTyped DEF Refuse, Fail, ExchangeTypeOK
<1>9. CASE Lose(p)
  <2>1. faults' \in 0 .. MaxFaults
    BY <1>1, <1>9, Constants DEF Lose, ExchangeTypeOK
  <2>2. QED
    BY <1>1, <1>9, <2>1, AnsweredTyped DEF Lose, Fail, ExchangeTypeOK
<1>10. QED
  BY <1>2, <1>3, <1>4, <1>5, <1>6, <1>7, <1>8, <1>9 DEF Serve

\* So does what the market does by itself.
LEMMA MarketTyped ==
    ASSUME IInv, Market
    PROVE  ExchangeTypeOK' /\ PlacesKnownExit'
<1>1. /\ live \in [Symbols -> Nat] /\ exits \in [Symbols -> SUBSET Order]
      /\ events \in Seq(Event) /\ ExchangeTypeOK /\ PlacesKnownExit
  BY DEF IInv, TypeOK, ExchangeTypeOK
<1>2. ASSUME NEW s \in Symbols, FillExit(s)
      PROVE  ExchangeTypeOK' /\ PlacesKnownExit'
  <2>0. PICK o \in exits[s] : \E q \in 1 .. o.qty :
          /\ q <= live[s]
          /\ live' = [live EXCEPT ![s] = @ - q]
          /\ exits' = [exits EXCEPT ![s] =
                (@ \ {o}) \cup (IF q < o.qty /\ o.id.leg = "tp"
                                THEN {[o EXCEPT !.qty = @ - q]} ELSE {})]
          /\ Notice(s, o.id, q = o.qty \/ o.id.leg = "sl", q)
    BY <1>2 DEF FillExit
  <2>1. PICK q \in 1 .. o.qty :
          /\ q <= live[s]
          /\ live' = [live EXCEPT ![s] = @ - q]
          /\ exits' = [exits EXCEPT ![s] =
                (@ \ {o}) \cup (IF q < o.qty /\ o.id.leg = "tp"
                                THEN {[o EXCEPT !.qty = @ - q]} ELSE {})]
          /\ Notice(s, o.id, q = o.qty \/ o.id.leg = "sl", q)
    BY <2>0
  <2>2. o \in Order /\ o.qty \in Nat /\ o.id \in ExitId /\ q \in Nat
    BY <1>1 DEF Order
  <2>3. live' \in [Symbols -> Nat]
    BY <1>1, <2>1, <2>2
  <2>4. q < o.qty => [o EXCEPT !.qty = @ - q] \in Order
    BY <2>2 DEF Order
  <2>5. exits' \in [Symbols -> SUBSET Order]
    BY <1>1, <2>1, <2>2, <2>4
  <2>6. [sym |-> s, id |-> o.id, filled |-> (q = o.qty \/ o.id.leg = "sl"), qty |-> q] \in Event
    BY <2>2 DEF Event
  <2>7. events' \in Seq(Event)
    BY <1>1, <2>1, <2>6 DEF Notice
  <2>8. QED
    BY <1>1, <1>2, <2>3, <2>5, <2>7 DEF FillExit, ExchangeTypeOK, PlacesKnownExit
<1>3. ASSUME NEW s \in Symbols, CloseByHand(s)
      PROVE  ExchangeTypeOK' /\ PlacesKnownExit'
  <2>1. [sym |-> s, id |-> NoExit, filled |-> TRUE, qty |-> live[s]] \in Event
    BY <1>1 DEF Event
  <2>2. events' \in Seq(Event)
    BY <1>1, <1>3, <2>1 DEF CloseByHand, Notice
  <2>3. live' \in [Symbols -> Nat] /\ externals' \in 0 .. MaxExternal
    BY <1>1, <1>3, Constants DEF CloseByHand, ExchangeTypeOK
  <2>4. QED
    BY <1>1, <1>3, <2>2, <2>3 DEF CloseByHand, ExchangeTypeOK, PlacesKnownExit
<1>4. CASE DropEvents
  BY <1>1, <1>4 DEF DropEvents, ExchangeTypeOK, PlacesKnownExit
<1>5. QED
  BY <1>2, <1>3, <1>4 DEF Market

\* No event of the user data stream reaches a reservation.
LEMMA EventKeeps ==
    ASSUME IInv, OnUserDataEvent
    PROVE  IInv'
<1> DEFINE e == Head(events)
<1>1. events \in Seq(Event) /\ events # <<>>
  BY DEF OnUserDataEvent, IInv, TypeOK, ExchangeTypeOK
<1>2. e \in Event /\ Tail(events) \in Seq(Event)
  BY <1>1
<1>3. e.sym \in Symbols /\ e.id \in ExitId \cup {NoExit} /\ e.qty \in Nat
  BY <1>2 DEF Event
<1>4. ExchangeTypeOK' /\ PlacesKnownExit'
  BY <1>2 DEF OnUserDataEvent, IInv, TypeOK, ExchangeTypeOK, PlacesKnownExit
<1>5. \A s \in Symbols : tracker[s].inFlight =>
          tracker[s].tp = NoExit /\ tracker[s].sl = NoExit
  BY DEF IInv, ReservationIsApart
<1>6. /\ \/ tracker' = RemoveByExitOrderClientId(tracker, e.id)
         \/ tracker' = ApplyExitFillByClientId(tracker, e.id, e.qty)
         \/ tracker' = tracker
      /\ cooldown' \in {cooldown, cooldown \cup {e.sym}}
      /\ UNCHANGED <<clock, pc, localVars, fixedVars>>
  BY DEF OnUserDataEvent
<1> HIDE DEF e
<1>7. Quiet(tracker, tracker', clock')
  BY <1>3, <1>5, <1>6, StateTyped, ExitFillsAreQuiet, NothingIsQuiet
<1>8. cooldown' \subseteq Symbols
  BY <1>3, <1>6 DEF IInv, TypeOK
<1>9. QED
  BY <1>4, <1>6, <1>7, <1>8, OutsideKeeps

\* A restart forgets the reservation together with its opening.
LEMMA CrashKeeps ==
    ASSUME IInv, Crash
    PROVE  IInv'
<1>1. /\ tracker' \in TrackerMap
      /\ \A s \in Symbols : ~tracker'[s].inFlight /\ tracker'[s].openedAt = 0
  BY EmptyIsTyped, NoPosIsApart DEF Crash
<1>2. /\ pc' \in [Procs -> {"boot", "off"}] /\ pc'["opener"] = "boot"
      /\ pc'["monitor"] = "off" /\ pc'["trailer"] = "off"
  BY Constants DEF Crash, Booting
<1>3. op' \in Opening /\ mon' \in MonitorLocals /\ trl' \in TrailerLocals
  BY Constants, NewOpeningTyped, NoCopyTyped
     DEF Crash, NoMon, NoTrl, MonitorLocals, TrailerLocals
<1>4. MonitorCopies' = {NoCopy} /\ TrailerCopies' = {NoCopy}
  BY DEF Crash, MonitorCopies, TrailerCopies, NoMon, NoTrl
<1>5. call' \in [Procs -> Call] /\ PlacesKnownExit'
  BY NoCallTyped DEF Crash, PlacesKnownExit
<1>6. crashes' \in 0 .. MaxCrashes
  BY Constants DEF Crash, IInv, TypeOK
<1>7. TypeOK'
  BY <1>1, <1>2, <1>3, <1>5, <1>6
     DEF Crash, IInv, TypeOK, ExchangeTypeOK, OpenerPcs, MonitorPcs, TrailerPcs
<1>8. ReservationOwned' /\ CommitNeverFails' /\ ReservationIsApart' /\ ReplacementIsLater'
  BY <1>1, <1>2 DEF ReservationOwned, CommitNeverFails, ReservationIsApart,
     ReplacementIsLater, OpeningPcs, TrailingPcs
<1>9. NoneFromTheFuture'
  BY <1>1, <1>4, NoCopyTyped DEF Crash, NoneFromTheFuture, IInv, TypeOK
<1>10. QED
  BY <1>5, <1>7, <1>8, <1>9 DEF IInv

\* Every step of the surroundings keeps IInv.
LEMMA EnvironmentKeeps ==
    ASSUME IInv, Environment
    PROVE  IInv'
<1>1. CASE (Market \/ \E p \in Procs : Serve(p)) /\ UNCHANGED engineVars
  <2>1. ExchangeTypeOK' /\ PlacesKnownExit'
    BY <1>1, MarketTyped, ServeTyped
  <2>2. UNCHANGED <<tracker, cooldown, clock, pc, localVars, fixedVars>>
    BY <1>1 DEF engineVars
  <2>3. cooldown' \subseteq Symbols
    BY <2>2 DEF IInv, TypeOK
  <2>4. QED
    BY <2>1, <2>2, <2>3, StateTyped, NothingIsQuiet, OutsideKeeps
<1>2. CASE OnUserDataEvent
  BY <1>2, EventKeeps
<1>3. ASSUME NEW s \in Symbols, CooldownEnds(s) \/ HoldTimePasses(s)
      PROVE  IInv'
  <2>1. ExchangeTypeOK' /\ PlacesKnownExit'
    BY <1>3 DEF CooldownEnds, HoldTimePasses, exchangeVars, IInv, TypeOK, ExchangeTypeOK,
                PlacesKnownExit
  <2>2. Quiet(tracker, tracker', clock')
    <3>1. CASE CooldownEnds(s)
      BY <3>1, StateTyped, NothingIsQuiet DEF CooldownEnds
    <3>2. CASE HoldTimePasses(s)
      <4>1. Committed(tracker, s) /\ tracker' = [tracker EXCEPT ![s].aged = TRUE]
        BY <3>2 DEF HoldTimePasses
      <4>2. QED
        BY <4>1, StateTyped, AgeingIsQuiet
    <3>3. QED
      BY <1>3, <3>1, <3>2
  <2>3. cooldown' \subseteq Symbols /\ UNCHANGED <<clock, pc, localVars, fixedVars>>
    BY <1>3 DEF CooldownEnds, HoldTimePasses, IInv, TypeOK
  <2>4. QED
    BY <2>1, <2>2, <2>3, OutsideKeeps
<1>4. CASE Crash
  BY <1>4, CrashKeeps
<1>5. QED
  BY <1>1, <1>2, <1>3, <1>4 DEF Environment

----------------------------------------------------------------------------
(* The theorems.                                                           *)

\* IInv holds when the process starts.
LEMMA InitEstablishes ==
    ASSUME Init
    PROVE  IInv
<1>1. /\ tracker \in TrackerMap
      /\ \A s \in Symbols : ~tracker[s].inFlight /\ tracker[s].openedAt = 0
  BY EmptyIsTyped, NoPosIsApart DEF Init
<1>2. /\ pc \in [Procs -> {"boot", "off"}] /\ pc["opener"] = "boot"
      /\ pc["monitor"] = "off" /\ pc["trailer"] = "off"
  BY Constants DEF Init, Booting
<1>3. op \in Opening /\ mon \in MonitorLocals /\ trl \in TrailerLocals
  BY Constants, NewOpeningTyped, NoCopyTyped
     DEF Init, NoMon, NoTrl, MonitorLocals, TrailerLocals
<1>4. MonitorCopies = {NoCopy} /\ TrailerCopies = {NoCopy}
  BY DEF Init, MonitorCopies, TrailerCopies, NoMon, NoTrl
<1>5. ExchangeTypeOK /\ PlacesKnownExit
  BY Constants, NoCallTyped DEF Init, ExchangeInit, ExchangeTypeOK, PlacesKnownExit
<1>6. TypeOK
  BY <1>1, <1>2, <1>3, <1>5, Constants
     DEF Init, TypeOK, OpenerPcs, MonitorPcs, TrailerPcs
<1>7. ReservationOwned /\ CommitNeverFails /\ ReservationIsApart /\ ReplacementIsLater
  BY <1>1, <1>2 DEF ReservationOwned, CommitNeverFails, ReservationIsApart,
     ReplacementIsLater, OpeningPcs, TrailingPcs
<1>8. NoneFromTheFuture
  BY <1>1, <1>4, NoCopyTyped DEF Init, NoneFromTheFuture
<1>9. QED
  BY <1>5, <1>6, <1>7, <1>8 DEF IInv

\* IInv is inductive.
LEMMA NextKeeps ==
    ASSUME IInv, [Next]_vars
    PROVE  IInv'
<1>1. ASSUME NEW s \in Symbols, Signal(s)
      PROVE  IInv'
  BY <1>1, SignalKeeps
<1>2. CASE UNCHANGED vars
  BY <1>2 DEF vars, engineVars, exchangeVars, localVars, fixedVars, boundVars, IInv, TypeOK,
     ExchangeTypeOK, PlacesKnownExit, ReservationOwned, CommitNeverFails, NoneFromTheFuture,
     ReservationIsApart, ReplacementIsLater, MonitorCopies, TrailerCopies, SameOpening
<1>3. QED
  BY <1>1, <1>2, OpenerContinuesKeeps, MonitorStepKeeps, TrailerStepKeeps, EnvironmentKeeps
     DEF Next

\* IInv holds in every state the engine and the venue can reach.
THEOREM Invariance == Spec => []IInv
  BY InitEstablishes, NextKeeps, PTL DEF Spec

\* Every variable keeps its type: no request places an order without an id, no copy
\* of an entry is anything but an entry, no entry is made without a stamp.
THEOREM TypeCorrect == Spec => []TypeOK
<1>1. IInv => TypeOK
  BY DEF IInv
<1>2. QED
  BY <1>1, Invariance, PTL

\* The reservation made by reserve() lasts exactly as long as the opening it was made
\* for, whatever the monitor, the trailer and the user data stream do meanwhile.
THEOREM ReservationsAreOwned == Spec => []ReservationOwned
<1>1. IInv => ReservationOwned
  BY DEF IInv
<1>2. QED
  BY <1>1, Invariance, PTL

\* The "commit failed: close the position again" branch at the end of
\* openPositionFromPreflight is never taken.
THEOREM CommitSucceeds == Spec => []CommitNeverFails
<1>1. IInv => CommitNeverFails
  BY DEF IInv
<1>2. QED
  BY <1>1, Invariance, PTL

----------------------------------------------------------------------------
(* The stop of a closed position is not hung on its successor.             *)

\* Who changes no stop hangs none on the wrong position.
LEMMA KeepsStopsIsLater ==
    ASSUME KeepsStops(tracker, tracker')
    PROVE  \A s \in Symbols : LaterStop(s)
  BY DEF KeepsStops, LaterStop

\* RecordStop compares the stamps, and the replacement is later than the copy's.
LEMMA RecordStopIsLater ==
    ASSUME IInv, pc["trailer"] \in TrailingPcs,
           RecordStop(trl.cur)
    PROVE  \A s \in Symbols : LaterStop(s)
<1>1. trl.id \in ExitId /\ trl.id.stamp > trl.cur.pos.openedAt /\ trl.cur.sym \in Symbols
  BY StateTyped, CopyFields DEF IInv, ReplacementIsLater
<1>2. CASE ~SameOpening(tracker, trl.cur)
  BY <1>2 DEF RecordStop, LaterStop
<1>3. CASE SameOpening(tracker, trl.cur)
  <2>1. tracker' = UpdateStopLoss(tracker, trl.cur.sym, trl.id, TRUE)
    BY <1>3 DEF RecordStop
  <2>2. ChangesOneStop(tracker, tracker', trl.cur.sym, trl.id)
    BY <1>1, <2>1, StateTyped, UpdateStopLossChanges
  <2>3. QED
    BY <1>1, <1>3, <2>2 DEF ChangesOneStop, LaterStop, SameOpening
<1>4. QED
  BY <1>2, <1>3

\* An opening changes the stop of no committed entry.
LEMMA OpenerStopsLater ==
    ASSUME IInv, OpenerContinues
    PROVE  \A s \in Symbols : LaterStop(s)
<1>1. tracker \in TrackerMap /\ op.sym \in Symbols /\ now \in Stamp
  BY StateTyped, NowTyped DEF IInv
<1>2. ASSUME tracker' = tracker
      PROVE  KeepsStops(tracker, tracker')
  BY <1>2 DEF KeepsStops
<1>3. ASSUME DropOpening
      PROVE  KeepsStops(tracker, tracker')
  BY <1>1, <1>3, RemoveIsTyped DEF DropOpening, KeepsStops, Committed, Has
<1>4. ASSUME NEW o, o.sym = op.sym, CommitOpening(o) \/ CommitEmergency(o)
      PROVE  KeepsStops(tracker, tracker')
  <2>1. \/ tracker' = tracker \/ tracker' = Remove(tracker, op.sym)
        \/ tracker' = CommitReserved(tracker, op.sym, Opened(o))
    BY <1>4 DEF CommitOpening, CommitEmergency
  <2>2. QED
    BY <1>1, <1>2, <2>1, CommitKeepsStops, RemoveIsTyped DEF KeepsStops, Committed, Has
<1>5. ASSUME NEW o, o.sym = op.sym, o.sym \in Symbols, EnterStopLoss(o) \/ UndoTakeProfit(o)
      PROVE  KeepsStops(tracker, tracker')
  <2>1. tracker' = tracker \/ CommitOpening(o)
    BY <1>5 DEF EnterStopLoss, UndoTakeProfit, EmergencyClose
  <2>2. QED
    BY <1>2, <1>4, <1>5, <2>1
<1>6. ASSUME NEW o, o.sym = op.sym, o.sym \in Symbols, EnterTakeProfit(o)
      PROVE  KeepsStops(tracker, tracker')
  <2>1. tracker' = tracker \/ EnterStopLoss(o)
    BY <1>6 DEF EnterTakeProfit, EmergencyClose
  <2>2. QED
    BY <1>2, <1>5, <1>6, <2>1
<1>7. \A q : [op EXCEPT !.qty = q].sym = op.sym
  BY StateTyped DEF Opening
<1>8. [op EXCEPT !.tpPlaced = TRUE].sym = op.sym
  BY StateTyped DEF Opening
<1>9. CASE BootSnapshot
  <2>1. tracker' = tracker \/ tracker' = LoadFromSnapshot(call["opener"].val, now)
    BY <1>9 DEF BootSnapshot
  <2>2. call["opener"].val \in [Symbols -> Nat] /\ now > clock /\ clock \in Nat
    BY StateTyped, Constants, NowTyped DEF IInv
  <2>3. ASSUME NEW s \in Symbols, tracker' = LoadFromSnapshot(call["opener"].val, now)
        PROVE  tracker'[s].openedAt = 0 \/ tracker'[s].openedAt # tracker[s].openedAt
    BY <1>1, <2>2, <2>3, LoadIsTyped, EntryFields DEF IInv, NoneFromTheFuture, Stamp
  <2>4. tracker' \in TrackerMap
    BY <1>1, <2>1, <2>2, LoadIsTyped
  <2>5. QED
    BY <1>1, <1>2, <2>1, <2>3, <2>4, EntryFields, KeepsStopsIsLater DEF KeepsStops, Committed
<1>10. CASE Boot \/ PreflightBlocks \/ TakeProfitUndone
  BY <1>2, <1>10, KeepsStopsIsLater DEF Boot, PreflightBlocks, TakeProfitUndone, EmergencyClose
<1>11. CASE ReserveSymbol
  <2>1. tracker' = tracker \/ tracker' = Reserve(tracker, op.sym, now)
    BY <1>11 DEF ReserveSymbol
  <2>2. KeepsStops(tracker, tracker')
    BY <1>1, <1>2, <2>1 DEF Reserve, KeepsStops, Committed, TrackerMap
  <2>3. QED
    BY <2>2, KeepsStopsIsLater
<1>12. CASE LeverageSet
  BY <1>2, <1>3, <1>12, KeepsStopsIsLater DEF LeverageSet
<1>13. ASSUME NEW q, EnterTakeProfit([op EXCEPT !.qty = q])
       PROVE  \A s \in Symbols : LaterStop(s)
  <2> DEFINE o == [op EXCEPT !.qty = q]
  <2>1. o.sym = op.sym /\ EnterTakeProfit(o)
    BY <1>7, <1>13
  <2> HIDE DEF o
  <2>2. QED
    BY <1>1, <1>6, <2>1, KeepsStopsIsLater
<1>14. CASE MarketDone \/ FillPolled
  <2>1. tracker' = tracker \/ DropOpening \/ \E q : EnterTakeProfit([op EXCEPT !.qty = q])
    BY <1>14 DEF MarketDone, FillPolled
  <2>2. QED
    BY <1>2, <1>3, <1>13, <2>1, KeepsStopsIsLater
<1>15. CASE TakeProfitPlaced
  <2>1. tracker' = tracker \/ EnterStopLoss([op EXCEPT !.tpPlaced = TRUE])
    BY <1>15 DEF TakeProfitPlaced, EmergencyClose
  <2>2. QED
    BY <1>1, <1>2, <1>5, <1>8, <2>1, KeepsStopsIsLater
<1>16. CASE StopLossPlaced
  BY <1>1, <1>4, <1>5, <1>16, KeepsStopsIsLater DEF StopLossPlaced
<1>17. CASE OpenerCloseReturns
  BY <1>1, <1>2, <1>3, <1>4, <1>17, KeepsStopsIsLater DEF OpenerCloseReturns
<1>18. CASE EmergencyVerified
  BY <1>1, <1>3, <1>4, <1>18, KeepsStopsIsLater DEF EmergencyVerified
<1>19. QED
  BY <1>9, <1>10, <1>11, <1>12, <1>14, <1>15, <1>16, <1>17, <1>18 DEF OpenerContinues

\* The time exit and the reconciliation change no stop.
LEMMA MonitorStopsLater ==
    ASSUME IInv, MonitorStep
    PROVE  \A s \in Symbols : LaterStop(s)
<1>1. tracker \in TrackerMap /\ mon.cur.sym \in Symbols /\ now \in Stamp
  BY StateTyped, CopyFields, NowTyped DEF IInv
<1>2. ASSUME tracker' = tracker \/ Forget(mon.cur)
      PROVE  \A s \in Symbols : LaterStop(s)
  <2>1. tracker' = tracker \/ tracker' = RemoveIfOpenedAt(tracker, mon.cur)
    BY <1>2 DEF Forget
  <2>2. KeepsStops(tracker, tracker')
    BY <1>1, <2>1, RemoveIsTyped DEF KeepsStops, RemoveIfOpenedAt, Committed, Has
  <2>3. QED
    BY <2>2, KeepsStopsIsLater
<1>3. ASSUME CancelStopAndForget(mon.cur) \/ CancelExitsAndForget(mon.cur)
      PROVE  tracker' = tracker \/ Forget(mon.cur)
  BY <1>3 DEF CancelStopAndForget, CancelExitsAndForget
<1>4. CASE MonitorSnapshot
  <2>1. \/ tracker' = tracker
        \/ tracker' = RemoveAllIfOpenedAt(tracker,
              {c \in AllTracked(tracker) : call["monitor"].val[c.sym] = 0})
    BY <1>4 DEF MonitorSnapshot
  <2>2. KeepsStops(tracker, tracker')
    BY <1>1, <2>1 DEF KeepsStops, RemoveAllIfOpenedAt, Committed, Has
  <2>3. QED
    BY <2>2, KeepsStopsIsLater
<1>5. ASSUME NEW s \in mon.todo, ReconcileSymbol(s)
      PROVE  \A r \in Symbols : LaterStop(r)
  <2>1. s \in Symbols /\ mon.snap[s] \in Nat
    BY StateTyped
  <2>2. \/ tracker' = tracker \/ tracker' = RefreshFromSnapshot(tracker, s, mon.snap[s])
        \/ tracker' = AddRecovered(tracker, s, now, mon.snap[s])
    BY <1>5 DEF ReconcileSymbol
  <2>3. KeepsStops(tracker, tracker')
    <3>1. PICK c \in Copy : TRUE
      BY NoCopyTyped
    <3>2. c.sym \in Symbols
      BY CopyFields
    <3>3. QED
      BY <1>1, <2>1, <2>2, <3>2, StopsKept
  <2>4. QED
    BY <2>3, KeepsStopsIsLater
<1>6. CASE MonitorWakes \/ ForcedCloseReturns \/ \E c \in mon.expired : ExpireNext(c)
  BY <1>2, <1>6 DEF MonitorWakes, ForcedCloseReturns, ExpireNext
<1>7. CASE ExpirePolled \/ ExpireCloseReturns \/ ExpireTpCancelled \/ ExpireSlCancelled
  BY <1>2, <1>3, <1>7
     DEF ExpirePolled, ExpireCloseReturns, ExpireTpCancelled, ExpireSlCancelled
<1>8. QED
  BY <1>4, <1>5, <1>6, <1>7 DEF MonitorStep

\* The trailer records stops through RecordStop only.
LEMMA TrailerStopsLater ==
    ASSUME IInv, TrailerStep
    PROVE  \A s \in Symbols : LaterStop(s)
<1>1. \/ tracker' = tracker
      \/ /\ pc["trailer"] \in {"trailPlace", "trailCancel"}
         /\ RecordStop(trl.cur)
  BY DEF TrailerStep, TrailerWakes, TrailSkips, TrailPlaces, TrailPlaced, TrailCancelled,
         TrailRolledBack, Resumes
<1>2. QED
  BY <1>1, RecordStopIsLater DEF LaterStop, TrailingPcs

\* The surroundings change no stop the tracker knows.
LEMMA EnvironmentStopsLater ==
    ASSUME IInv, Environment
    PROVE  \A s \in Symbols : LaterStop(s)
<1>1. tracker \in TrackerMap
  BY StateTyped
<1>2. CASE OnUserDataEvent
  <2> DEFINE e == Head(events)
  <2>1. e \in Event
    BY <1>2 DEF OnUserDataEvent, IInv, TypeOK, ExchangeTypeOK
  <2>2. e.qty \in Nat /\ e.sym \in Symbols
    BY <2>1 DEF Event
  <2>3. \/ tracker' = tracker \/ tracker' = RemoveByExitOrderClientId(tracker, e.id)
        \/ tracker' = ApplyExitFillByClientId(tracker, e.id, e.qty)
    BY <1>2 DEF OnUserDataEvent
  <2> HIDE DEF e
  <2>4. KeepsStops(tracker, tracker')
    <3>1. NoCopy.sym \in Symbols /\ now \in Stamp
      BY NoCopyTyped, CopyFields, NowTyped DEF IInv
    <3>2. QED
      BY <1>1, <2>2, <2>3, <3>1, StopsKept
  <2>5. QED
    BY <2>4, KeepsStopsIsLater
<1>3. ASSUME NEW r \in Symbols, HoldTimePasses(r)
      PROVE  \A s \in Symbols : LaterStop(s)
  <2>1. tracker' = [tracker EXCEPT ![r].aged = TRUE]
    BY <1>3 DEF HoldTimePasses
  <2>2. NoCopy.sym \in Symbols /\ now \in Stamp
    BY NoCopyTyped, CopyFields, NowTyped DEF IInv
  <2>3. KeepsStops(tracker, tracker')
    BY <1>1, <2>1, <2>2, StopsKept, 0 \in Nat
  <2>4. QED
    BY <2>3, KeepsStopsIsLater
<1>4. CASE Crash
  BY <1>4, EmptyIsTyped DEF Crash, LaterStop, Committed, Has
<1>5. CASE tracker' = tracker
  BY <1>5 DEF LaterStop
<1>6. QED
  BY <1>2, <1>3, <1>4, <1>5 DEF Environment, CooldownEnds, engineVars

\* processTrailingStops may record a stop several awaits after it copied the entry,
\* but never on an entry opened after that stop was made.
THEOREM StopsAreOfTheirPosition == Spec => ReplacementOutlivesOpening
<1>1. ASSUME IInv, [Next]_vars
      PROVE  [\A s \in Symbols : LaterStop(s)]_vars
  <2>1. CASE \E s \in Symbols : Signal(s)
    BY <2>1 DEF Signal, LaterStop
  <2>2. QED
    BY <1>1, <2>1, OpenerStopsLater, MonitorStopsLater, TrailerStopsLater,
       EnvironmentStopsLater DEF Next
<1>2. QED
  BY <1>1, Invariance, PTL DEF Spec, ReplacementOutlivesOpening

----------------------------------------------------------------------------
(* Polls and stops: what a step of the engine does to the names of exits.  *)

\* A coroutine that does not step keeps its place, its locals and its request.
OpenerStill == pc'["opener"] = pc["opener"] /\ op' = op /\ call'["opener"] = call["opener"]
MonitorStill == pc'["monitor"] = pc["monitor"] /\ mon' = mon /\ call'["monitor"] = call["monitor"]
TrailerStill == pc'["trailer"] = pc["trailer"] /\ trl' = trl /\ call'["trailer"] = call["trailer"]

\* One that does makes up ids on the spot or keeps those it has, and takes copies of
\* committed entries or keeps those it has; a poll it
\* sends has no answer yet.
MadeNow(id, leg) == id = [leg |-> leg, stamp |-> now] /\ clock' = now
OpenerMoves ==
    /\ OpenerAsksOwn' /\ (pc'["opener"] = "emergencyPoll" => ~Ok("opener")')
    /\ \/ pc'["opener"] \notin ExpectsFill
       \/ op'.tp = NoExit /\ op'.sl = NoExit
       \/ /\ pc["opener"] \in ExpectsFill
          /\ op'.tp = op.tp \/ MadeNow(op'.tp, "tp")
          /\ op'.sl = op.sl \/ MadeNow(op'.sl, "sl")
MonitorMoves ==
    /\ MonitorAsksOwn' /\ (pc'["monitor"] = "expirePoll" => ~Ok("monitor")')
    /\ mon'.expired \subseteq mon.expired \cup ExpiredTracked(tracker')
    /\ mon'.cur \in mon.expired \cup {mon.cur, NoCopy}
    /\ pc'["monitor"] \in ClosingPcs =>
        mon'.cur \in mon.expired \/ (mon'.cur = mon.cur /\ pc["monitor"] \in ClosingPcs)
TrailerMoves ==
    /\ TrailerAsksOwn' /\ (pc'["trailer"] = "trailPlace" => ~Ok("trailer")')
    /\ trl'.todo \subseteq trl.todo \cup AllTracked(tracker')
    /\ trl'.cur \in trl.todo \cup {trl.cur, NoCopy}
    /\ \/ pc'["trailer"] \notin TrailingPcs
       \/ /\ pc'["trailer"] = "trailPlace" /\ trl'.cur \in trl.todo /\ MadeNow(trl'.id, "sl")
          /\ TrailPlaces(trl'.cur)
       \/ /\ pc["trailer"] \in TrailingPcs /\ UNCHANGED <<trl, tracker>>
          /\ pc'["trailer"] # "trailPlace"
          /\ pc'["trailer"] = "trailCancel" => pc["trailer"] = "trailPlace" /\ Ok("trailer")

\* An entry is kept, removed, made anew without exits, committed with those of the
\* opening, or given the replacement the trailer placed.
EntryMoves(s) ==
    \/ /\ tracker'[s].openedAt = tracker[s].openedAt
       /\ tracker'[s].tp = tracker[s].tp
       /\ tracker[s].aged => tracker'[s].aged
       /\ \/ tracker'[s].sl = tracker[s].sl
          \/ /\ tracker'[s].sl = trl.id
             /\ pc["trailer"] \in TrailingPcs /\ pc'["trailer"] \notin TrailingPcs
    \/ tracker'[s] = NoPos
    \/ /\ tracker'[s].openedAt = now /\ clock' = now
       /\ \/ tracker'[s].tp = NoExit /\ tracker'[s].sl = NoExit
          \/ /\ tracker'[s].tp = op.tp /\ tracker'[s].sl = op.sl
             /\ pc["opener"] \in ExpectsFill /\ pc'["opener"] \notin ExpectsFill

EngineStep ==
    /\ UNCHANGED <<live, exits>> /\ clock' \in {clock, now} /\ BootsAlone'
    /\ \A s \in Symbols : EntryMoves(s)
    /\ OpenerStill \/ OpenerMoves
    /\ MonitorStill \/ MonitorMoves
    /\ TrailerStill \/ TrailerMoves
    /\ OpenerStill \/ TrailerStill \/ pc'["trailer"] \notin TrailingPcs

\* What the ids and stamps in sight are.
LEMMA SightTyped ==
    ASSUME IInv, JInv
    PROVE  /\ MonitorCopies \subseteq Copy /\ TrailerCopies \subseteq Copy
           /\ \A c \in MonitorCopies \cup TrailerCopies :
                c.sym \in Symbols /\ c.pos.openedAt \in Nat /\ c.pos.openedAt <= clock
           /\ clock \in Nat /\ now = clock + 1
           /\ NoExit.stamp = 0 /\ NoExit.leg = "none"
<1>1. MonitorCopies \subseteq Copy /\ TrailerCopies \subseteq Copy
  BY StateTyped DEF MonitorCopies, TrailerCopies
<1>2. QED
  BY <1>1, CopyFields DEF IInv, NoneFromTheFuture, TypeOK, now, NoExit

\* A copy of the entry that is there now is one of the entry that was there: what
\* is made later is stamped later.
LEMMA SameAsBefore ==
    ASSUME IInv, JInv, IInv', EngineStep, NEW c \in MonitorCopies \cup TrailerCopies,
           c.pos.openedAt # 0, SameOpening(tracker', c)
    PROVE  /\ SameOpening(tracker, c)
           /\ tracker[c.sym].aged => tracker'[c.sym].aged
           /\ tracker'[c.sym].sl = tracker[c.sym].sl
              \/ (tracker'[c.sym].sl = trl.id /\ pc["trailer"] \in TrailingPcs)
<1>1. c.sym \in Symbols /\ c.pos.openedAt < now
  BY SightTyped
<1>2. EntryMoves(c.sym)
  BY <1>1 DEF EngineStep
<1>3. tracker'[c.sym].openedAt = c.pos.openedAt
  BY DEF SameOpening
<1>4. tracker'[c.sym] # NoPos /\ tracker'[c.sym].openedAt # now
  BY <1>1, <1>3, NoPosIsApart, SightTyped
<1>5. QED
  BY <1>2, <1>3, <1>4 DEF EntryMoves, SameOpening

\* Where the copies come from.
LEMMA CopiesComeFrom ==
    ASSUME IInv, EngineStep
    PROVE  \A c \in (MonitorCopies \cup TrailerCopies)' :
              c \in MonitorCopies \cup TrailerCopies \/ c \in AllTracked(tracker') \/ c = NoCopy
<1>1. ExpiredTracked(tracker') \subseteq AllTracked(tracker')
  BY DEF ExpiredTracked
<1>2. \A c \in MonitorCopies' :
          c \in MonitorCopies \/ c \in AllTracked(tracker') \/ c = NoCopy
  BY <1>1 DEF EngineStep, MonitorStill, MonitorMoves, MonitorCopies
<1>3. \A c \in TrailerCopies' :
          c \in TrailerCopies \/ c \in AllTracked(tracker') \/ c = NoCopy
  BY DEF EngineStep, TrailerStill, TrailerMoves, TrailerCopies
<1>4. QED
  BY <1>2, <1>3

\* Exits keep their legs, and their stamps stay behind the clock.
LEMMA LegsKept ==
    ASSUME IInv, JInv, IInv', EngineStep
    PROVE  ExitsOfTheirLeg'
<1>1. /\ clock \in Nat /\ clock' \in Nat /\ now = clock + 1 /\ clock <= clock'
      /\ NoExit.stamp = 0 /\ NoExit.leg = "none"
      /\ tracker \in TrackerMap
  BY SightTyped, StateTyped DEF EngineStep
<1> DEFINE Fine(tp, sl) == tp.leg \in {"tp", "none"} /\ sl.leg \in {"sl", "none"}
                             /\ sl.stamp <= clock'
<1>2. ASSUME NEW tp, NEW sl, sl \in ExitId \cup {NoExit}, Legs(tp, sl)
      PROVE  Fine(tp, sl)
  BY <1>1, <1>2 DEF Legs, ExitId, Stamp
<1>3. /\ pc["opener"] \in ExpectsFill => Fine(op.tp, op.sl)
      /\ pc["trailer"] \in TrailingPcs => Fine(NoExit, trl.id)
      /\ \A s \in Symbols : Fine(tracker[s].tp, tracker[s].sl)
      /\ \A c \in MonitorCopies \cup TrailerCopies : Fine(c.pos.tp, c.pos.sl)
  <2>1. /\ pc["opener"] \in ExpectsFill => Legs(op.tp, op.sl)
        /\ pc["trailer"] \in TrailingPcs => Legs(NoExit, trl.id)
        /\ \A s \in Symbols : Legs(tracker[s].tp, tracker[s].sl)
        /\ \A c \in MonitorCopies \cup TrailerCopies : Legs(c.pos.tp, c.pos.sl)
    BY DEF JInv, ExitsOfTheirLeg
  <2>2. \A s \in Symbols : tracker[s].sl \in ExitId \cup {NoExit}
    BY <1>1, EntryFields
  <2>3. \A c \in MonitorCopies \cup TrailerCopies : c.pos.sl \in ExitId \cup {NoExit}
    BY SightTyped, CopyFields
  <2> HIDE DEF Fine
  <2>4. QED
    BY <1>2, <2>1, <2>2, <2>3, StateTyped
<1>4. Fine(NoExit, NoExit)
  BY <1>1
<1>5. ASSUME NEW s \in Symbols
      PROVE  Fine(tracker'[s].tp, tracker'[s].sl)
  BY <1>3, <1>4, NoPosIsApart DEF EngineStep, EntryMoves
<1>6. ASSUME NEW c \in (MonitorCopies \cup TrailerCopies)'
      PROVE  Fine(c.pos.tp, c.pos.sl)
  <2>1. c \in AllTracked(tracker') => c.sym \in Symbols /\ c.pos = tracker'[c.sym]
    BY StateTyped, AllTrackedCopies DEF IInv, TypeOK
  <2>2. NoCopy.pos.tp = NoExit /\ NoCopy.pos.sl = NoExit
    BY NoPosIsApart DEF NoCopy
  <2> HIDE DEF Fine
  <2>3. QED
    BY <1>3, <1>4, <1>5, <2>1, <2>2, CopiesComeFrom
<1>7. pc'["opener"] \in ExpectsFill => Fine(op'.tp, op'.sl)
  <2>1. ASSUME OpenerMoves, pc'["opener"] \in ExpectsFill
        PROVE  Fine(op'.tp, op'.sl)
    BY <1>1, <1>3, <1>4, <2>1 DEF OpenerMoves, MadeNow
  <2>2. QED
    BY <1>3, <2>1 DEF EngineStep, OpenerStill
<1>8. pc'["trailer"] \in TrailingPcs => Fine(NoExit, trl'.id)
  <2>1. ASSUME TrailerMoves, pc'["trailer"] \in TrailingPcs
        PROVE  Fine(NoExit, trl'.id)
    BY <1>1, <1>3, <2>1 DEF TrailerMoves, MadeNow
  <2>2. QED
    BY <1>3, <2>1 DEF EngineStep, TrailerStill
<1>9. QED
  BY <1>5, <1>6, <1>7, <1>8 DEF ExitsOfTheirLeg, Legs

\* What was over its time is, and what had a stamp has.
LEMMA OverKept ==
    ASSUME IInv, JInv, IInv', EngineStep
    PROVE  ExpiredIsOver'
<1> DEFINE Over(c) == c.pos.openedAt # 0 /\ (SameOpening(tracker', c) => tracker'[c.sym].aged)
<1>1. ASSUME NEW c \in MonitorCopies, StaysOver(c)
      PROVE  Over(c)
  BY <1>1, SameAsBefore DEF StaysOver
<1>2. ASSUME NEW c \in ExpiredTracked(tracker')
      PROVE  Over(c)
  <2>1. c \in AllTracked(tracker') /\ c.pos.aged
    BY DEF ExpiredTracked
  <2>2. c.pos = tracker'[c.sym] /\ c.pos \in TrackedPosition
    BY <2>1, AllTrackedCopies DEF IInv, TypeOK
  <2>3. QED
    BY <2>1, <2>2 DEF TrackedPosition, Stamp
<1>3. /\ \A c \in mon.expired : Over(c)
      /\ pc["monitor"] \in ClosingPcs => Over(mon.cur)
  <2> HIDE DEF Over
  <2>1. QED
    BY <1>1 DEF JInv, ExpiredIsOver, MonitorCopies
<1>4. \A c \in mon'.expired : Over(c)
  <2> HIDE DEF Over
  <2>1. QED
    BY <1>2, <1>3 DEF EngineStep, MonitorStill, MonitorMoves
<1>5. pc'["monitor"] \in ClosingPcs => Over(mon'.cur)
  <2> HIDE DEF Over
  <2>1. QED
    BY <1>3 DEF EngineStep, MonitorStill, MonitorMoves
<1>6. \A c \in AllTracked(tracker') : c.pos.openedAt # 0
  BY AllTrackedCopies DEF IInv, TypeOK, TrackedPosition, Stamp
<1>7. \A c \in trl'.todo : c.pos.openedAt # 0
  BY <1>6 DEF EngineStep, TrailerStill, TrailerMoves, JInv, ExpiredIsOver
<1>8. pc'["trailer"] \in TrailingPcs => trl'.cur.pos.openedAt # 0
  BY DEF EngineStep, TrailerStill, TrailerMoves, JInv, ExpiredIsOver
<1>9. QED
  BY <1>4, <1>5, <1>7, <1>8 DEF ExpiredIsOver, StaysOver, SameOpening

\* No id gets known but by a commit or a record, and then its maker lets go of it.
LEMMA NamesKept ==
    ASSUME IInv, JInv, IInv', EngineStep
    PROVE  StopTellsOpening'
<1> DEFINE KnownNow(id) ==
        \/ \E s \in Symbols : tracker'[s].sl = id
        \/ \E c \in (MonitorCopies \cup TrailerCopies)' : c.pos.sl = id
<1>1. /\ clock \in Nat /\ now = clock + 1 /\ NoExit.stamp = 0
      /\ tracker' \in TrackerMap
  BY SightTyped DEF IInv, TypeOK
<1>2. ASSUME NEW c \in AllTracked(tracker')
      PROVE  c.sym \in Symbols /\ c.pos = tracker'[c.sym]
  BY <1>1, AllTrackedCopies
<1>3. NoCopy.pos.sl = NoExit
  BY NoPosIsApart DEF NoCopy
\* An id that is known now was known, is nobody's, or was let go of.
<1>4. ASSUME NEW id, KnownNow(id)
      PROVE  \/ Known(id) \/ id = NoExit
             \/ id = op.sl /\ pc["opener"] \in ExpectsFill /\ pc'["opener"] \notin ExpectsFill
             \/ id = trl.id /\ pc["trailer"] \in TrailingPcs /\ pc'["trailer"] \notin TrailingPcs
  <2>1. ASSUME NEW s \in Symbols, tracker'[s].sl = id
        PROVE  \/ Known(id) \/ id = NoExit
               \/ id = op.sl /\ pc["opener"] \in ExpectsFill /\ pc'["opener"] \notin ExpectsFill
               \/ id = trl.id /\ pc["trailer"] \in TrailingPcs /\ pc'["trailer"] \notin TrailingPcs
    BY <2>1, NoPosIsApart DEF EngineStep, EntryMoves, Known
  <2>2. ASSUME NEW c \in MonitorCopies \cup TrailerCopies, c.pos.sl = id
        PROVE  Known(id)
    BY <2>2 DEF Known
  <2>3. QED
    BY <1>2, <1>3, <1>4, <2>1, <2>2, CopiesComeFrom
\* What is known, or being placed, is older than what is made now.
<1>5. \A id : Known(id) => id.stamp <= clock
  BY DEF JInv, ExitsOfTheirLeg, Legs, Known
<1>6. /\ pc["opener"] \in ExpectsFill => op.sl.stamp <= clock
      /\ pc["trailer"] \in TrailingPcs => trl.id.stamp <= clock
  BY DEF JInv, ExitsOfTheirLeg, Legs
<1>7. \A id : MadeNow(id, "sl") => ~(id.stamp <= clock) /\ id # NoExit
  BY <1>1 DEF MadeNow
<1>8. \A id : MadeNow(id, "sl") => ~KnownNow(id)
  <2> HIDE DEF KnownNow
  <2>1. QED
    BY <1>4, <1>5, <1>6, <1>7
<1>9. /\ pc["opener"] \in ExpectsFill /\ op.sl # NoExit => ~Known(op.sl)
      /\ pc["trailer"] \in TrailingPcs =>
          ~Known(trl.id) /\ (pc["opener"] \in ExpectsFill => trl.id # op.sl)
  BY DEF JInv, StopTellsOpening
<1>10. pc'["opener"] \in ExpectsFill /\ op'.sl # NoExit => ~KnownNow(op'.sl)
  <2> HIDE DEF KnownNow
  <2>1. QED
    BY <1>4, <1>8, <1>9 DEF EngineStep, OpenerStill, OpenerMoves
<1>11. pc'["trailer"] \in TrailingPcs =>
          ~KnownNow(trl'.id) /\ (pc'["opener"] \in ExpectsFill => trl'.id # op'.sl)
  <2> HIDE DEF KnownNow
  <2>1. pc["trailer"] \in TrailingPcs => trl.id # NoExit
    BY <1>1 DEF IInv, ReplacementIsLater, ExitId, Stamp
  <2>2. CASE pc["trailer"] \in TrailingPcs /\ trl' = trl /\ pc'["trailer"] \in TrailingPcs
    <3>1. ~KnownNow(trl.id)
      BY <1>4, <1>9, <2>1, <2>2
    <3>2. pc'["opener"] \in ExpectsFill => trl.id # op'.sl
      BY <1>6, <1>7, <1>9, <2>1, <2>2 DEF EngineStep, OpenerStill, OpenerMoves
    <3>3. QED
      BY <2>2, <3>1, <3>2
  <2>3. CASE MadeNow(trl'.id, "sl") /\ OpenerStill
    BY <1>6, <1>7, <1>8, <2>3 DEF OpenerStill
  <2>4. QED
    BY <2>2, <2>3 DEF EngineStep, TrailerStill, TrailerMoves
<1>12. ASSUME NEW c \in (MonitorCopies \cup TrailerCopies)', c.pos.sl # NoExit,
              tracker'[c.sym].sl = c.pos.sl
       PROVE  SameOpening(tracker', c)
  <2>1. CASE c \in MonitorCopies \cup TrailerCopies
    <3>1. c.sym \in Symbols /\ Known(c.pos.sl)
      BY <2>1, SightTyped DEF Known
    <3>2. EntryMoves(c.sym)
      BY <3>1 DEF EngineStep
    <3>3. /\ tracker'[c.sym].openedAt = tracker[c.sym].openedAt
          /\ tracker'[c.sym].sl = tracker[c.sym].sl
      BY <1>9, <1>12, <3>1, <3>2, NoPosIsApart DEF EntryMoves
    <3>4. SameOpening(tracker, c)
      BY <1>12, <2>1, <3>3 DEF JInv, StopTellsOpening
    <3>5. QED
      BY <3>3, <3>4 DEF SameOpening
  <2>2. CASE c \in AllTracked(tracker')
    BY <1>2, <2>2 DEF SameOpening
  <2>3. QED
    BY <1>3, <1>12, <2>1, <2>2, CopiesComeFrom
<1>13. QED
  BY <1>10, <1>11, <1>12 DEF StopTellsOpening, Known, SameOpening

\* An answer that shows no position stays right while the engine works.
LEMMA PollsKept ==
    ASSUME IInv, JInv, IInv', EngineStep
    PROVE  PollsHold'
<1>1. (pc["opener"] = "emergencyPoll" /\ FlatAnswer("opener", op.sym) => live[op.sym] = 0)'
  BY DEF EngineStep, OpenerStill, OpenerMoves, FlatAnswer, Ok, JInv, PollsHold
<1>2. ASSUME MonitorStill, pc["monitor"] = "expirePoll", SameOpening(tracker', mon.cur)
      PROVE  SameOpening(tracker, mon.cur)
  <2>1. mon.cur \in MonitorCopies /\ mon.cur.pos.openedAt # 0
    BY <1>2 DEF MonitorCopies, JInv, ExpiredIsOver, StaysOver, ClosingPcs
  <2>2. QED
    BY <1>2, <2>1, SameAsBefore
<1>3. (pc["monitor"] = "expirePoll" /\ FlatAnswer("monitor", mon.cur.sym)
          /\ SameOpening(tracker, mon.cur) => live[mon.cur.sym] = 0)'
  BY <1>2 DEF EngineStep, MonitorStill, MonitorMoves, FlatAnswer, Ok, JInv, PollsHold,
              SameOpening
<1>4. QED
  BY <1>1, <1>3 DEF PollsHold

\* So a step of the engine keeps JInv.
LEMMA EngineKeepsJ ==
    ASSUME IInv, JInv, IInv', EngineStep
    PROVE  JInv'
<1>1. OpenerAsksOwn' /\ MonitorAsksOwn' /\ TrailerAsksOwn'
  BY DEF JInv, EngineStep, OpenerStill, OpenerMoves, MonitorStill, MonitorMoves, TrailerStill,
         TrailerMoves, OpenerAsksOwn, MonitorAsksOwn, TrailerAsksOwn
<1>2. QED
  BY <1>1, LegsKept, OverKept, NamesKept, PollsKept DEF JInv, EngineStep

\* With PlacedForAll: a replacement that was accepted rests, for all that is held,
\* until it fills and takes the position with it.
Replacing(pcs) == pc["trailer"] \in pcs /\ SameOpening(tracker, trl.cur)
Replacement == [id |-> trl.id, qty |-> trl.cur.pos.qty]
ReplacementRests ==
    /\ Replacing({"trailPlace", "trailCancel"}) => live[trl.cur.sym] <= trl.cur.pos.qty
    /\ Replacing({"trailPlace"}) /\ Ok("trailer") /\ live[trl.cur.sym] > 0
        => Replacement \in exits[trl.cur.sym]
    /\ Replacing({"trailCancel"}) /\ live[trl.cur.sym] > 0
        => Replacement \in exits[trl.cur.sym]

\* A step of the engine goes from one stage of a replacement to the next.
LEMMA EngineKeepsReplacement ==
    ASSUME IInv, JInv, IInv', EngineStep, ReplacementRests, PlacesForAll
    PROVE  ReplacementRests'
<1>1. CASE TrailerStill
  <2>1. ASSUME pc["trailer"] \in TrailingPcs, SameOpening(tracker', trl.cur)
        PROVE  SameOpening(tracker, trl.cur)
    <3>1. trl.cur \in TrailerCopies /\ trl.cur.pos.openedAt # 0
      BY <2>1 DEF TrailerCopies, JInv, ExpiredIsOver
    <3>2. QED
      BY <2>1, <3>1, SameAsBefore
  <2>2. Replacement' = Replacement
    BY <1>1 DEF TrailerStill, Replacement
  <2>3. QED
    BY <1>1, <2>1, <2>2 DEF EngineStep, TrailerStill, ReplacementRests, Replacing, TrailingPcs,
       SameOpening, Ok
<1>2. CASE TrailerMoves
  <2>1. CASE pc'["trailer"] \notin TrailingPcs
    BY <2>1 DEF ReplacementRests, Replacing, TrailingPcs
  <2>2. CASE pc'["trailer"] = "trailPlace" /\ trl'.cur \in trl.todo /\ TrailPlaces(trl'.cur)
    BY <1>2, <2>2 DEF TrailerMoves, ReplacementRests, Replacing, PlacesForAll, EngineStep, Ok
  <2>3. CASE /\ UNCHANGED <<trl, tracker>> /\ pc'["trailer"] # "trailPlace"
             /\ pc'["trailer"] = "trailCancel" => pc["trailer"] = "trailPlace" /\ Ok("trailer")
    <3>1. Replacement' = Replacement
      BY <2>3 DEF Replacement
    <3>2. QED
      BY <2>3, <3>1 DEF EngineStep, ReplacementRests, Replacing, SameOpening
  <2>4. QED
    BY <1>2, <2>1, <2>2, <2>3 DEF TrailerMoves
<1>3. QED
  BY <1>1, <1>2 DEF EngineStep

----------------------------------------------------------------------------
(* Polls and stops: what the venue does meanwhile.                         *)

\* An answer leaves the question, and the other coroutines' calls, as they were.
SameQuestion(q) ==
    /\ call'[q].op = call[q].op /\ call'[q].sym = call[q].sym
    /\ call'[q].id = call[q].id /\ call'[q].qty = call[q].qty
Answers(p) ==
    /\ \A q \in Procs : SameQuestion(q)
    /\ \A q \in Procs \ {p} : call'[q] = call[q]

\* Lots are only ever added by a market order, which has a reservation.
LotsShrink ==
    \A s \in Symbols :
        live'[s] <= live[s] \/ (tracker[s].inFlight /\ pc["opener"] = "market")

\* An exit order leaves the book when it is cancelled by its id.
Cancels(p, s, o) == call[p].op = "cancel" /\ call[p].sym = s /\ call[p].id = o.id
ExitsStay(p) == \A s \in Symbols : \A o \in exits[s] : o \in exits'[s] \/ Cancels(p, s, o)

\* What serving a request comes to.
Served(p) ==
    /\ Answers(p) /\ LotsShrink /\ ExitsStay(p) /\ call[p].st = "sent"
    /\ call[p].op = "snapshot" => live' = live /\ (Ok(p)' => call'[p].val = live)
    /\ call[p].op \in {"place", "cancel"} => live' = live
    /\ call[p].op = "place" /\ Ok(p)' =>
        [id |-> call[p].id, qty |-> call[p].qty] \in exits'[call[p].sym]

\* An answer touches the state and the value of one call.
LEMMA AnswerIs ==
    ASSUME IInv, NEW p \in Procs, NEW val,
           NEW st \in {"accepted", "failed"},
           call' = [call EXCEPT ![p].st = st, ![p].val = val]
             \/ call' = [call EXCEPT ![p].st = st]
    PROVE  Answers(p)
<1>1. call \in [Procs -> Call]
  BY DEF IInv, TypeOK, ExchangeTypeOK
<1>2. \A q \in Procs : SameQuestion(q)
  BY <1>1 DEF SameQuestion, Call
<1>3. \A q \in Procs \ {p} : call'[q] = call[q]
  BY <1>1
<1>4. QED
  BY <1>2, <1>3 DEF Answers

\* A served request has the effect its kind says and no other.
LEMMA ServeIs ==
    ASSUME IInv, JInv, NEW p \in Procs, Serve(p)
    PROVE  Served(p)
<1>1. /\ call \in [Procs -> Call] /\ call[p] \in Call
      /\ call[p].sym \in Symbols /\ call[p].qty \in Nat
      /\ live \in [Symbols -> Nat] /\ exits \in [Symbols -> SUBSET Order]
  BY StateTyped DEF IInv, TypeOK, ExchangeTypeOK, Call
<1>2. ASSUME NEW val, AnswerWith(p, val)
      PROVE  Answers(p)
  BY <1>2, AnswerIs DEF AnswerWith
<1>3. ASSUME live' = live
      PROVE  LotsShrink
  BY <1>1, <1>3 DEF LotsShrink
<1>4. ASSUME exits' = exits
      PROVE  ExitsStay(p)
  BY <1>4 DEF ExitsStay
<1>5. CASE ServeLeverage(p)
  BY <1>2, <1>3, <1>4, <1>5 DEF ServeLeverage, Pending, Answer, Served
<1>6. CASE ServeSnapshot(p)
  <2>1. call' = [call EXCEPT ![p].st = "accepted", ![p].val = live]
    BY <1>6 DEF ServeSnapshot
  <2>2. Answers(p) /\ call'[p].val = live
    BY <1>1, <2>1, AnswerIs DEF Call
  <2>3. QED
    BY <1>3, <1>4, <1>6, <2>2 DEF ServeSnapshot, Pending, Served
<1>7. CASE ServeMarket(p)
  <2>1. PICK q \in 1 .. call[p].qty :
           /\ live' = [live EXCEPT ![call[p].sym] = @ + q]
           /\ \/ AnswerWith(p, [NoVal EXCEPT ![call[p].sym] = q])
              \/ AckOnly /\ AnswerWith(p, NoVal)
    BY <1>7 DEF ServeMarket
  <2>2. call[p].op = "market" /\ call[p].st = "sent"
    BY <1>7 DEF ServeMarket, Pending
  <2>3. p = "opener" /\ pc["opener"] = "market" /\ call[p].sym = op.sym
    BY <2>2, Constants DEF JInv, OpenerAsksOwn, MonitorAsksOwn, TrailerAsksOwn
  <2>4. tracker[op.sym].inFlight
    BY <2>3, StateTyped DEF IInv, ReservationOwned, OpeningPcs
  <2>5. LotsShrink
    BY <1>1, <2>1, <2>3, <2>4 DEF LotsShrink
  <2>6. exits' = exits
    BY <1>7 DEF ServeMarket
  <2>7. Answers(p)
    BY <1>2, <2>1
  <2>8. QED
    BY <1>4, <2>2, <2>5, <2>6, <2>7 DEF Served
<1>8. CASE ServeClose(p)
  <2>1. LotsShrink
    BY <1>1, <1>8 DEF ServeClose, LotsShrink
  <2>2. QED
    BY <1>2, <1>4, <1>8, <2>1 DEF ServeClose, Pending, Answer, Served
<1>9. CASE ServePlace(p)
  <2> DEFINE new == [id |-> call[p].id, qty |-> call[p].qty]
  <2>1. exits' = [exits EXCEPT ![call[p].sym] = @ \cup {new}]
    BY <1>9 DEF ServePlace
  <2>2. ExitsStay(p) /\ new \in exits'[call[p].sym]
    BY <1>1, <2>1 DEF ExitsStay
  <2>3. QED
    BY <1>2, <1>3, <1>9, <2>2 DEF ServePlace, Pending, Answer, Served
<1>10. CASE ServeCancel(p)
  <2>1. ExitsStay(p)
    BY <1>1, <1>10 DEF ServeCancel, Pending, ExitsStay, Cancels
  <2>2. QED
    BY <1>2, <1>3, <1>10, <2>1 DEF ServeCancel, Pending, Answer, Served
<1>11. CASE Refuse(p) \/ Lose(p)
  <2>1. call' = [call EXCEPT ![p].st = "failed"] /\ call[p].st = "sent"
        /\ live' = live /\ exits' = exits
    BY <1>11 DEF Refuse, Lose, Fail, Pending
  <2>2. Answers(p)
    BY <2>1, AnswerIs
  <2>3. ~Ok(p)'
    BY <1>1, <2>1 DEF Ok, Call
  <2>4. QED
    BY <1>3, <1>4, <2>1, <2>2, <2>3 DEF Served
<1>12. QED
  BY <1>5, <1>6, <1>7, <1>8, <1>9, <1>10, <1>11 DEF Serve

\* The market takes lots away; the stop it fills takes what it covers.
Filled ==
    /\ call' = call
    /\ \A s \in Symbols : live'[s] <= live[s]
    /\ \A s \in Symbols : \A o \in exits[s] :
        \/ o \in exits'[s]
        \/ live'[s] < live[s] /\ (o.id.leg = "sl" /\ live[s] <= o.qty => live'[s] = 0)

\* Whatever the market does, it only takes lots away.
LEMMA MarketIs ==
    ASSUME IInv, Market
    PROVE  Filled
<1>1. live \in [Symbols -> Nat] /\ exits \in [Symbols -> SUBSET Order]
  BY DEF IInv, TypeOK, ExchangeTypeOK
<1>2. ASSUME NEW s \in Symbols, FillExit(s)
      PROVE  Filled
  <2>0. PICK o \in exits[s] : \E q \in 1 .. o.qty :
          /\ q <= live[s]
          /\ o.id.leg = "sl" => (q = o.qty \/ q = live[s])
          /\ live' = [live EXCEPT ![s] = @ - q]
          /\ exits' = [exits EXCEPT ![s] =
                (@ \ {o}) \cup (IF q < o.qty /\ o.id.leg = "tp"
                                THEN {[o EXCEPT !.qty = @ - q]} ELSE {})]
    BY <1>2 DEF FillExit
  <2>1. PICK q \in 1 .. o.qty :
          /\ q <= live[s]
          /\ o.id.leg = "sl" => (q = o.qty \/ q = live[s])
          /\ live' = [live EXCEPT ![s] = @ - q]
          /\ exits' = [exits EXCEPT ![s] =
                (@ \ {o}) \cup (IF q < o.qty /\ o.id.leg = "tp"
                                THEN {[o EXCEPT !.qty = @ - q]} ELSE {})]
    BY <2>0
  <2>2. o.qty \in Nat /\ q \in Nat /\ q > 0 /\ live[s] \in Nat
    BY <1>1 DEF Order
  <2>3. /\ \A r \in Symbols \ {s} : live'[r] = live[r] /\ exits'[r] = exits[r]
        /\ live'[s] = live[s] - q /\ \A x \in exits[s] : x = o \/ x \in exits'[s]
    BY <1>1, <2>1
  <2>4. \A r \in Symbols : live'[r] <= live[r]
    BY <1>1, <2>2, <2>3
  <2>5. live'[s] < live[s] /\ (o.id.leg = "sl" /\ live[s] <= o.qty => live'[s] = 0)
    BY <2>1, <2>2, <2>3
  <2>6. call' = call
    BY <1>2 DEF FillExit
  <2>7. QED
    BY <2>3, <2>4, <2>5, <2>6 DEF Filled
<1>3. ASSUME NEW s \in Symbols, CloseByHand(s)
      PROVE  Filled
  <2>1. exits' = exits /\ call' = call /\ live' = [live EXCEPT ![s] = 0]
    BY <1>3 DEF CloseByHand
  <2>2. QED
    BY <1>1, <2>1 DEF Filled
<1>4. CASE DropEvents
  BY <1>1, <1>4 DEF DropEvents, Filled
<1>5. QED
  BY <1>2, <1>3, <1>4 DEF Market

\* What is asked stands while it is answered, and a snapshot shows what is held.
QuestionsStand ==
    /\ LotsShrink
    /\ \A q \in Procs : SameQuestion(q)
    /\ \A q \in Procs :
        \/ call'[q] = call[q]
        \/ call[q].op = "snapshot" => live' = live /\ (Ok(q)' => call'[q].val = live)

ExchangeStep == UNCHANGED engineVars /\ (Market \/ \E p \in Procs : Serve(p))

\* Copies, ids and requests are the coroutines' business.
LEMMA ExchangeKeepsJ ==
    ASSUME IInv, JInv, IInv', ExchangeStep
    PROVE  JInv'
<1>1. /\ UNCHANGED <<tracker, clock, pc, op, mon, trl>>
      /\ MonitorCopies' = MonitorCopies /\ TrailerCopies' = TrailerCopies
  BY DEF ExchangeStep, engineVars, localVars, MonitorCopies, TrailerCopies
<1>2. BootsAlone' /\ ExitsOfTheirLeg' /\ ExpiredIsOver' /\ StopTellsOpening'
  BY <1>1 DEF JInv, BootsAlone, ExitsOfTheirLeg, Legs, ExpiredIsOver, StaysOver, SameOpening,
              StopTellsOpening, Known
<1>3. QuestionsStand
  <2>1. CASE Market
    BY <2>1, MarketIs DEF Filled, SameQuestion, LotsShrink, QuestionsStand
  <2>2. ASSUME NEW p \in Procs, Serve(p)
        PROVE  QuestionsStand
    BY <2>2, ServeIs DEF Served, Answers, QuestionsStand
  <2>3. QED
    BY <2>1, <2>2 DEF ExchangeStep
<1>4. OpenerAsksOwn' /\ MonitorAsksOwn' /\ TrailerAsksOwn'
  <2>1. SameQuestion("opener") /\ SameQuestion("monitor") /\ SameQuestion("trailer")
    BY <1>3, Constants DEF QuestionsStand
  <2>2. QED
    BY <1>1, <2>1 DEF JInv, OpenerAsksOwn, MonitorAsksOwn, TrailerAsksOwn, SameQuestion
<1>5. live \in [Symbols -> Nat] /\ live' \in [Symbols -> Nat]
  BY DEF IInv, TypeOK, ExchangeTypeOK
<1>6. ASSUME NEW q \in Procs, NEW s \in Symbols, call[q].op = "snapshot", FlatAnswer(q, s)',
             FlatAnswer(q, s) => live[s] = 0,
             ~(tracker[s].inFlight /\ pc["opener"] = "market")
      PROVE  live'[s] = 0
  <2>1. CASE call'[q] = call[q]
    <3>1. live[s] = 0 /\ live'[s] <= live[s]
      BY <1>3, <1>6, <2>1 DEF FlatAnswer, Ok, QuestionsStand, LotsShrink
    <3>2. QED
      BY <1>5, <3>1
  <2>2. CASE call'[q] # call[q]
    <3>1. live' = live /\ (Ok(q)' => call'[q].val = live)
      BY <1>3, <1>6, <2>2 DEF QuestionsStand
    <3>2. QED
      BY <1>6, <3>1 DEF FlatAnswer
  <2>3. QED
    BY <2>1, <2>2
<1>7. op.sym \in Symbols /\ mon.cur.sym \in Symbols
  BY StateTyped, CopyFields
<1>8. pc["opener"] = "emergencyPoll" /\ FlatAnswer("opener", op.sym)' => live'[op.sym] = 0
  <2>1. pc["opener"] = "emergencyPoll" => call["opener"].op = "snapshot"
    BY DEF JInv, OpenerAsksOwn
  <2>2. pc["opener"] = "emergencyPoll" /\ FlatAnswer("opener", op.sym) => live[op.sym] = 0
    BY DEF JInv, PollsHold
  <2>3. QED
    BY <1>1, <1>6, <1>7, <2>1, <2>2, Constants DEF FlatAnswer, Ok
<1>9. pc["monitor"] = "expirePoll" /\ FlatAnswer("monitor", mon.cur.sym)'
          /\ SameOpening(tracker, mon.cur) => live'[mon.cur.sym] = 0
  <2>1. pc["monitor"] = "expirePoll" => call["monitor"].op = "snapshot"
    BY DEF JInv, MonitorAsksOwn
  <2>2. SameOpening(tracker, mon.cur) => ~tracker[mon.cur.sym].inFlight
    BY <1>7 DEF IInv, ReservationIsApart, MonitorCopies
  <2>3. pc["monitor"] = "expirePoll" /\ FlatAnswer("monitor", mon.cur.sym)
          /\ SameOpening(tracker, mon.cur) => live[mon.cur.sym] = 0
    BY DEF JInv, PollsHold
  <2>4. QED
    BY <1>1, <1>6, <1>7, <2>1, <2>2, <2>3, Constants DEF FlatAnswer, Ok
<1>10. PollsHold'
  BY <1>1, <1>8, <1>9 DEF PollsHold, FlatAnswer, Ok, SameOpening
<1>11. QED
  BY <1>2, <1>4, <1>10 DEF JInv

\* Nobody but the market takes a replacement that rests, and then the position with it.
LEMMA ExchangeKeepsReplacement ==
    ASSUME IInv, JInv, IInv', ReplacementRests, ExchangeStep
    PROVE  ReplacementRests'
<1> DEFINE s == trl.cur.sym
<1>1. /\ UNCHANGED <<tracker, pc, mon, trl>> /\ Replacement' = Replacement
  BY DEF ExchangeStep, engineVars, localVars, Replacement
<1>2. s \in Symbols /\ trl.cur \in TrailerCopies /\ trl.cur.pos.qty \in Nat
  BY StateTyped, CopyFields DEF TrailerCopies
<1>3. live \in [Symbols -> Nat] /\ live' \in [Symbols -> Nat]
  BY DEF IInv, TypeOK, ExchangeTypeOK
<1> SUFFICES ASSUME pc["trailer"] \in {"trailPlace", "trailCancel"},
                    SameOpening(tracker, trl.cur)
             PROVE  /\ live'[s] <= trl.cur.pos.qty
                    /\ pc["trailer"] = "trailPlace" /\ Ok("trailer")' /\ live'[s] > 0
                        => Replacement \in exits'[s]
                    /\ pc["trailer"] = "trailCancel" /\ live'[s] > 0
                        => Replacement \in exits'[s]
  BY <1>1 DEF ReplacementRests, Replacing, SameOpening
<1>4. pc["trailer"] \in TrailingPcs /\ ~tracker[s].inFlight
  BY <1>2 DEF TrailingPcs, IInv, ReservationIsApart
<1>5. live[s] <= trl.cur.pos.qty /\ live'[s] <= live[s]
  <2>1. LotsShrink
    BY MarketIs, ServeIs DEF ExchangeStep, Filled, Served, LotsShrink
  <2>2. QED
    BY <1>2, <1>4, <2>1 DEF ReplacementRests, Replacing, LotsShrink
<1>6. live'[s] <= trl.cur.pos.qty /\ (live'[s] > 0 => live[s] > 0)
  BY <1>2, <1>3, <1>5
<1>7. /\ pc["trailer"] = "trailPlace" /\ Ok("trailer") /\ live'[s] > 0
          => Replacement \in exits[s]
      /\ pc["trailer"] = "trailCancel" /\ live'[s] > 0 => Replacement \in exits[s]
  BY <1>6 DEF ReplacementRests, Replacing
<1>8. Replacement.id = trl.id /\ trl.id.leg = "sl" /\ ~Known(trl.id)
      /\ Replacement.qty = trl.cur.pos.qty
  BY <1>4 DEF Replacement, JInv, ExitsOfTheirLeg, Legs, StopTellsOpening, IInv,
     ReplacementIsLater, ExitId
\* A replacement that rests goes on resting.
<1>9. ASSUME Replacement \in exits[s], live'[s] > 0
      PROVE  Replacement \in exits'[s]
  <2>1. CASE Market
    <3>1. \/ Replacement \in exits'[s]
          \/ Replacement.id.leg = "sl" /\ live[s] <= Replacement.qty => live'[s] = 0
      BY <1>2, <1>9, <2>1, MarketIs DEF Filled
    <3>2. QED
      BY <1>3, <1>2, <1>5, <1>8, <1>9, <3>1
  <2>2. ASSUME NEW p \in Procs, Serve(p)
        PROVE  Replacement \in exits'[s]
    <3>1. ~Cancels(p, s, Replacement)
      <4>1. CASE p = "opener"
        BY <1>8, <4>1 DEF Cancels, JInv, OpenerAsksOwn
      <4>2. CASE p = "monitor"
        BY <1>8, <4>2 DEF Cancels, JInv, MonitorAsksOwn, Known, MonitorCopies
      <4>3. CASE p = "trailer"
        BY <1>2, <1>8, <4>3 DEF Cancels, JInv, TrailerAsksOwn, Known
      <4>4. QED
        BY <4>1, <4>2, <4>3, Constants
    <3>2. QED
      BY <1>2, <1>9, <2>2, <3>1, ServeIs DEF Served, ExitsStay
  <2>3. QED
    BY <2>1, <2>2 DEF ExchangeStep
\* One that is accepted in this step rests from this step on.
<1>10. ASSUME pc["trailer"] = "trailPlace", Ok("trailer")', ~Ok("trailer")
       PROVE  Replacement \in exits'[s]
  <2>1. PICK p \in Procs : Serve(p)
    BY <1>10, MarketIs DEF ExchangeStep, Filled, Ok
  <2>2. p = "trailer"
    BY <1>10, <2>1, ServeIs, Constants DEF Served, Answers, Ok
  <2>3. QED
    BY <1>10, <2>1, <2>2, ServeIs DEF Served, JInv, TrailerAsksOwn, Replacement
<1>11. QED
  BY <1>6, <1>7, <1>9, <1>10

----------------------------------------------------------------------------
(* Polls and stops: every step of the engine is an EngineStep.             *)

\* Of most methods of the tracker: an entry keeps its stamp and its exits, or goes.
EntriesStay(t, u) ==
    \A s \in Symbols :
        \/ /\ u[s].openedAt = t[s].openedAt /\ u[s].tp = t[s].tp /\ u[s].sl = t[s].sl
           /\ t[s].aged => u[s].aged
        \/ u[s] = NoPos

\* Removing, shrinking, refreshing and ageing entries hangs no exit on any.
LEMMA MethodsLeaveExits ==
    ASSUME NEW t \in TrackerMap, NEW s \in Symbols, NEW qty \in Nat, NEW id,
           NEW c, c.sym \in Symbols, NEW copies
    PROVE  /\ EntriesStay(t, t) /\ EntriesStay(t, Remove(t, s))
           /\ EntriesStay(t, RemoveIfOpenedAt(t, c))
           /\ EntriesStay(t, RemoveAllIfOpenedAt(t, copies))
           /\ EntriesStay(t, RemoveByExitOrderClientId(t, id))
           /\ EntriesStay(t, ApplyExitFillByClientId(t, id, qty))
           /\ EntriesStay(t, RefreshFromSnapshot(t, s, qty))
           /\ EntriesStay(t, [t EXCEPT ![s].aged = TRUE])
<1>1. EntriesStay(t, t)
  BY DEF EntriesStay
<1>2. \A r \in Symbols : EntriesStay(t, Remove(t, r))
  BY RemoveIsTyped DEF EntriesStay
<1>3. EntriesStay(t, RemoveIfOpenedAt(t, c))
  BY <1>1, <1>2 DEF RemoveIfOpenedAt
<1>4. EntriesStay(t, RemoveAllIfOpenedAt(t, copies))
  BY DEF EntriesStay, RemoveAllIfOpenedAt
<1>5. EntriesStay(t, RemoveByExitOrderClientId(t, id))
  BY DEF EntriesStay, RemoveByExitOrderClientId
<1>6. \A r \in Symbols : t[r] # NoPos => t[r] \in TrackedPosition
  BY DEF TrackerMap
<1>7. EntriesStay(t, ApplyExitFillByClientId(t, id, qty))
  <2>1. ASSUME NEW r \in Symbols, OwnsExit(t[r], id)
        PROVE  t[r] \in TrackedPosition
    BY <1>6, <2>1, NoPosIsApart DEF OwnsExit
  <2>2. \A e \in TrackedPosition : \A q :
            /\ [e EXCEPT !.qty = q].openedAt = e.openedAt /\ [e EXCEPT !.qty = q].tp = e.tp
            /\ [e EXCEPT !.qty = q].sl = e.sl /\ [e EXCEPT !.qty = q].aged = e.aged
    BY DEF TrackedPosition
  <2>3. QED
    BY <2>1, <2>2 DEF EntriesStay, ApplyExitFillByClientId
<1>8. EntriesStay(t, RefreshFromSnapshot(t, s, qty))
  <2> DEFINE e == [t[s] EXCEPT !.qty = qty]
  <2>1. Has(t, s) => e.openedAt = t[s].openedAt /\ e.tp = t[s].tp /\ e.sl = t[s].sl
                       /\ e.aged = t[s].aged
    BY <1>6 DEF Has, TrackedPosition
  <2>2. [t EXCEPT ![s].qty = qty] = [t EXCEPT ![s] = e]
    BY DEF TrackerMap
  <2> HIDE DEF e
  <2>3. QED
    BY <2>1, <2>2 DEF EntriesStay, RefreshFromSnapshot, Committed, TrackerMap
<1>9. EntriesStay(t, [t EXCEPT ![s].aged = TRUE])
  <2> DEFINE e == [t[s] EXCEPT !.aged = TRUE]
  <2>1. e.openedAt = t[s].openedAt /\ e.tp = t[s].tp /\ e.sl = t[s].sl /\ e.aged
    BY DEF TrackerMap, TrackedPosition, NoPos
  <2>2. [t EXCEPT ![s].aged = TRUE] = [t EXCEPT ![s] = e]
    BY DEF TrackerMap
  <2> HIDE DEF e
  <2>3. QED
    BY <2>1, <2>2 DEF EntriesStay, TrackerMap
<1>10. QED
  BY <1>1, <1>2, <1>3, <1>4, <1>5, <1>7, <1>8, <1>9

\* An entry that stays, or goes, moves as entries may.
LEMMA StayingMoves ==
    ASSUME EntriesStay(tracker, tracker')
    PROVE  \A s \in Symbols : EntryMoves(s)
  BY DEF EntriesStay, EntryMoves

\* The replacement is recorded, and the trailer turns to the next copy.
EntryRecords(s) ==
    /\ tracker'[s].openedAt = tracker[s].openedAt /\ tracker'[s].tp = tracker[s].tp
    /\ tracker[s].aged => tracker'[s].aged
    /\ tracker'[s].sl = trl.id

\* What is asked for is what the request says, and is not answered yet.
LEMMA RequestIs ==
    /\ NoCall.op = "none" /\ NoCall.st # "accepted"
    /\ \A o, s, id, q :
        /\ Request(o, s, id, q).op = o /\ Request(o, s, id, q).sym = s
        /\ Request(o, s, id, q).id = id /\ Request(o, s, id, q).qty = q
        /\ Request(o, s, id, q).st # "accepted"
  BY DEF Request, NoCall

\* Waiting is one coroutine's business.
LEMMA AwaitIs ==
    ASSUME IInv, NEW p \in Procs, NEW at, NEW r, Await(p, at, r)
    PROVE  /\ pc'[p] = at /\ call'[p] = r
           /\ \A q \in Procs \ {p} : pc'[q] = pc[q] /\ call'[q] = call[q]
  BY DEF IInv, TypeOK, ExchangeTypeOK, Await

\* A step of the monitor.
LEMMA MonitorStepIs ==
    ASSUME IInv, JInv, UNCHANGED monitorRest, pc["monitor"] # "off", clock' \in {clock, now},
           \A s \in Symbols : EntryMoves(s),
           NEW at, NEW r, Await("monitor", at, r), r.st # "accepted", r.op # "market",
           at = "expirePoll" => r.op = "snapshot",
           r.op = "cancel" => /\ at \in ClosingPcs /\ r.sym = mon'.cur.sym
                              /\ r.id.leg = "sl" => r.id = mon'.cur.pos.sl,
           mon'.expired \subseteq mon.expired \cup ExpiredTracked(tracker'),
           mon'.cur \in mon.expired \cup {mon.cur, NoCopy},
           at \in ClosingPcs =>
               mon'.cur \in mon.expired \/ (mon'.cur = mon.cur /\ pc["monitor"] \in ClosingPcs)
    PROVE  EngineStep
<1>1. /\ pc'["monitor"] = at /\ call'["monitor"] = r
      /\ pc'["opener"] = pc["opener"] /\ call'["opener"] = call["opener"]
      /\ pc'["trailer"] = pc["trailer"] /\ call'["trailer"] = call["trailer"]
  BY AwaitIs, Constants
<1>2. UNCHANGED <<op, trl, live, exits>>
  BY DEF monitorRest, venueVars
<1>3. OpenerStill /\ TrailerStill
  BY <1>1, <1>2 DEF OpenerStill, TrailerStill
<1>4. MonitorMoves
  BY <1>1 DEF MonitorMoves, MonitorAsksOwn, Ok
<1>5. BootsAlone'
  BY <1>1 DEF JInv, BootsAlone
<1>6. QED
  BY <1>2, <1>3, <1>4, <1>5 DEF EngineStep

\* A step of the trailer.
LEMMA TrailerStepIs ==
    ASSUME IInv, JInv, UNCHANGED trailerRest, pc["trailer"] # "off", clock' \in {clock, now},
           \A s \in Symbols : EntryMoves(s), NEW at, NEW r, Await("trailer", at, r), TrailerMoves
    PROVE  EngineStep
<1>1. /\ pc'["trailer"] = at
      /\ pc'["opener"] = pc["opener"] /\ call'["opener"] = call["opener"]
      /\ pc'["monitor"] = pc["monitor"] /\ call'["monitor"] = call["monitor"]
  BY AwaitIs, Constants
<1>2. UNCHANGED <<op, mon, live, exits>>
  BY DEF trailerRest, venueVars
<1>3. OpenerStill /\ MonitorStill
  BY <1>1, <1>2 DEF OpenerStill, MonitorStill
<1>4. BootsAlone'
  BY <1>1 DEF JInv, BootsAlone
<1>5. QED
  BY <1>2, <1>3, <1>4 DEF EngineStep

\* A step of the opener.
LEMMA OpenerStepIs ==
    ASSUME IInv, JInv, UNCHANGED <<mon, trl, live, exits>>, clock' \in {clock, now},
           \A s \in Symbols : EntryMoves(s),
           NEW at, NEW r, Await("opener", at, r), r.st # "accepted",
           at = "boot" => pc["opener"] = "boot",
           at = "bootSnapshot" => pc["opener"] \in {"boot", "bootSnapshot"},
           at = "emergencyPoll" => r.op = "snapshot",
           r.op = "market" => at = "market" /\ r.sym = op'.sym,
           r.op = "cancel" => r.id.leg # "sl",
           \/ at \notin ExpectsFill
           \/ op'.tp = NoExit /\ op'.sl = NoExit
           \/ /\ pc["opener"] \in ExpectsFill
              /\ op'.tp = op.tp \/ MadeNow(op'.tp, "tp")
              /\ op'.sl = op.sl \/ MadeNow(op'.sl, "sl")
    PROVE  EngineStep
<1>1. /\ pc'["opener"] = at /\ call'["opener"] = r
      /\ pc'["trailer"] = pc["trailer"] /\ call'["trailer"] = call["trailer"]
      /\ pc'["monitor"] = pc["monitor"] /\ call'["monitor"] = call["monitor"]
  BY AwaitIs, Constants
<1>2. MonitorStill /\ TrailerStill
  BY <1>1 DEF MonitorStill, TrailerStill
<1>3. OpenerMoves
  BY <1>1 DEF OpenerMoves, OpenerAsksOwn, Ok
<1>4. BootsAlone'
  BY <1>1 DEF JInv, BootsAlone
<1>5. QED
  BY <1>2, <1>3, <1>4 DEF EngineStep

----------------------------------------------------------------------------
(* Polls and stops: the monitor.                                           *)

\* Going on with what has expired.
LEMMA ExpireFromIs ==
    ASSUME IInv, JInv, UNCHANGED <<clock, monitorRest>>, pc["monitor"] # "off",
           EntriesStay(tracker, tracker'),
           NEW expired, expired \subseteq mon.expired \cup ExpiredTracked(tracker'),
           ExpireFrom(expired)
    PROVE  EngineStep
<1>1. mon'.expired = expired /\ mon'.cur = NoCopy
  BY DEF ExpireFrom, NoMon
<1>2. PICK at \in {"sleep", "expire"} : Await("monitor", at, NoCall)
  BY DEF ExpireFrom, Goto
<1>3. at \notin ClosingPcs
  BY DEF ClosingPcs
<1>4. UNCHANGED monitorRest /\ clock' \in {clock, now}
  OBVIOUS
<1>5. QED
  BY <1>1, <1>2, <1>3, <1>4, RequestIs, StayingMoves, MonitorStepIs

\* Going on with the reconciliation.
LEMMA ReconcileFromIs ==
    ASSUME IInv, JInv, UNCHANGED <<monitorRest>>, clock' \in {clock, now},
           pc["monitor"] # "off", \A s \in Symbols : EntryMoves(s),
           NEW snap, NEW todo, ReconcileFrom(snap, todo)
    PROVE  EngineStep
<1>1. /\ mon'.expired \subseteq ExpiredTracked(tracker') /\ mon'.cur = NoCopy
      /\ \E at \in {"sleep", "expire", "reconcile"} : Await("monitor", at, NoCall)
  BY DEF ReconcileFrom, ExpireFrom, NoMon, Goto
<1>2. PICK at \in {"sleep", "expire", "reconcile"} : Await("monitor", at, NoCall)
  BY <1>1
<1>3. at \notin ClosingPcs
  BY DEF ClosingPcs
<1>4. QED
  BY <1>1, <1>2, <1>3, RequestIs, MonitorStepIs

\* Asking for something while a copy is being closed.
LEMMA ClosingAsks ==
    ASSUME IInv, JInv, UNCHANGED <<tracker, mon, clock, monitorRest>>,
           pc["monitor"] \in ClosingPcs,
           NEW at \in ClosingPcs \ {"expirePoll"}, NEW o \in Ops \ {"market"}, NEW q,
           NEW id, Await("monitor", at, Request(o, mon.cur.sym, id, q)),
           o = "cancel" => (id.leg = "sl" => id = mon.cur.pos.sl)
    PROVE  EngineStep
<1>1. pc["monitor"] # "off"
  BY DEF ClosingPcs
<1>2. \A s \in Symbols : EntryMoves(s)
  BY DEF EntryMoves
<1>3. clock' \in {clock, now} /\ UNCHANGED monitorRest
  OBVIOUS
<1>4. QED
  BY <1>1, <1>2, <1>3, RequestIs, MonitorStepIs

\* Forgetting what has expired is a step of the engine.
LEMMA ForgetIs ==
    ASSUME IInv, JInv, UNCHANGED <<clock, monitorRest>>, pc["monitor"] # "off", Forget(mon.cur)
    PROVE  EngineStep
<1>1. EntriesStay(tracker, tracker')
  BY StateTyped, CopyFields, MethodsLeaveExits, 0 \in Nat DEF Forget
<1>2. QED
  BY <1>1, ExpireFromIs DEF Forget

\* So is cancelling its stop, known from the copy, or forgetting it when it has none.
LEMMA CancelStopIs ==
    ASSUME IInv, JInv, UNCHANGED <<clock, monitorRest>>, pc["monitor"] \in ClosingPcs,
           CancelStopAndForget(mon.cur)
    PROVE  EngineStep
<1>1. pc["monitor"] # "off" /\ "expireCancelSl" \in ClosingPcs \ {"expirePoll"}
      /\ "cancel" \in Ops \ {"market"}
  BY DEF ClosingPcs, Ops
<1>2. QED
  BY <1>1, ClosingAsks, ForgetIs DEF CancelStopAndForget, CancelExit

\* The take-profit of a copy is not one of its stops.
LEMMA CancelExitsIs ==
    ASSUME IInv, JInv, UNCHANGED <<clock, monitorRest>>, pc["monitor"] \in ClosingPcs,
           CancelExitsAndForget(mon.cur)
    PROVE  EngineStep
<1>1. "expireCancelTp" \in ClosingPcs \ {"expirePoll"} /\ "cancel" \in Ops \ {"market"}
  BY DEF ClosingPcs, Ops
<1>2. mon.cur.pos.tp.leg # "sl"
  BY DEF JInv, ExitsOfTheirLeg, Legs, MonitorCopies
<1>3. QED
  BY <1>1, <1>2, ClosingAsks, CancelStopIs DEF CancelExitsAndForget, CancelExit

\* Whatever the monitor does is a step of the engine.
LEMMA MonitorIs ==
    ASSUME IInv, JInv, MonitorStep
    PROVE  EngineStep
<1>0. /\ tracker \in TrackerMap /\ now \in Stamp /\ now \in Nat
      /\ \A t : t = tracker => EntriesStay(tracker, t)
  BY StateTyped, NowTyped, MethodsLeaveExits DEF IInv, EntriesStay
<1>1. CASE MonitorWakes
  <2>1. Await("monitor", "snapshot", AccountSnapshot) /\ UNCHANGED <<tracker, mon>>
        /\ "snapshot" \notin ClosingPcs /\ pc["monitor"] # "off"
        /\ UNCHANGED <<monitorRest, clock>>
    BY <1>1 DEF MonitorWakes, ClosingPcs
  <2>2. QED
    BY <1>0, <2>1, RequestIs, StayingMoves, MonitorStepIs DEF AccountSnapshot
<1>2. CASE MonitorSnapshot
  <2>1. pc["monitor"] # "off" /\ UNCHANGED <<clock, monitorRest>>
    BY <1>2 DEF MonitorSnapshot, Resumes
  <2>2. CASE Ok("monitor")
    <3>1. PICK copies, snap, todo :
            tracker' = RemoveAllIfOpenedAt(tracker, copies) /\ ReconcileFrom(snap, todo)
      BY <1>2, <2>2 DEF MonitorSnapshot
    <3>2. EntriesStay(tracker, tracker')
      BY <1>0, <3>1, MethodsLeaveExits, NoCopyTyped, CopyFields
    <3>3. QED
      BY <2>1, <3>1, <3>2, StayingMoves, ReconcileFromIs
  <2>3. CASE ~Ok("monitor")
    <3>1. /\ Await("monitor", "sleep", NoCall) /\ UNCHANGED <<tracker, mon>>
          /\ "sleep" \notin ClosingPcs
      BY <1>2, <2>3 DEF MonitorSnapshot, Goto, ClosingPcs
    <3>2. QED
      BY <1>0, <2>1, <3>1, RequestIs, StayingMoves, MonitorStepIs
  <2>4. QED
    BY <2>2, <2>3
<1>3. ASSUME NEW s \in mon.todo, ReconcileSymbol(s)
      PROVE  EngineStep
  <2>1. s \in Symbols /\ mon.snap[s] \in Nat /\ pc["monitor"] # "off" /\ UNCHANGED monitorRest
    BY <1>3, StateTyped DEF ReconcileSymbol
  <2>2. CASE Has(tracker, s)
    <3>1. /\ EntriesStay(tracker, tracker') /\ clock' = clock
          /\ ReconcileFrom(mon.snap, mon.todo \ {s})
      BY <1>0, <1>3, <2>1, <2>2, MethodsLeaveExits, NoCopyTyped, CopyFields DEF ReconcileSymbol
    <3>2. QED
      BY <2>1, <3>1, StayingMoves, ReconcileFromIs
  <2>3. CASE ~Has(tracker, s) /\ placeStopLoss
    <3>1. /\ mon' = [mon EXCEPT !.todo = mon.todo \ {s}]
          /\ Await("monitor", "forcedClose", CloseByMarket(s, mon.snap[s]))
          /\ UNCHANGED <<tracker, clock>> /\ "forcedClose" \notin ClosingPcs
      BY <1>3, <2>3 DEF ReconcileSymbol, ClosingPcs
    <3>2. mon'.expired = mon.expired /\ mon'.cur = mon.cur
      BY <3>1, StateTyped DEF MonitorLocals
    <3>3. QED
      BY <1>0, <2>1, <3>1, <3>2, RequestIs, StayingMoves, MonitorStepIs DEF CloseByMarket
  <2>4. CASE ~Has(tracker, s) /\ ~placeStopLoss
    <3>1. /\ tracker' = AddRecovered(tracker, s, now, mon.snap[s]) /\ clock' = now
          /\ ReconcileFrom(mon.snap, mon.todo \ {s})
      BY <1>3, <2>4 DEF ReconcileSymbol, ClockTicks
    <3>2. ASSUME NEW r \in Symbols
          PROVE  EntryMoves(r)
      BY <1>0, <2>1, <2>4, <3>1 DEF AddRecovered, RecoveredAt, NoPos, EntryMoves, TrackerMap
    <3>3. QED
      BY <2>1, <3>1, <3>2, ReconcileFromIs
  <2>5. QED
    BY <2>2, <2>3, <2>4
<1>4. CASE ForcedCloseReturns
  BY <1>0, <1>4, StayingMoves, ReconcileFromIs DEF ForcedCloseReturns, Resumes
<1>5. ASSUME NEW c \in mon.expired, ExpireNext(c)
      PROVE  EngineStep
  <2>1. pc["monitor"] # "off" /\ UNCHANGED <<tracker, clock, monitorRest>>
    BY <1>5 DEF ExpireNext
  <2>2. CASE SameOpening(tracker, c)
    <3>1. /\ mon' = [mon EXCEPT !.expired = mon.expired \ {c}, !.cur = c]
          /\ Await("monitor", "expirePoll", PositionOf(c.sym))
      BY <1>5, <2>2 DEF ExpireNext
    <3>2. mon'.expired = mon.expired \ {c} /\ mon'.cur = c
      BY <3>1, StateTyped DEF MonitorLocals
    <3>3. QED
      BY <1>0, <2>1, <3>1, <3>2, RequestIs, StayingMoves, MonitorStepIs DEF PositionOf
  <2>3. CASE ~SameOpening(tracker, c)
    BY <1>0, <1>5, <2>1, <2>3, ExpireFromIs DEF ExpireNext
  <2>4. QED
    BY <2>2, <2>3
<1>6. CASE ExpirePolled
  <2>1. pc["monitor"] = "expirePoll" /\ pc["monitor"] # "off" /\ UNCHANGED <<clock, monitorRest>>
        /\ pc["monitor"] \in ClosingPcs
    BY <1>6 DEF ExpirePolled, Resumes, ClosingPcs
  <2>2. \/ Forget(mon.cur)
        \/ /\ \E q : Await("monitor", "expireClose", Request("close", mon.cur.sym, NoExit, q))
           /\ UNCHANGED <<tracker, mon>>
    BY <1>6 DEF ExpirePolled, CloseByMarket
  <2>3. "expireClose" \in ClosingPcs \ {"expirePoll"} /\ "close" \in Ops \ {"market"}
        /\ "close" # "cancel"
    BY DEF ClosingPcs, Ops
  <2>4. QED
    BY <2>1, <2>2, <2>3, ForgetIs, ClosingAsks
<1>7. CASE ExpireCloseReturns
  BY <1>7, CancelExitsIs DEF ExpireCloseReturns, Resumes, ClosingPcs
<1>8. CASE ExpireTpCancelled
  BY <1>8, CancelStopIs DEF ExpireTpCancelled, Resumes, ClosingPcs
<1>9. CASE ExpireSlCancelled
  BY <1>9, ForgetIs DEF ExpireSlCancelled, Resumes
<1>10. QED
  BY <1>1, <1>2, <1>3, <1>4, <1>5, <1>6, <1>7, <1>8, <1>9 DEF MonitorStep

----------------------------------------------------------------------------
(* Polls and stops: the trailer.                                           *)

\* Going on with the copies that are left to trail.
LEMMA TrailFromIs ==
    ASSUME IInv, JInv, UNCHANGED <<clock, trailerRest>>, pc["trailer"] # "off",
           \A s \in Symbols : EntryMoves(s) \/
               (pc["trailer"] \in TrailingPcs /\ EntryRecords(s)),
           NEW todo, todo \subseteq trl.todo \cup AllTracked(tracker'), TrailFrom(todo)
    PROVE  EngineStep
<1>1. trl'.todo = todo /\ trl'.cur = NoCopy
  BY DEF TrailFrom, NoTrl
<1>2. PICK at \in {"sleep", "trail"} : Await("trailer", at, NoCall)
  BY DEF TrailFrom, Goto
<1>3. at \notin TrailingPcs /\ pc'["trailer"] = at /\ call'["trailer"] = NoCall
  BY <1>2, AwaitIs, Constants DEF TrailingPcs
<1>4. TrailerMoves
  BY <1>1, <1>3, RequestIs DEF TrailerMoves, TrailerAsksOwn, Ok, TrailingPcs
<1>5. \A s \in Symbols : EntryMoves(s)
  BY <1>3 DEF EntryMoves, EntryRecords
<1>6. UNCHANGED trailerRest /\ clock' \in {clock, now}
  OBVIOUS
<1>7. QED
  BY <1>2, <1>4, <1>5, <1>6, TrailerStepIs

\* updateStopLoss changes the stop of one entry and nothing a name depends on.
LEMMA RecordStopIs ==
    ASSUME IInv, RecordStop(trl.cur)
    PROVE  \A s \in Symbols : EntryMoves(s) \/ EntryRecords(s)
<1> DEFINE s == trl.cur.sym
           e == [tracker[s] EXCEPT !.sl = trl.id, !.leveled = TRUE]
<1>1. tracker \in TrackerMap /\ s \in Symbols
  BY StateTyped, CopyFields
<1>2. \/ tracker' = tracker
      \/ Committed(tracker, s) /\ tracker' = UpdateStopLoss(tracker, s, trl.id, TRUE)
  BY DEF RecordStop, UpdateStopLoss
<1>3. CASE tracker' = tracker
  BY <1>3 DEF EntryMoves
<1>4. CASE Committed(tracker, s) /\ tracker' = UpdateStopLoss(tracker, s, trl.id, TRUE)
  <2>1. /\ e.openedAt = tracker[s].openedAt /\ e.tp = tracker[s].tp /\ e.sl = trl.id
        /\ e.aged = tracker[s].aged
    BY <1>1, <1>4 DEF Committed, Has, TrackerMap, TrackedPosition
  <2>2. tracker' = [tracker EXCEPT ![s] = e]
    BY <1>1, <1>4 DEF UpdateStopLoss, TrackerMap
  <2> HIDE DEF e
  <2>3. QED
    BY <1>1, <2>1, <2>2 DEF EntryMoves, EntryRecords, TrackerMap
<1>5. QED
  BY <1>2, <1>3, <1>4

\* Whatever the trailer does is a step of the engine.
LEMMA TrailerIs ==
    ASSUME IInv, JInv, TrailerStep
    PROVE  EngineStep
<1>0. ASSUME tracker' = tracker
      PROVE  \A s \in Symbols : EntryMoves(s)
  BY <1>0 DEF EntryMoves
<1>1. CASE TrailerWakes
  BY <1>0, <1>1, TrailFromIs DEF TrailerWakes
<1>2. ASSUME NEW c \in trl.todo, TrailSkips(c)
      PROVE  EngineStep
  BY <1>0, <1>2, TrailFromIs DEF TrailSkips
<1>3. ASSUME NEW c \in trl.todo, TrailPlaces(c)
      PROVE  EngineStep
  <2> DEFINE id == [leg |-> "sl", stamp |-> now]
  <2>1. /\ trl' = [todo |-> trl.todo \ {c}, cur |-> c, id |-> id]
        /\ Await("trailer", "trailPlace", PlaceExit(c.sym, id, c.pos.qty))
        /\ clock' = now /\ UNCHANGED <<tracker, trailerRest>> /\ pc["trailer"] # "off"
    BY <1>3 DEF TrailPlaces, ClockTicks
  <2>2. trl'.todo = trl.todo \ {c} /\ trl'.cur = c /\ trl'.id = id /\ MadeNow(trl'.id, "sl")
    BY <2>1 DEF MadeNow
  <2>3. /\ pc'["trailer"] = "trailPlace"
        /\ call'["trailer"] = Request("place", c.sym, id, c.pos.qty)
    BY <2>1, AwaitIs, Constants DEF PlaceExit
  <2> HIDE DEF id
  <2>4. TrailerAsksOwn' /\ ~Ok("trailer")'
    BY <2>2, <2>3, RequestIs DEF TrailerAsksOwn, Ok
  <2>5. TrailerMoves
    BY <1>3, <2>2, <2>3, <2>4 DEF TrailerMoves
  <2>6. QED
    BY <1>0, <2>1, <2>5, TrailerStepIs
\* Cancelling, with the replacement in hand.
<1>4. ASSUME UNCHANGED <<tracker, trl, clock, trailerRest>>, pc["trailer"] \in TrailingPcs,
             NEW at \in {"trailCancel", "trailRollback"}, NEW id,
             Await("trailer", at, CancelExit(trl.cur.sym, id)),
             at = "trailCancel" =>
                 id = trl.cur.pos.sl /\ pc["trailer"] = "trailPlace" /\ Ok("trailer"),
             at = "trailRollback" => id = trl.id
      PROVE  EngineStep
  <2>1. /\ pc'["trailer"] = at /\ call'["trailer"] = Request("cancel", trl.cur.sym, id, 0)
        /\ pc["trailer"] # "off"
    BY <1>4, AwaitIs, Constants DEF CancelExit, TrailingPcs
  <2>2. TrailerAsksOwn' /\ ~Ok("trailer")'
    BY <1>4, <2>1, RequestIs DEF TrailerAsksOwn, Ok
  <2>3. TrailerMoves
    BY <1>4, <2>1, <2>2 DEF TrailerMoves
  <2>4. QED
    BY <1>0, <1>4, <2>1, <2>3, TrailerStepIs
<1>5. CASE TrailPlaced
  <2>1. pc["trailer"] = "trailPlace" /\ pc["trailer"] \in TrailingPcs
        /\ UNCHANGED <<clock, trailerRest>>
    BY <1>5 DEF TrailPlaced, Resumes, TrailingPcs
  <2>2. CASE Ok("trailer") /\ KnowsStop(trl.cur.pos)
    BY <1>4, <1>5, <2>1, <2>2 DEF TrailPlaced
  <2>3. CASE ~(Ok("trailer") /\ KnowsStop(trl.cur.pos))
    <3>1. tracker' = tracker \/ RecordStop(trl.cur)
      BY <1>5, <2>3 DEF TrailPlaced
    <3>2. TrailFrom(trl.todo)
      BY <1>5, <2>3 DEF TrailPlaced
    <3>3. QED
      BY <1>0, <2>1, <3>1, <3>2, RecordStopIs, TrailFromIs
  <2>4. QED
    BY <2>2, <2>3
<1>6. CASE TrailCancelled
  <2>1. pc["trailer"] = "trailCancel" /\ pc["trailer"] \in TrailingPcs
        /\ UNCHANGED <<clock, trailerRest>>
    BY <1>6 DEF TrailCancelled, Resumes, TrailingPcs
  <2>2. CASE Ok("trailer")
    BY <1>6, <2>1, <2>2, RecordStopIs, TrailFromIs DEF TrailCancelled
  <2>3. CASE ~Ok("trailer")
    BY <1>4, <1>6, <2>1, <2>3 DEF TrailCancelled
  <2>4. QED
    BY <2>2, <2>3
<1>7. CASE TrailRolledBack
  BY <1>0, <1>7, TrailFromIs DEF TrailRolledBack, Resumes
<1>8. QED
  BY <1>1, <1>2, <1>3, <1>5, <1>6, <1>7 DEF TrailerStep

----------------------------------------------------------------------------
(* Polls and stops: the opener.                                            *)

\* What the opener leaves alone.
OpenerRest == UNCHANGED <<mon, trl, live, exits>>

\* The opening with the exits it has asked for so far.
SameOrders(o) == o.sym = op.sym /\ o.tp = op.tp /\ o.sl = op.sl

\* Going on with the same opening.
LEMMA OpeningAsks ==
    ASSUME IInv, JInv, OpenerRest, pc["opener"] \in OpeningPcs, UNCHANGED tracker,
           clock' \in {clock, now},
           NEW at \in OpeningPcs, NEW o, NEW s, NEW id, NEW q,
           Await("opener", at, Request(o, s, id, q)),
           at = "emergencyPoll" => o = "snapshot",
           o = "market" => at = "market" /\ s = op'.sym, o = "cancel" => id.leg # "sl",
           op'.tp = op.tp \/ MadeNow(op'.tp, "tp"), op'.sl = op.sl \/ MadeNow(op'.sl, "sl")
    PROVE  EngineStep
<1>1. \A r \in Symbols : EntryMoves(r)
  BY DEF EntryMoves
<1>2. UNCHANGED <<mon, trl, live, exits>>
  BY DEF OpenerRest
<1>3. at # "boot" /\ at # "bootSnapshot" /\ pc["opener"] \in ExpectsFill
  BY DEF OpeningPcs, ExpectsFill
<1>4. QED
  BY <1>1, <1>2, <1>3, RequestIs, OpenerStepIs

\* The opening is over, for better or worse.
LEMMA OpeningEnds ==
    ASSUME IInv, JInv, OpenerRest, clock' \in {clock, now}, Await("opener", "idle", NoCall),
           \A s \in Symbols : EntryMoves(s)
    PROVE  EngineStep
<1>1. UNCHANGED <<mon, trl, live, exits>> /\ "idle" \notin ExpectsFill
  BY DEF OpenerRest, OpeningPcs, ExpectsFill
<1>2. QED
  BY <1>1, RequestIs, OpenerStepIs

\* Giving an opening up removes one entry.
LEMMA DropOpeningIs ==
    ASSUME IInv, JInv, OpenerRest, DropOpening
    PROVE  EngineStep
<1>1. EntriesStay(tracker, tracker')
  BY StateTyped, CopyFields, NoCopyTyped, MethodsLeaveExits, 0 \in Nat DEF DropOpening
<1>2. QED
  BY <1>1, StayingMoves, OpeningEnds DEF DropOpening, Goto

\* Either commit finds the reservation and hangs the opening's exits on the entry.
LEMMA CommitIs ==
    ASSUME IInv, JInv, OpenerRest, pc["opener"] \in OpeningPcs, NEW o \in Opening, SameOrders(o),
           CommitOpening(o) \/ CommitEmergency(o)
    PROVE  EngineStep
<1>1. o.sym = op.sym /\ o.sym \in Symbols /\ tracker[o.sym].inFlight
  BY StateTyped DEF IInv, ReservationOwned, SameOrders
<1>2. /\ tracker' = CommitReserved(tracker, o.sym, Opened(o))
      /\ clock' = now /\ Await("opener", "idle", NoCall)
  BY <1>1 DEF CommitOpening, CommitEmergency, ClockTicks, Goto
<1>3. \A s \in Symbols : tracker'[s] = IF s = o.sym THEN Opened(o) ELSE tracker[s]
  <2>1. tracker \in TrackerMap /\ Opened(o) \in TrackedPosition /\ ~Opened(o).inFlight
    BY StateTyped, OpenedTyped
  <2>2. QED
    BY <1>1, <1>2, <2>1, CommitIsTyped
<1>4. Opened(o).openedAt = now /\ Opened(o).tp = op.tp /\ Opened(o).sl = op.sl
  BY DEF Opened, SameOrders
<1>5. pc'["opener"] = "idle" /\ "idle" \notin ExpectsFill /\ pc["opener"] \in ExpectsFill
  BY <1>2, AwaitIs, Constants DEF OpeningPcs, ExpectsFill
<1>6. \A s \in Symbols : EntryMoves(s)
  BY <1>2, <1>3, <1>4, <1>5 DEF EntryMoves
<1>7. QED
  BY <1>2, <1>6, OpeningEnds

\* The emergency close asks for a market order and changes no entry.
LEMMA EmergencyCloseIs ==
    ASSUME IInv, JInv, OpenerRest, pc["opener"] \in OpeningPcs, NEW o, SameOrders(o),
           EmergencyClose(o)
    PROVE  EngineStep
<1>1. "emergencyClose" \in OpeningPcs
  BY DEF OpeningPcs
<1>2. QED
  BY <1>1, OpeningAsks DEF EmergencyClose, CloseByMarket, SameOrders

\* The take-profit of an opening is not its stop.
LEMMA UndoTakeProfitIs ==
    ASSUME IInv, JInv, OpenerRest, pc["opener"] \in OpeningPcs, NEW o, SameOrders(o),
           UndoTakeProfit(o)
    PROVE  EngineStep
<1>1. "undoTp" \in OpeningPcs /\ pc["opener"] \in ExpectsFill
  BY DEF OpeningPcs, ExpectsFill
<1>2. o.tp.leg # "sl"
  BY <1>1 DEF JInv, ExitsOfTheirLeg, Legs, SameOrders
<1>3. QED
  BY <1>1, <1>2, OpeningAsks, EmergencyCloseIs DEF UndoTakeProfit, CancelExit, SameOrders

\* Entering the stop-loss commits, makes an id up, or undoes the take-profit.
LEMMA EnterStopLossIs ==
    ASSUME IInv, JInv, OpenerRest, pc["opener"] \in OpeningPcs, NEW o \in Opening, SameOrders(o),
           EnterStopLoss(o)
    PROVE  EngineStep
<1>1. CASE CommitOpening(o)
  BY <1>1, CommitIs
<1>2. ASSUME NEW leveled \in BOOLEAN, UndoTakeProfit([o EXCEPT !.leveled = leveled])
      PROVE  EngineStep
  <2>1. SameOrders([o EXCEPT !.leveled = leveled])
    BY DEF SameOrders, Opening
  <2>2. QED
    BY <1>2, <2>1, UndoTakeProfitIs
<1>3. CASE /\ op' = [o EXCEPT !.sl = [leg |-> "sl", stamp |-> now]]
           /\ Await("opener", "sl", PlaceExit(o.sym, [leg |-> "sl", stamp |-> now], o.qty))
           /\ clock' = now /\ UNCHANGED tracker
  <2>1. op'.tp = op.tp /\ MadeNow(op'.sl, "sl")
    BY <1>3 DEF SameOrders, Opening, MadeNow
  <2>2. "sl" \in OpeningPcs
    BY DEF OpeningPcs
  <2>3. QED
    BY <1>3, <2>1, <2>2, OpeningAsks DEF PlaceExit
<1>4. QED
  BY <1>1, <1>2, <1>3 DEF EnterStopLoss, ClockTicks

\* Entering the take-profit makes an id up, goes on to the stop-loss, or closes.
LEMMA EnterTakeProfitIs ==
    ASSUME IInv, JInv, OpenerRest, pc["opener"] \in OpeningPcs, NEW o \in Opening, SameOrders(o),
           EnterTakeProfit(o)
    PROVE  EngineStep
<1>1. CASE EnterStopLoss(o)
  BY <1>1, EnterStopLossIs
<1>2. CASE EmergencyClose(o)
  BY <1>2, EmergencyCloseIs
<1>3. CASE /\ op' = [o EXCEPT !.tp = [leg |-> "tp", stamp |-> now]]
           /\ Await("opener", "tp", PlaceExit(o.sym, [leg |-> "tp", stamp |-> now], o.qty))
           /\ clock' = now /\ UNCHANGED tracker
  <2>1. op'.sl = op.sl /\ MadeNow(op'.tp, "tp")
    BY <1>3 DEF SameOrders, Opening, MadeNow
  <2>2. "tp" \in OpeningPcs
    BY DEF OpeningPcs
  <2>3. QED
    BY <1>3, <2>1, <2>2, OpeningAsks DEF PlaceExit
<1>4. QED
  BY <1>1, <1>2, <1>3 DEF EnterTakeProfit, ClockTicks

\* Outside an opening the opener asks for nothing that matters here.
LEMMA ScanIs ==
    ASSUME IInv, JInv, OpenerRest, clock' \in {clock, now}, UNCHANGED tracker,
           NEW at \in {"bootSnapshot", "idle"}, NEW r, Await("opener", at, r),
           r.st # "accepted", r.op \notin {"market", "cancel"},
           at = "bootSnapshot" => pc["opener"] = "boot"
    PROVE  EngineStep
<1>1. at \notin ExpectsFill /\ at # "boot" /\ at # "emergencyPoll"
  BY DEF OpeningPcs, ExpectsFill
<1>2. \A s \in Symbols : EntryMoves(s)
  BY DEF EntryMoves
<1>3. QED
  BY <1>1, <1>2, OpenerStepIs DEF OpenerRest

\* A signal starts an opening without exits.
LEMMA SignalIs ==
    ASSUME IInv, JInv, NEW s \in Symbols, Signal(s)
    PROVE  EngineStep
<1>1. /\ Await("opener", "preflight", NoCall) /\ UNCHANGED <<tracker, clock, mon, trl, venueVars>>
      /\ \E fixedTp \in TakeProfits : op' = [NewOpening(s) EXCEPT !.fixedTp = fixedTp]
  BY DEF Signal, Goto
<1>2. op'.tp = NoExit /\ op'.sl = NoExit
  BY <1>1 DEF NewOpening
<1>3. \A r \in Symbols : EntryMoves(r)
  BY <1>1 DEF EntryMoves
<1>4. QED
  BY <1>1, <1>2, <1>3, RequestIs, OpenerStepIs DEF venueVars

\* A reservation is an entry without exits, stamped now.
LEMMA ReserveIs ==
    ASSUME IInv, JInv, ReserveSymbol
    PROVE  EngineStep
<1>1. OpenerRest /\ op' = op /\ pc["opener"] \in ExpectsFill
  BY DEF ReserveSymbol, localVars, venueVars, OpenerRest, ExpectsFill
<1>2. CASE Has(tracker, op.sym)
  BY <1>1, <1>2, RequestIs, ScanIs DEF ReserveSymbol, Goto
<1>3. CASE ~Has(tracker, op.sym)
  <2>1. /\ tracker' = Reserve(tracker, op.sym, now) /\ clock' = now
        /\ Await("opener", "leverage", Request("leverage", op.sym, NoExit, 0))
    BY <1>3 DEF ReserveSymbol, ClockTicks
  <2>2. \A s \in Symbols : tracker'[s] = IF s = op.sym THEN PendingAt(now) ELSE tracker[s]
    BY <1>3, <2>1, StateTyped, NowTyped, ReserveIsTyped DEF IInv
  <2>3. \A s \in Symbols : EntryMoves(s)
    BY <2>1, <2>2 DEF EntryMoves, PendingAt, NoPos
  <2>4. QED
    BY <1>1, <2>1, <2>3, RequestIs, OpenerStepIs DEF OpenerRest
<1>4. QED
  BY <1>2, <1>3

\* The coroutines start where nothing is being placed or closed.
LEMMA BootSnapshotIs ==
    ASSUME IInv, JInv, BootSnapshot
    PROVE  EngineStep
<1>1. /\ UNCHANGED <<op, mon, trl, live, exits>> /\ clock' \in {clock, now}
      /\ pc'["opener"] = "idle" /\ call'["opener"] = NoCall
      /\ pc'["monitor"] = "sleep" /\ call'["monitor"] = call["monitor"]
      /\ pc'["trailer"] \in {"sleep", "off"} /\ call'["trailer"] = call["trailer"]
      /\ pc["opener"] = "bootSnapshot"
  BY Constants DEF BootSnapshot, Resumes, localVars, venueVars, ClockTicks, IInv, TypeOK,
     ExchangeTypeOK
<1>2. /\ pc["monitor"] = "off" /\ pc["trailer"] = "off"
  BY <1>1 DEF JInv, BootsAlone
<1>3. \A s \in Symbols : EntryMoves(s)
  <2>1. \/ tracker' = tracker
        \/ tracker' = LoadFromSnapshot(call["opener"].val, now) /\ clock' = now
    BY DEF BootSnapshot, ClockTicks
  <2>2. QED
    BY <2>1 DEF EntryMoves, LoadFromSnapshot, RecoveredAt, NoPos
<1>4. OpenerMoves
  BY <1>1, RequestIs DEF OpenerMoves, OpenerAsksOwn, Ok, ExpectsFill, OpeningPcs
<1>5. MonitorMoves
  BY <1>1, <1>2 DEF MonitorMoves, MonitorAsksOwn, JInv, ClosingPcs
<1>6. TrailerMoves
  BY <1>1, <1>2 DEF TrailerMoves, TrailerAsksOwn, JInv, TrailingPcs
<1>7. pc'["trailer"] \notin TrailingPcs /\ BootsAlone'
  BY <1>1 DEF TrailingPcs, BootsAlone
<1>8. QED
  BY <1>1, <1>3, <1>4, <1>5, <1>6, <1>7 DEF EngineStep

\* So does the opener, from the boot to the end of an opening.
LEMMA OpenerIs ==
    ASSUME IInv, JInv, OpenerContinues
    PROVE  EngineStep
<1>1. CASE Boot
  <2>1. OpenerRest /\ AccountSnapshot = Request("snapshot", AnySymbol, NoExit, 0)
    BY <1>1 DEF Boot, localVars, venueVars, OpenerRest, AccountSnapshot
  <2>2. Await("opener", "bootSnapshot", AccountSnapshot) /\ UNCHANGED <<tracker, clock>>
        /\ pc["opener"] = "boot"
    BY <1>1 DEF Boot
  <2>3. QED
    BY <2>1, <2>2, RequestIs, ScanIs
<1>2. CASE BootSnapshot
  BY <1>2, BootSnapshotIs
<1>3. CASE PreflightBlocks
  <2>1. OpenerRest /\ Await("opener", "idle", NoCall) /\ UNCHANGED <<tracker, clock>>
    BY <1>3 DEF PreflightBlocks, Goto, localVars, venueVars, OpenerRest
  <2>2. QED
    BY <2>1, RequestIs, ScanIs
<1>4. CASE ReserveSymbol
  BY <1>4, ReserveIs
<1>5. op \in Opening /\ op.sym \in Symbols
  BY StateTyped
<1>6. SameOrders(op)
  BY DEF SameOrders
<1>7. CASE LeverageSet
  <2>1. OpenerRest /\ pc["opener"] \in OpeningPcs
    BY <1>7 DEF LeverageSet, Resumes, venueVars, OpenerRest, OpeningPcs
  <2>2. CASE Ok("opener")
    <3>1. /\ Await("opener", "market", Request("market", op.sym, NoExit, OpenQty))
          /\ UNCHANGED <<tracker, op, clock>> /\ "market" \in OpeningPcs
      BY <1>7, <2>2 DEF LeverageSet, OpeningPcs
    <3>2. QED
      BY <2>1, <3>1, OpeningAsks
  <2>3. CASE ~Ok("opener")
    BY <1>7, <2>1, <2>3, DropOpeningIs DEF LeverageSet
  <2>4. QED
    BY <2>2, <2>3
<1>8. ASSUME UNCHANGED openerRest
      PROVE  OpenerRest
  BY <1>8 DEF openerRest, OpenerRest
<1>9. CASE MarketDone
  <2> DEFINE executed == call["opener"].val[op.sym]
             o == [op EXCEPT !.qty = executed]
  <2>1. OpenerRest /\ pc["opener"] \in OpeningPcs
    BY <1>8, <1>9 DEF MarketDone, Resumes, OpeningPcs
  <2>2. o \in Opening /\ SameOrders(o)
    BY StateTyped, Constants DEF Opening, SameOrders
  <2>3. CASE ~Ok("opener")
    BY <1>9, <2>1, <2>3, DropOpeningIs DEF MarketDone
  <2>4. CASE Ok("opener") /\ executed > 0
    BY <1>9, <2>1, <2>2, <2>4, EnterTakeProfitIs DEF MarketDone
  <2>5. CASE Ok("opener") /\ ~(executed > 0)
    <3>1. /\ Await("opener", "fillPoll", Request("snapshot", op.sym, NoExit, 0))
          /\ UNCHANGED <<tracker, op, clock>> /\ "fillPoll" \in OpeningPcs
      BY <1>9, <2>5 DEF MarketDone, PositionOf, OpeningPcs
    <3>2. QED
      BY <2>1, <3>1, OpeningAsks
  <2>6. QED
    BY <2>3, <2>4, <2>5
<1>10. CASE FillPolled
  <2> DEFINE held == call["opener"].val[op.sym]
             o == [op EXCEPT !.qty = IF Ok("opener") /\ held > 0 THEN held ELSE @]
  <2>1. o \in Opening /\ SameOrders(o)
    BY StateTyped, Constants DEF Opening, SameOrders
  <2>2. EnterTakeProfit(o) /\ OpenerRest /\ pc["opener"] \in OpeningPcs
    BY <1>8, <1>10 DEF FillPolled, Resumes, OpeningPcs
  <2> HIDE DEF o
  <2>3. QED
    BY <2>1, <2>2, EnterTakeProfitIs
<1>11. CASE TakeProfitPlaced
  <2>1. OpenerRest /\ pc["opener"] \in OpeningPcs
    BY <1>8, <1>11 DEF TakeProfitPlaced, Resumes, OpeningPcs
  <2>2. [op EXCEPT !.tpPlaced = TRUE] \in Opening /\ SameOrders([op EXCEPT !.tpPlaced = TRUE])
    BY <1>5 DEF Opening, SameOrders
  <2>3. QED
    BY <1>6, <1>11, <2>1, <2>2, EnterStopLossIs, EmergencyCloseIs DEF TakeProfitPlaced
<1>12. CASE StopLossPlaced
  <2>1. OpenerRest /\ pc["opener"] \in OpeningPcs
    BY <1>8, <1>12 DEF StopLossPlaced, Resumes, OpeningPcs
  <2>2. QED
    BY <1>5, <1>6, <1>12, <2>1, CommitIs, UndoTakeProfitIs DEF StopLossPlaced
<1>13. CASE TakeProfitUndone
  <2>1. OpenerRest /\ pc["opener"] \in OpeningPcs
    BY <1>8, <1>13 DEF TakeProfitUndone, Resumes, OpeningPcs
  <2>2. QED
    BY <1>6, <1>13, <2>1, EmergencyCloseIs DEF TakeProfitUndone
<1>14. CASE OpenerCloseReturns
  <2>1. OpenerRest /\ pc["opener"] = "emergencyClose" /\ pc["opener"] \in OpeningPcs
    BY <1>8, <1>14 DEF OpenerCloseReturns, OpeningPcs, IInv, CommitNeverFails
  <2>2. CASE Ok("opener")
    <3>1. /\ Await("opener", "emergencyPoll", Request("snapshot", op.sym, NoExit, 0))
          /\ UNCHANGED <<tracker, op, clock>> /\ "emergencyPoll" \in OpeningPcs
      BY <1>14, <2>1, <2>2 DEF OpenerCloseReturns, PositionOf, OpeningPcs
    <3>2. QED
      BY <2>1, <3>1, OpeningAsks
  <2>3. CASE ~Ok("opener")
    BY <1>5, <1>6, <1>14, <2>1, <2>3, CommitIs DEF OpenerCloseReturns
  <2>4. QED
    BY <2>2, <2>3
<1>15. CASE EmergencyVerified
  <2>1. OpenerRest /\ pc["opener"] \in OpeningPcs
    BY <1>8, <1>15 DEF EmergencyVerified, Resumes, OpeningPcs
  <2>2. QED
    BY <1>5, <1>6, <1>15, <2>1, DropOpeningIs, CommitIs DEF EmergencyVerified
<1>16. QED
  BY <1>1, <1>2, <1>3, <1>4, <1>7, <1>9, <1>10, <1>11, <1>12, <1>13, <1>14, <1>15
     DEF OpenerContinues

\* Neither do events, time and restarts.
LEMMA SurroundingsAre ==
    ASSUME IInv, JInv, Environment
    PROVE  EngineStep \/ ExchangeStep
<1>1. CASE (Market \/ \E p \in Procs : Serve(p)) /\ UNCHANGED engineVars
  BY <1>1 DEF ExchangeStep
<1>2. ASSUME EntriesStay(tracker, tracker'), UNCHANGED <<clock, pc, localVars, live, exits, call>>
      PROVE  EngineStep
  <2>1. \A s \in Symbols : EntryMoves(s)
    BY <1>2, StayingMoves
  <2>2. OpenerStill /\ MonitorStill /\ TrailerStill
    BY <1>2 DEF localVars, OpenerStill, MonitorStill, TrailerStill
  <2>3. BootsAlone'
    BY <1>2 DEF JInv, BootsAlone
  <2>4. QED
    BY <1>2, <2>1, <2>2, <2>3 DEF EngineStep
<1>3. EntriesStay(tracker, tracker)
  BY DEF EntriesStay
<1>4. CASE OnUserDataEvent
  <2> DEFINE e == Head(events)
  <2>1. e.qty \in Nat
    <3>1. events \in Seq(Event) /\ events # <<>>
      BY <1>4 DEF OnUserDataEvent, IInv, TypeOK, ExchangeTypeOK
    <3>2. e \in Event
      BY <3>1
    <3>3. QED
      BY <3>2 DEF Event
  <2>2. \/ tracker' = RemoveByExitOrderClientId(tracker, e.id)
        \/ tracker' = ApplyExitFillByClientId(tracker, e.id, e.qty)
        \/ tracker' = tracker
    BY <1>4 DEF OnUserDataEvent
  <2> HIDE DEF e
  <2>3. /\ EntriesStay(tracker, RemoveByExitOrderClientId(tracker, e.id))
        /\ EntriesStay(tracker, ApplyExitFillByClientId(tracker, e.id, e.qty))
    <3>1. tracker \in TrackerMap /\ op.sym \in Symbols /\ NoCopy.sym \in Symbols
      BY StateTyped, NoCopyTyped, CopyFields
    <3>2. QED
      BY <2>1, <3>1, MethodsLeaveExits
  <2>4. EntriesStay(tracker, tracker')
    BY <1>3, <2>2, <2>3
  <2>5. QED
    BY <1>2, <1>4, <2>4 DEF OnUserDataEvent
<1>5. ASSUME NEW s \in Symbols, CooldownEnds(s) \/ HoldTimePasses(s)
      PROVE  EngineStep
  <2>1. \/ tracker' = tracker
        \/ tracker' = [tracker EXCEPT ![s].aged = TRUE]
    BY <1>5 DEF CooldownEnds, HoldTimePasses
  <2>2. tracker \in TrackerMap /\ NoCopy.sym \in Symbols /\ 0 \in Nat
    BY StateTyped, NoCopyTyped, CopyFields
  <2>3. EntriesStay(tracker, [tracker EXCEPT ![s].aged = TRUE])
    BY <2>2, MethodsLeaveExits
  <2>4. EntriesStay(tracker, tracker')
    BY <1>3, <2>1, <2>3
  <2>5. QED
    BY <1>2, <1>5, <2>4 DEF CooldownEnds, HoldTimePasses, exchangeVars
<1>6. CASE Crash
  <2>1. /\ pc'["opener"] = "boot" /\ pc'["monitor"] = "off" /\ pc'["trailer"] = "off"
        /\ \A p \in Procs : call'[p] = NoCall
    BY <1>6, Constants DEF Crash, Booting
  <2>2. \A s \in Symbols : EntryMoves(s)
    BY <1>6 DEF Crash, EmptyTracker, EntryMoves
  <2>3. call'["opener"] = NoCall /\ call'["monitor"] = NoCall /\ call'["trailer"] = NoCall
    BY <2>1, Constants
  <2>4. OpenerMoves
    BY <2>1, <2>3, RequestIs DEF OpenerMoves, OpenerAsksOwn, ExpectsFill, OpeningPcs
  <2>5. MonitorMoves
    BY <1>6, <2>1, <2>3, RequestIs DEF Crash, NoMon, MonitorMoves, MonitorAsksOwn, ClosingPcs
  <2>6. TrailerMoves
    BY <1>6, <2>1, <2>3, RequestIs DEF Crash, NoTrl, TrailerMoves, TrailerAsksOwn, TrailingPcs
  <2>7. BootsAlone' /\ pc'["trailer"] \notin TrailingPcs
    BY <2>1 DEF BootsAlone, TrailingPcs
  <2>8. QED
    BY <1>6, <2>2, <2>4, <2>5, <2>6, <2>7 DEF Crash, EngineStep
<1>7. QED
  BY <1>1, <1>4, <1>5, <1>6 DEF Environment

\* A step is one of the engine or one of the venue.
LEMMA StepIs ==
    ASSUME IInv, JInv, [Next]_vars
    PROVE  EngineStep \/ ExchangeStep
<1>1. ASSUME NEW s \in Symbols, Signal(s)
      PROVE  EngineStep
  BY <1>1, SignalIs
<1>2. CASE UNCHANGED vars
  <2>1. /\ UNCHANGED <<tracker, clock, pc, op, mon, trl, live, exits, call>>
    BY <1>2 DEF vars, engineVars, localVars, exchangeVars
  <2>2. OpenerStill /\ MonitorStill /\ TrailerStill /\ BootsAlone'
    BY <2>1 DEF OpenerStill, MonitorStill, TrailerStill, JInv, BootsAlone
  <2>3. \A s \in Symbols : EntryMoves(s)
    BY <2>1 DEF EntryMoves
  <2>4. QED
    BY <2>1, <2>2, <2>3 DEF EngineStep
<1>3. QED
  BY <1>1, <1>2, OpenerIs, MonitorIs, TrailerIs, SurroundingsAre DEF Next

\* JInv holds when the process starts.
LEMMA InitEstablishesJ ==
    ASSUME Init
    PROVE  JInv /\ ReplacementRests
<1>1. /\ pc["opener"] = "boot" /\ pc["monitor"] = "off" /\ pc["trailer"] = "off"
      /\ call["opener"] = NoCall /\ call["monitor"] = NoCall /\ call["trailer"] = NoCall
  BY Constants DEF Init, Booting, ExchangeInit
<1>2. MonitorCopies = {NoCopy} /\ TrailerCopies = {NoCopy} /\ mon.expired = {} /\ trl.todo = {}
  BY DEF Init, MonitorCopies, TrailerCopies, NoMon, NoTrl
<1>3. /\ NoPos.tp = NoExit /\ NoPos.sl = NoExit /\ NoExit.leg = "none" /\ NoExit.stamp = 0
      /\ NoCopy.pos = NoPos /\ \A s \in Symbols : tracker[s] = NoPos
      /\ clock = 0
  BY NoPosIsApart DEF Init, EmptyTracker, NoCopy, NoExit
<1>4. ExitsOfTheirLeg
  BY <1>1, <1>2, <1>3 DEF ExitsOfTheirLeg, Legs, ExpectsFill, OpeningPcs, TrailingPcs
<1>5. BootsAlone /\ OpenerAsksOwn /\ MonitorAsksOwn /\ TrailerAsksOwn
  BY <1>1, RequestIs DEF BootsAlone, OpenerAsksOwn, MonitorAsksOwn, TrailerAsksOwn
<1>6. ExpiredIsOver /\ PollsHold
  BY <1>1, <1>2 DEF ExpiredIsOver, PollsHold, ClosingPcs, TrailingPcs
<1>7. StopTellsOpening
  BY <1>1, <1>2, <1>3 DEF StopTellsOpening, ExpectsFill, OpeningPcs, TrailingPcs
<1>8. QED
  BY <1>1, <1>4, <1>5, <1>6, <1>7 DEF JInv, ReplacementRests, Replacing

\* JInv is inductive on top of IInv.
LEMMA NextKeepsJ ==
    ASSUME IInv, JInv, [Next]_vars
    PROVE  JInv'
  BY NextKeeps, StepIs, EngineKeepsJ, ExchangeKeepsJ

\* Polls, requests and the ids of stops stay what JInv says.
THEOREM PollsAndStopsStand == Spec => []JInv
<1>1. Init => IInv /\ JInv
  BY InitEstablishes, InitEstablishesJ
<1>2. IInv /\ JInv /\ [Next]_vars => (IInv /\ JInv)'
  BY NextKeeps, NextKeepsJ
<1>3. QED
  BY <1>1, <1>2, PTL DEF Spec

\* The monitor's steps leave the other coroutines where they stand.
LEMMA MonitorMovesAlone ==
    ASSUME IInv, MonitorStep
    PROVE  pc'["opener"] = pc["opener"] /\ pc'["trailer"] = pc["trailer"]
<1>1. \E at, r : Await("monitor", at, r)
  <2>1. CASE MonitorWakes
    BY <2>1 DEF MonitorWakes
  <2>2. CASE MonitorSnapshot
    BY <2>2 DEF MonitorSnapshot, ReconcileFrom, ExpireFrom, Goto
  <2>3. ASSUME NEW s \in mon.todo, ReconcileSymbol(s)
        PROVE  \E at, r : Await("monitor", at, r)
    BY <2>3 DEF ReconcileSymbol, ReconcileFrom, ExpireFrom, Goto
  <2>4. CASE ForcedCloseReturns
    BY <2>4 DEF ForcedCloseReturns, ReconcileFrom, ExpireFrom, Goto
  <2>5. ASSUME NEW c \in mon.expired, ExpireNext(c)
        PROVE  \E at, r : Await("monitor", at, r)
    BY <2>5 DEF ExpireNext, ExpireFrom, Goto
  <2>6. CASE ExpirePolled
    BY <2>6 DEF ExpirePolled, Forget, ExpireFrom, Goto
  <2>7. CASE ExpireCloseReturns \/ ExpireTpCancelled \/ ExpireSlCancelled
    BY <2>7 DEF ExpireCloseReturns, ExpireTpCancelled, ExpireSlCancelled, CancelExitsAndForget,
                CancelStopAndForget, Forget, ExpireFrom, Goto
  <2>8. QED
    BY <2>1, <2>2, <2>3, <2>4, <2>5, <2>6, <2>7 DEF MonitorStep
<1>2. QED
  BY <1>1, AwaitIs, Constants

\* So do the trailer's.
LEMMA TrailerMovesAlone ==
    ASSUME IInv, TrailerStep
    PROVE  pc'["opener"] = pc["opener"] /\ pc'["monitor"] = pc["monitor"]
<1>1. \E at, r : Await("trailer", at, r)
  <2>1. ASSUME NEW c \in trl.todo, TrailSkips(c) \/ TrailPlaces(c)
        PROVE  \E at, r : Await("trailer", at, r)
    BY <2>1 DEF TrailSkips, TrailPlaces, TrailFrom, Goto
  <2>2. CASE TrailerWakes \/ TrailPlaced \/ TrailCancelled \/ TrailRolledBack
    BY <2>2 DEF TrailerWakes, TrailPlaced, TrailCancelled, TrailRolledBack, TrailFrom, Goto
  <2>3. QED
    BY <2>1, <2>2 DEF TrailerStep
<1>2. QED
  BY <1>1, AwaitIs, Constants

\* Once the opener has started the monitor, its steps leave it where it stands.
LEMMA OpenerMovesAlone ==
    ASSUME IInv, JInv, OpenerContinues \/ (\E s \in Symbols : Signal(s)),
           pc["monitor"] # "off"
    PROVE  pc'["monitor"] = pc["monitor"]
<1>1. ~Boot /\ ~BootSnapshot
  BY DEF Boot, BootSnapshot, Resumes, JInv, BootsAlone
<1>2. CASE OpenerContinues
  BY <1>1, <1>2, Constants DEF OpenerContinues, PreflightBlocks, ReserveSymbol, LeverageSet,
     MarketDone, FillPolled, TakeProfitPlaced, StopLossPlaced, TakeProfitUndone,
     OpenerCloseReturns, EmergencyVerified, DropOpening, CommitOpening, CommitEmergency,
     EmergencyClose, UndoTakeProfit, EnterStopLoss, EnterTakeProfit, Goto, Await, IInv, TypeOK
<1>3. ASSUME NEW s \in Symbols, Signal(s)
      PROVE  pc'["monitor"] = pc["monitor"]
  BY <1>3, AwaitIs, Constants DEF Signal, Goto
<1>4. QED
  BY <1>2, <1>3

\* The emergency close removes the entry of its own opening, on a flat answer.
LEMMA EmergencyRemoves ==
    ASSUME IInv, JInv, EmergencyVerified, NEW s \in Symbols, Has(tracker, s), ~Has(tracker', s)
    PROVE  live[s] = 0
<1>1. pc["opener"] = "emergencyPoll" /\ op \in Opening /\ op.sym \in Symbols
      /\ tracker \in TrackerMap
  BY StateTyped DEF EmergencyVerified, Resumes
<1>2. CASE FlatAnswer("opener", op.sym)
  <2>1. tracker' = Remove(tracker, op.sym) /\ live[op.sym] = 0
    BY <1>1, <1>2 DEF EmergencyVerified, DropOpening, FlatAnswer, JInv, PollsHold
  <2>2. QED
    BY <1>1, <2>1, RemoveIsTyped DEF Has
<1>3. CASE ~FlatAnswer("opener", op.sym)
  <2>1. tracker[op.sym].inFlight
    BY <1>1 DEF IInv, ReservationOwned, OpeningPcs
  <2>2. tracker' = CommitReserved(tracker, op.sym, Opened(op))
    BY <1>3, <2>1 DEF EmergencyVerified, CommitEmergency, FlatAnswer
  <2>3. \A r \in Symbols : tracker'[r] = IF r = op.sym THEN Opened(op) ELSE tracker[r]
    <3>1. Opened(op) \in TrackedPosition /\ ~Opened(op).inFlight
      BY <1>1, OpenedTyped
    <3>2. QED
      BY <1>1, <2>1, <2>2, <3>1, CommitIsTyped
  <2>4. Opened(op) # NoPos
    BY <1>1, OpenedTyped, NoPosIsApart
  <2>5. QED
    BY <2>3, <2>4 DEF Has
<1>4. QED
  BY <1>2, <1>3

\* The time exit removes the entry it polled for, if it is still that opening's.
LEMMA ExpiryRemoves ==
    ASSUME IInv, JInv, ExpirePolled, NEW s \in Symbols, Has(tracker, s), ~Has(tracker', s)
    PROVE  live[s] = 0
<1>1. pc["monitor"] = "expirePoll" /\ mon.cur.sym \in Symbols /\ tracker \in TrackerMap
  BY StateTyped, CopyFields DEF ExpirePolled, Resumes
<1>2. tracker' # tracker
  BY DEF Has
<1>3. FlatAnswer("monitor", mon.cur.sym) /\ tracker' = RemoveIfOpenedAt(tracker, mon.cur)
  BY <1>2 DEF ExpirePolled, Forget, FlatAnswer
<1>4. SameOpening(tracker, mon.cur) /\ tracker' = Remove(tracker, mon.cur.sym)
  BY <1>2, <1>3 DEF RemoveIfOpenedAt
<1>5. s = mon.cur.sym
  BY <1>1, <1>4, RemoveIsTyped DEF Has
<1>6. QED
  BY <1>1, <1>3, <1>4, <1>5 DEF JInv, PollsHold

\* Only EmergencyVerified and ExpirePolled leave these polls.
LEMMA PollRemoves ==
    ASSUME IInv, JInv, [Next]_vars, NEW s \in Symbols, Has(tracker, s), ~Has(tracker', s),
           \/ pc["opener"] = "emergencyPoll" /\ pc'["opener"] = "idle"
           \/ pc["monitor"] = "expirePoll" /\ pc'["monitor"] \in {"expire", "sleep"}
    PROVE  live[s] = 0
<1>1. CASE Environment \/ UNCHANGED vars
  <2>1. pc' = pc \/ (pc'["opener"] = "boot" /\ pc'["monitor"] = "off")
    BY <1>1, Constants DEF Environment, engineVars, OnUserDataEvent, CooldownEnds,
       HoldTimePasses, Crash, Booting, vars
  <2>2. QED
    BY <2>1
<1>2. CASE pc["opener"] = "emergencyPoll" /\ pc'["opener"] = "idle"
  <2>1. ~MonitorStep /\ ~TrailerStep /\ \A r \in Symbols : ~Signal(r)
    BY <1>2, MonitorMovesAlone, TrailerMovesAlone DEF Signal
  <2>2. OpenerContinues => EmergencyVerified
    BY <1>2 DEF OpenerContinues, Boot, BootSnapshot, PreflightBlocks, ReserveSymbol, LeverageSet,
       MarketDone, FillPolled, TakeProfitPlaced, StopLossPlaced, TakeProfitUndone,
       OpenerCloseReturns, Resumes
  <2>3. QED
    BY <1>1, <2>1, <2>2, EmergencyRemoves DEF Next
<1>3. CASE pc["monitor"] = "expirePoll" /\ pc'["monitor"] \in {"expire", "sleep"}
  <2>1. ~TrailerStep /\ ~OpenerContinues /\ \A r \in Symbols : ~Signal(r)
    BY <1>3, TrailerMovesAlone, OpenerMovesAlone
  <2>2. MonitorStep => ExpirePolled
    BY <1>3 DEF MonitorStep, MonitorWakes, MonitorSnapshot, ForcedCloseReturns, ReconcileSymbol,
       ExpireNext, ExpireCloseReturns, ExpireTpCancelled, ExpireSlCancelled, Resumes
  <2>3. QED
    BY <1>1, <2>1, <2>2, ExpiryRemoves DEF Next
<1>4. QED
  BY <1>2, <1>3

\* Whoever gives up an entry because a poll showed no position does so while there is
\* none, however old the answer is.
THEOREM PollsRemoveOnlyFlat == Spec => PollRemovesOnlyFlat
<1>1. Init => IInv /\ JInv
  BY InitEstablishes, InitEstablishesJ
<1>2. IInv /\ JInv /\ [Next]_vars => (IInv /\ JInv)'
  BY NextKeeps, NextKeepsJ
<1>3. IInv /\ JInv /\ [Next]_vars =>
        [\A s \in Symbols :
            /\ Has(tracker, s) /\ ~Has(tracker', s)
            /\ \/ pc["opener"] = "emergencyPoll" /\ pc'["opener"] = "idle"
               \/ pc["monitor"] = "expirePoll" /\ pc'["monitor"] \in {"expire", "sleep"}
            => live[s] = 0]_vars
  BY PollRemoves
<1>4. QED
  BY <1>1, <1>2, <1>3, PTL DEF Spec, PollRemovesOnlyFlat

----------------------------------------------------------------------------
(* The tracked stop.                                                       *)

\* A replacement placed for all that is held is kept by every step.
LEMMA NextKeepsReplacement ==
    ASSUME IInv, JInv, ReplacementRests, [Next]_vars, [PlacesForAll]_vars
    PROVE  ReplacementRests'
<1>1. CASE UNCHANGED vars
  <2>1. UNCHANGED <<tracker, pc, trl, live, exits, call>>
    BY <1>1 DEF vars, engineVars, localVars, exchangeVars
  <2>2. QED
    BY <2>1 DEF ReplacementRests, Replacing, Replacement, SameOpening, Ok
<1>2. CASE PlacesForAll
  BY <1>2, NextKeeps, StepIs, EngineKeepsReplacement, ExchangeKeepsReplacement
<1>3. QED
  BY <1>1, <1>2

\* Only the market and the trailer's cancellation take a stop from a position that is
\* not over its time, and the trailer's leaves the replacement.
LEMMA StopStays ==
    ASSUME IInv, JInv, ReplacementRests, [Next]_vars, NEW s \in Symbols,
           Committed(tracker, s), ~tracker[s].aged, live[s] > 0, live'[s] = live[s],
           StopCovers(s)
    PROVE  Stops(s)' # {}
<1>1. PICK o \in exits[s] : o.id = tracker[s].sl /\ o.qty >= live[s]
  BY DEF StopCovers
<1>2. /\ live[s] \in Nat /\ live'[s] \in Nat /\ o \in Order /\ o.id.leg = "sl" /\ o.id # NoExit
  <2>1. o \in Order /\ live[s] \in Nat
    BY DEF IInv, TypeOK, ExchangeTypeOK
  <2>2. o.id.leg \in {"sl", "none"}
    BY <1>1 DEF JInv, ExitsOfTheirLeg, Legs
  <2>3. QED
    BY <2>1, <2>2 DEF Order, ExitId, NoExit
<1> SUFFICES \E x \in exits'[s] : x.id.leg = "sl"
  BY DEF Stops
<1>3. CASE EngineStep
  BY <1>1, <1>2, <1>3 DEF EngineStep
<1>4. CASE UNCHANGED engineVars /\ Market
  <2>1. o \in exits'[s]
    BY <1>1, <1>2, <1>4, MarketIs DEF Filled
  <2>2. QED
    BY <1>2, <2>1
<1>5. ASSUME NEW p \in Procs, Serve(p)
      PROVE  \E x \in exits'[s] : x.id.leg = "sl"
  <2>1. CASE o \in exits'[s]
    BY <1>2, <2>1
  <2>2. CASE o \notin exits'[s]
    <3>1. call[p].op = "cancel" /\ call[p].sym = s /\ call[p].id = tracker[s].sl
      BY <1>1, <1>5, <2>2, ServeIs DEF Served, ExitsStay, Cancels
    <3>2. p # "opener"
      BY <1>1, <1>2, <3>1 DEF JInv, OpenerAsksOwn
    \* The time exit cancels stops of what is over its time only.
    <3>3. p # "monitor"
      <4>1. ASSUME p = "monitor"
            PROVE  /\ pc["monitor"] \in ClosingPcs /\ mon.cur.sym = s
                   /\ mon.cur.pos.sl = tracker[s].sl /\ mon.cur.pos.sl # NoExit
        BY <1>1, <1>2, <3>1, <4>1 DEF JInv, MonitorAsksOwn
      <4>2. ASSUME p = "monitor"
            PROVE  SameOpening(tracker, mon.cur)
        BY <4>1, <4>2 DEF JInv, StopTellsOpening, MonitorCopies
      <4>3. QED
        BY <4>1, <4>2 DEF JInv, ExpiredIsOver, StaysOver
    <3>4. p = "trailer" /\ s = trl.cur.sym
      BY <3>1, <3>2, <3>3, Constants DEF JInv, TrailerAsksOwn
    \* The replacement being rolled back is not the tracked stop.
    <3>5. pc["trailer"] = "trailCancel" /\ trl.cur.pos.sl = tracker[s].sl
      <4>1. pc["trailer"] = "trailRollback" => trl.id # tracker[s].sl
        BY DEF JInv, StopTellsOpening, TrailingPcs, Known
      <4>2. QED
        BY <3>1, <3>4, <4>1 DEF JInv, TrailerAsksOwn
    <3>6. SameOpening(tracker, trl.cur)
      BY <1>1, <1>2, <3>4, <3>5 DEF JInv, StopTellsOpening, TrailerCopies
    <3>7. Replacement \in exits[s]
      BY <3>4, <3>5, <3>6 DEF ReplacementRests, Replacing
    <3>8. /\ Replacement.id = trl.id /\ trl.id # tracker[s].sl /\ trl.id.leg = "sl"
      BY <3>5 DEF Replacement, JInv, StopTellsOpening, TrailingPcs, Known, IInv,
                  ReplacementIsLater, ExitsOfTheirLeg, Legs, ExitId
    <3>9. Replacement \in exits'[s]
      BY <1>5, <3>1, <3>7, <3>8, ServeIs DEF Served, ExitsStay, Cancels
    <3>10. QED
      BY <3>8, <3>9
  <2>3. QED
    BY <2>1, <2>2
<1>6. QED
  BY <1>3, <1>4, <1>5, StepIs DEF ExchangeStep

\* As long as a replacement is placed for all that is held, no step takes the last
\* stop from a live position whose tracked stop covers it.
THEOREM StopsAreKept == Spec /\ PlacedForAll => TrackedStopKept
<1>1. Init => IInv /\ JInv /\ ReplacementRests
  BY InitEstablishes, InitEstablishesJ
<1>2. IInv /\ JInv /\ ReplacementRests /\ [Next]_vars /\ [PlacesForAll]_vars
        => (IInv /\ JInv /\ ReplacementRests)'
  BY NextKeeps, NextKeepsJ, NextKeepsReplacement
<1>3. IInv /\ JInv /\ ReplacementRests /\ [Next]_vars =>
        [\A s \in Symbols :
            Committed(tracker, s) /\ Committed(tracker', s) /\ ~tracker[s].aged
                /\ live[s] > 0 /\ live'[s] = live[s] /\ StopCovers(s)
            => Stops(s)' # {}]_vars
  BY StopStays
<1>4. QED
  BY <1>1, <1>2, <1>3, PTL DEF Spec, PlacedForAll, TrackedStopKept
=============================================================================
