---------------------------- MODULE SignalEngine ----------------------------
(***************************************************************************)
(* The life of a position in engine::SignalEngine                          *)
(* (src/src/engine/signal_engine.cpp).  Three coroutines run on a pool of  *)
(* two threads:                                                            *)
(*                                                                         *)
(*   "opener"   run(), then the scan loop: preflight, reserve the symbol,  *)
(*              open the position, place its exits, commit it              *)
(*   "monitor"  monitorTimeExit(): reconcile with the account, close what  *)
(*              has been held too long                                     *)
(*   "trailer"  monitorTrailingStops(): replace stops by tighter ones      *)
(*                                                                         *)
(* onUserDataEvent() runs beside them.  Each function starts with          *)
(* co_await dispatch(m_strand), but resumes on the pool after every later  *)
(* co_await, so the strand does not keep the coroutines apart: the code    *)
(* between two awaits is one action, and anything may happen while a       *)
(* request is out.  pc[p] names the await coroutine p stands at; its       *)
(* request and the answer are in call[p] (Exchange).                       *)
(***************************************************************************)
EXTENDS Exchange

CONSTANTS
    OpenQty,        \* lots of one opening
    TakeProfits,    \* the values shouldPlaceFixedTakeProfit may have
    StopLosses,     \* the values m_config.placeStopLoss may have
    Trailing,       \* m_config.monitorTrailingStops, and the strategy trails
    MaxHold,        \* maxHoldDuration > 0
    MaxOpens,       \* bound: openings the scan attempts
    MaxTrails,      \* bound: replacement stops placed
    MaxCrashes      \* bound: restarts of the process

ASSUME SignalEngineAssumption ==
    /\ Procs = {"opener", "monitor", "trailer"}
    /\ Symbols # {}
    /\ OpenQty \in Nat \ {0}
    /\ TakeProfits \in SUBSET BOOLEAN /\ StopLosses \in SUBSET BOOLEAN
    /\ Trailing \in BOOLEAN /\ MaxHold \in BOOLEAN
    /\ {MaxOpens, MaxTrails, MaxCrashes} \subseteq Nat

VARIABLES
    tracker,    \* m_tracker
    cooldown,   \* symbols in m_externalCloseCooldownUntil, not over yet
    clock,      \* the last stamp of the system clock
    placeStopLoss,  \* the engine's setting, fixed from the start
    pc,         \* the await each coroutine stands at
    op,         \* locals of openPositionFromPreflight
    mon,        \* locals of monitorTimeExit and what it calls
    trl,        \* locals of processTrailingStops
    opens, trails, crashes      \* counted against the bounds

localVars == <<op, mon, trl>>
boundVars == <<opens, trails, crashes>>
fixedVars == <<placeStopLoss, boundVars>>
engineVars == <<tracker, cooldown, clock, pc, localVars, fixedVars>>
vars == <<engineVars, exchangeVars>>
venueVars == <<live, exits, events, faults, externals>>

Copy == [sym : Symbols, pos : TrackedPosition \cup {NoPos}]
NoCopy == [sym |-> AnySymbol, pos |-> NoPos]

Opening == [sym : Symbols, qty : Nat, tp : ExitId \cup {NoExit},
            sl : ExitId \cup {NoExit}, fixedTp : BOOLEAN, tpPlaced : BOOLEAN,
            leveled : BOOLEAN]
NewOpening(s) == [sym |-> s, qty |-> OpenQty, tp |-> NoExit, sl |-> NoExit,
                  fixedTp |-> FALSE, tpPlaced |-> FALSE, leveled |-> TRUE]
MonitorLocals == [snap : [Symbols -> Nat], todo : SUBSET Symbols,
                  expired : SUBSET Copy, cur : Copy]
TrailerLocals == [todo : SUBSET Copy, cur : Copy, id : ExitId \cup {NoExit}]
NoMon == [snap |-> NoVal, todo |-> {}, expired |-> {}, cur |-> NoCopy]
NoTrl == [todo |-> {}, cur |-> NoCopy, id |-> NoExit]

OpeningPcs == {"leverage", "market", "fillPoll", "tp", "sl", "undoTp",
               "emergencyClose", "emergencyPoll"}
OpenerPcs == {"boot", "bootSnapshot", "idle", "preflight", "lateClose"} \cup OpeningPcs
MonitorPcs == {"off", "sleep", "snapshot", "reconcile", "forcedClose", "expire",
               "expirePoll", "expireClose", "expireCancelTp", "expireCancelSl"}
TrailerPcs == {"off", "sleep", "trail", "trailPlace", "trailCancel", "trailRollback"}

Booting == [p \in Procs |-> IF p = "opener" THEN "boot" ELSE "off"]

Init ==
    /\ ExchangeInit
    /\ tracker = EmptyTracker
    /\ cooldown = {}
    /\ clock = 0
    /\ placeStopLoss \in StopLosses
    /\ pc = Booting
    /\ op = NewOpening(AnySymbol)
    /\ mon = NoMon
    /\ trl = NoTrl
    /\ opens = 0 /\ trails = 0 /\ crashes = 0

----------------------------------------------------------------------------
(* Suspending a coroutine.                                                 *)

\* co_await a request: the coroutine is back at pc `at' with its answer.
Await(p, at, request) ==
    /\ pc' = [pc EXCEPT ![p] = at]
    /\ call' = [call EXCEPT ![p] = request]

\* Go on at pc `at' without asking for anything.
Goto(p, at) == Await(p, at, NoCall)

AccountSnapshot == Request("snapshot", AnySymbol, NoExit, 0)
PositionOf(s) == Request("snapshot", s, NoExit, 0)
CloseByMarket(s, qty) == Request("close", s, NoExit, qty)
PlaceExit(s, id, qty) == Request("place", s, id, qty)
CancelExit(s, id) == Request("cancel", s, id, 0)

Resumes(p, at) == pc[p] = at /\ Answered(p)

\* makeExitClientOrderId, and every other reading of the system clock.
now == clock + 1
ClockTicks == clock' = now

----------------------------------------------------------------------------
(* run(): start up, then scan.                                             *)

Boot ==
    /\ pc["opener"] = "boot"
    /\ Await("opener", "bootSnapshot", AccountSnapshot)
    /\ UNCHANGED <<tracker, cooldown, clock, localVars, fixedVars, venueVars>>

\* Without a snapshot the engine starts with an empty tracker.  The boot-time
\* reconcileTrackedPositions finds the tracker it has just loaded.
BootSnapshot ==
    /\ Resumes("opener", "bootSnapshot")
    /\ IF Ok("opener")
       THEN tracker' = LoadFromSnapshot(call["opener"].val, now) /\ ClockTicks
       ELSE UNCHANGED <<tracker, clock>>
    /\ pc' = [p \in Procs |-> IF p = "opener" THEN "idle"
                              ELSE IF p = "trailer" /\ ~Trailing THEN "off" ELSE "sleep"]
    /\ call' = [call EXCEPT !["opener"] = NoCall]
    /\ UNCHANGED <<cooldown, localVars, fixedVars, venueVars>>

\* A strategy signals on s, and processItem lets it through to the preflight.
Signal(s) ==
    /\ pc["opener"] = "idle" /\ opens < MaxOpens
    /\ ~Has(tracker, s)
    /\ s \notin cooldown
    /\ \E fixedTp \in TakeProfits : op' = [NewOpening(s) EXCEPT !.fixedTp = fixedTp]
    /\ opens' = opens + 1
    /\ Goto("opener", "preflight")
    /\ UNCHANGED <<tracker, cooldown, clock, mon, trl, placeStopLoss, trails, crashes,
                   venueVars>>

\* One of the gates of preflightOpenPositionInternal says no: sizing, order
\* cap, exposure, risk, Gemini or the backtest.
PreflightBlocks ==
    /\ pc["opener"] = "preflight"
    /\ Goto("opener", "idle")
    /\ UNCHANGED <<tracker, cooldown, clock, localVars, fixedVars, venueVars>>

----------------------------------------------------------------------------
(* openPositionFromPreflight().                                            *)

DropOpening ==
    /\ tracker' = Remove(tracker, op.sym)
    /\ Goto("opener", "idle")
    /\ UNCHANGED <<op, clock>>

ReserveSymbol ==
    /\ pc["opener"] = "preflight"
    /\ IF Has(tracker, op.sym)
       THEN Goto("opener", "idle") /\ UNCHANGED <<tracker, clock>>
       ELSE /\ tracker' = Reserve(tracker, op.sym, now)
            /\ ClockTicks
            /\ Await("opener", "leverage", Request("leverage", op.sym, NoExit, 0))
    /\ UNCHANGED <<cooldown, localVars, fixedVars, venueVars>>

\* The mistake of leaving the opening without taking its reservation back.
LeverageFailureLeaks ==
    /\ Resumes("opener", "leverage")
    /\ IF Ok("opener")
       THEN Await("opener", "market", Request("market", op.sym, NoExit, OpenQty))
       ELSE Goto("opener", "idle")
    /\ UNCHANGED <<tracker, op, clock, cooldown, mon, trl, fixedVars, venueVars>>

LeverageSet ==
    /\ Resumes("opener", "leverage")
    /\ IF Ok("opener")
       THEN /\ Await("opener", "market", Request("market", op.sym, NoExit, OpenQty))
            /\ UNCHANGED <<tracker, op, clock>>
       ELSE DropOpening
    /\ UNCHANGED <<cooldown, mon, trl, fixedVars, venueVars>>

\* The entry openPositionFromPreflight commits, as things stand in o.
Opened(o) ==
    [openedAt |-> now, qty |-> o.qty, tp |-> o.tp, sl |-> o.sl, inFlight |-> FALSE,
     aged |-> FALSE, trails |-> Trailing, leveled |-> o.leveled]

\* commitEmergencyTracked: whatever exits were asked for so far are kept.
CommitEmergency(o) ==
    /\ tracker' = IF tracker[o.sym].inFlight
                  THEN CommitReserved(tracker, o.sym, Opened(o))
                  ELSE Remove(tracker, o.sym)
    /\ ClockTicks
    /\ Goto("opener", "idle")
    /\ op' = o

CommitOpening(o) ==
    /\ op' = o
    /\ ClockTicks
    /\ IF tracker[o.sym].inFlight
       THEN /\ tracker' = CommitReserved(tracker, o.sym, Opened(o))
            /\ Goto("opener", "idle")
       ELSE /\ Await("opener", "lateClose", CloseByMarket(o.sym, o.qty))
            /\ UNCHANGED tracker

\* closeAndVerifyFlat, first half.
EmergencyClose(o) ==
    /\ op' = o
    /\ Await("opener", "emergencyClose", CloseByMarket(o.sym, o.qty))
    /\ UNCHANGED <<tracker, clock>>

\* A price that cannot be put on the tick grid; counted as a fault.
PriceFails == faults < MaxFaults /\ faults' = faults + 1
PriceFits == UNCHANGED faults

UndoTakeProfit(o) ==
    IF o.tpPlaced
    THEN /\ op' = o
         /\ Await("opener", "undoTp", CancelExit(o.sym, o.tp))
         /\ UNCHANGED <<tracker, clock>>
    ELSE EmergencyClose(o)

EnterStopLoss(o) ==
    \/ ~placeStopLoss /\ PriceFits /\ CommitOpening(o)
    \/ /\ placeStopLoss /\ PriceFits
       /\ LET id == [leg |-> "sl", stamp |-> now] IN
          /\ op' = [o EXCEPT !.sl = id]
          /\ Await("opener", "sl", PlaceExit(o.sym, id, o.qty))
       /\ ClockTicks
       /\ UNCHANGED tracker
    \/ /\ placeStopLoss /\ PriceFails
       /\ \E leveled \in BOOLEAN : UndoTakeProfit([o EXCEPT !.leveled = leveled])

EnterTakeProfit(o) ==
    \/ ~o.fixedTp /\ EnterStopLoss(o)
    \/ /\ o.fixedTp /\ PriceFits
       /\ LET id == [leg |-> "tp", stamp |-> now] IN
          /\ op' = [o EXCEPT !.tp = id]
          /\ Await("opener", "tp", PlaceExit(o.sym, id, o.qty))
       /\ ClockTicks
       /\ UNCHANGED tracker
    \/ o.fixedTp /\ PriceFails /\ EmergencyClose(o)

openerRest == <<cooldown, mon, trl, fixedVars, live, exits, events, externals>>

\* The executed quantity of the market order is what gets protected.  When it
\* is not reported, up to three snapshots are tried; one stands for them.
MarketDone ==
    /\ Resumes("opener", "market")
    /\ LET executed == call["opener"].val[op.sym] IN
       IF ~Ok("opener") THEN DropOpening /\ UNCHANGED faults
       ELSE IF executed > 0 THEN EnterTakeProfit([op EXCEPT !.qty = executed])
       ELSE /\ Await("opener", "fillPoll", PositionOf(op.sym))
            /\ UNCHANGED <<tracker, op, clock, faults>>
    /\ UNCHANGED openerRest

FillPolled ==
    /\ Resumes("opener", "fillPoll")
    /\ LET held == call["opener"].val[op.sym] IN
       EnterTakeProfit([op EXCEPT !.qty = IF Ok("opener") /\ held > 0 THEN held ELSE @])
    /\ UNCHANGED openerRest

TakeProfitPlaced ==
    /\ Resumes("opener", "tp")
    /\ IF Ok("opener") THEN EnterStopLoss([op EXCEPT !.tpPlaced = TRUE])
       ELSE EmergencyClose(op) /\ UNCHANGED faults
    /\ UNCHANGED openerRest

StopLossPlaced ==
    /\ Resumes("opener", "sl")
    /\ IF Ok("opener") THEN CommitOpening(op) ELSE UndoTakeProfit(op)
    /\ UNCHANGED <<openerRest, faults>>

TakeProfitUndone ==
    /\ Resumes("opener", "undoTp")
    /\ EmergencyClose(op)
    /\ UNCHANGED <<openerRest, faults>>

\* After closeByMarket: closeAndVerifyFlat asks for the position; the close of
\* an opening that could not be committed asks nothing.
OpenerCloseReturns ==
    /\ pc["opener"] \in {"emergencyClose", "lateClose"} /\ Answered("opener")
    /\ IF pc["opener"] = "lateClose" THEN DropOpening
       ELSE IF Ok("opener")
       THEN /\ Await("opener", "emergencyPoll", PositionOf(op.sym))
            /\ UNCHANGED <<tracker, op, clock>>
       ELSE CommitEmergency(op)
    /\ UNCHANGED <<openerRest, faults>>

EmergencyVerified ==
    /\ Resumes("opener", "emergencyPoll")
    /\ IF Ok("opener") /\ call["opener"].val[op.sym] = 0
       THEN DropOpening ELSE CommitEmergency(op)
    /\ UNCHANGED <<openerRest, faults>>

OpenerContinues ==
    \/ Boot \/ BootSnapshot \/ PreflightBlocks \/ ReserveSymbol \/ LeverageSet
    \/ MarketDone \/ FillPolled \/ TakeProfitPlaced \/ StopLossPlaced
    \/ TakeProfitUndone \/ OpenerCloseReturns \/ EmergencyVerified

----------------------------------------------------------------------------
(* monitorTimeExit() and reconcileTrackedPositions().                      *)

monitorRest == <<cooldown, op, trl, fixedVars, venueVars>>

\* Go on with the expired positions that are left, or go back to sleep.
ExpireFrom(expired) ==
    /\ mon' = [NoMon EXCEPT !.expired = expired]
    /\ Goto("monitor", IF expired = {} THEN "sleep" ELSE "expire")

\* Go on with the live symbols that are left, then with what has expired.
ReconcileFrom(snap, todo) ==
    IF todo = {} THEN ExpireFrom(ExpiredTracked(tracker'))
    ELSE /\ mon' = [NoMon EXCEPT !.snap = snap, !.todo = todo]
         /\ Goto("monitor", "reconcile")

MonitorWakes ==
    /\ pc["monitor"] = "sleep"
    /\ Await("monitor", "snapshot", AccountSnapshot)
    /\ UNCHANGED <<tracker, clock, mon, monitorRest>>

\* The loop that removes entries reads the tracker and writes it with no await
\* in between; the snapshot is as old as the request.
MonitorSnapshot ==
    /\ Resumes("monitor", "snapshot")
    /\ LET snap == call["monitor"].val
           gone == {c \in AllTracked(tracker) : snap[c.sym] = 0}
       IN IF Ok("monitor")
          THEN /\ tracker' = RemoveAllIfOpenedAt(tracker, gone)
               /\ ReconcileFrom(snap, {s \in Symbols : snap[s] > 0})
          ELSE UNCHANGED <<tracker, mon>> /\ Goto("monitor", "sleep")
    /\ UNCHANGED <<clock, monitorRest>>

\* The mistake of looking only at the symbols that have an entry.
ReconcileTrackedOnly(s) ==
    /\ pc["monitor"] = "reconcile" /\ s \in mon.todo
    /\ tracker' = RefreshFromSnapshot(tracker, s, mon.snap[s])
    /\ ReconcileFrom(mon.snap, mon.todo \ {s})
    /\ UNCHANGED <<clock, monitorRest>>

\* A live position nobody tracks is closed when stops are required, and adopted
\* otherwise; a tracked one takes the quantity of the snapshot.
ReconcileSymbol(s) ==
    /\ pc["monitor"] = "reconcile" /\ s \in mon.todo
    /\ IF Has(tracker, s)
       THEN /\ tracker' = RefreshFromSnapshot(tracker, s, mon.snap[s])
            /\ ReconcileFrom(mon.snap, mon.todo \ {s})
            /\ UNCHANGED clock
       ELSE IF placeStopLoss
       THEN /\ mon' = [mon EXCEPT !.todo = @ \ {s}]
            /\ Await("monitor", "forcedClose", CloseByMarket(s, mon.snap[s]))
            /\ UNCHANGED <<tracker, clock>>
       ELSE /\ tracker' = AddRecovered(tracker, s, now, mon.snap[s])
            /\ ReconcileFrom(mon.snap, mon.todo \ {s})
            /\ ClockTicks
    /\ UNCHANGED monitorRest

\* closeByMarket reports even a rejected order as a value, so the reconciler
\* goes on to the next symbol whatever came of it.
ForcedCloseReturns ==
    /\ Resumes("monitor", "forcedClose")
    /\ UNCHANGED tracker
    /\ ReconcileFrom(mon.snap, mon.todo)
    /\ UNCHANGED <<clock, monitorRest>>

----------------------------------------------------------------------------
(* processExpiredPositions().                                              *)

ExpireNext(c) ==
    /\ pc["monitor"] = "expire" /\ c \in mon.expired
    /\ IF SameOpening(tracker, c)
       THEN /\ mon' = [mon EXCEPT !.expired = @ \ {c}, !.cur = c]
            /\ Await("monitor", "expirePoll", PositionOf(c.sym))
       ELSE ExpireFrom(mon.expired \ {c})
    /\ UNCHANGED <<tracker, clock, monitorRest>>

Forget(c) ==
    /\ tracker' = RemoveIfOpenedAt(tracker, c)
    /\ ExpireFrom(mon.expired)

ExpirePolled ==
    /\ Resumes("monitor", "expirePoll")
    /\ LET c == mon.cur
           held == call["monitor"].val[c.sym]
       IN IF Ok("monitor") /\ held = 0
          THEN Forget(c)
          ELSE /\ Await("monitor", "expireClose",
                        CloseByMarket(c.sym, IF held > 0 THEN held ELSE c.pos.qty))
               /\ UNCHANGED <<tracker, mon>>
    /\ UNCHANGED <<clock, monitorRest>>

CancelStopAndForget(c) ==
    IF c.pos.sl # NoExit
    THEN /\ Await("monitor", "expireCancelSl", CancelExit(c.sym, c.pos.sl))
         /\ UNCHANGED <<tracker, mon>>
    ELSE Forget(c)

CancelExitsAndForget(c) ==
    IF c.pos.tp # NoExit
    THEN /\ Await("monitor", "expireCancelTp", CancelExit(c.sym, c.pos.tp))
         /\ UNCHANGED <<tracker, mon>>
    ELSE CancelStopAndForget(c)

\* closeSucceeded is closeResult.has_value(), true of every answer.
ExpireCloseReturns ==
    /\ Resumes("monitor", "expireClose")
    /\ CancelExitsAndForget(mon.cur)
    /\ UNCHANGED <<clock, monitorRest>>

ExpireTpCancelled ==
    /\ Resumes("monitor", "expireCancelTp")
    /\ CancelStopAndForget(mon.cur)
    /\ UNCHANGED <<clock, monitorRest>>

ExpireSlCancelled ==
    /\ Resumes("monitor", "expireCancelSl")
    /\ Forget(mon.cur)
    /\ UNCHANGED <<clock, monitorRest>>

MonitorStep ==
    \/ MonitorWakes \/ MonitorSnapshot \/ ForcedCloseReturns
    \/ ExpirePolled \/ ExpireCloseReturns \/ ExpireTpCancelled \/ ExpireSlCancelled
    \/ \E s \in mon.todo : ReconcileSymbol(s)
    \/ \E c \in mon.expired : ExpireNext(c)

----------------------------------------------------------------------------
(* processTrailingStops().                                                 *)

trailerRest == <<cooldown, op, mon, placeStopLoss, opens, crashes, venueVars>>

\* Go on with the copies that are left, or go back to sleep.
TrailFrom(todo) ==
    /\ trl' = [NoTrl EXCEPT !.todo = todo]
    /\ Goto("trailer", IF todo = {} THEN "sleep" ELSE "trail")

TrailerWakes ==
    /\ pc["trailer"] = "sleep"
    /\ TrailFrom(AllTracked(tracker))
    /\ UNCHANGED <<tracker, clock, trails, trailerRest>>

\* No entry of that opening any more, no candle closed since the last look, no
\* move in the position's favour, or no known stop to replace.
TrailSkips(c) ==
    /\ pc["trailer"] = "trail" /\ c \in trl.todo
    /\ TrailFrom(trl.todo \ {c})
    /\ UNCHANGED <<tracker, clock, trails, trailerRest>>

KnowsStop(pos) == pos.sl # NoExit

TrailPlaces(c) ==
    /\ pc["trailer"] = "trail" /\ c \in trl.todo /\ trails < MaxTrails
    /\ SameOpening(tracker, c)
    /\ c.pos.trails
    /\ KnowsStop(c.pos) \/ ~c.pos.leveled
    /\ LET id == [leg |-> "sl", stamp |-> now] IN
       /\ trl' = [todo |-> trl.todo \ {c}, cur |-> c, id |-> id]
       /\ Await("trailer", "trailPlace", PlaceExit(c.sym, id, c.pos.qty))
    /\ ClockTicks
    /\ trails' = trails + 1
    /\ UNCHANGED <<tracker, trailerRest>>

\* The mistake of trusting the copy taken before the awaits.
RecordStopUnchecked(c) ==
    tracker' = UpdateStopLoss(tracker, c.sym, trl.id, TRUE)

RecordStop(c) ==
    tracker' = IF SameOpening(tracker, c)
               THEN UpdateStopLoss(tracker, c.sym, trl.id, TRUE) ELSE tracker

\* The mistake of cancelling the old stop whatever became of the new one.
TrailPlacedUnchecked ==
    /\ Resumes("trailer", "trailPlace")
    /\ Await("trailer", "trailCancel", CancelExit(trl.cur.sym, trl.cur.pos.sl))
    /\ UNCHANGED <<tracker, trl, clock, trails, trailerRest>>

TrailPlaced ==
    /\ Resumes("trailer", "trailPlace")
    /\ IF Ok("trailer") /\ KnowsStop(trl.cur.pos)
       THEN /\ Await("trailer", "trailCancel", CancelExit(trl.cur.sym, trl.cur.pos.sl))
            /\ UNCHANGED <<tracker, trl>>
       ELSE /\ IF Ok("trailer") THEN RecordStop(trl.cur) ELSE UNCHANGED tracker
            /\ TrailFrom(trl.todo)
    /\ UNCHANGED <<clock, trails, trailerRest>>

\* The mistake of cancelling the old stop once more when it could not be cancelled.
TrailCancelledAgain ==
    /\ Resumes("trailer", "trailCancel")
    /\ IF Ok("trailer")
       THEN /\ RecordStop(trl.cur)
            /\ TrailFrom(trl.todo)
       ELSE /\ Await("trailer", "trailRollback", CancelExit(trl.cur.sym, trl.cur.pos.sl))
            /\ UNCHANGED <<tracker, trl>>
    /\ UNCHANGED <<clock, trails, trailerRest>>

TrailCancelled ==
    /\ Resumes("trailer", "trailCancel")
    /\ IF Ok("trailer")
       THEN /\ RecordStop(trl.cur)
            /\ TrailFrom(trl.todo)
       ELSE /\ Await("trailer", "trailRollback", CancelExit(trl.cur.sym, trl.id))
            /\ UNCHANGED <<tracker, trl>>
    /\ UNCHANGED <<clock, trails, trailerRest>>

TrailRolledBack ==
    /\ Resumes("trailer", "trailRollback")
    /\ TrailFrom(trl.todo)
    /\ UNCHANGED <<tracker, clock, trails, trailerRest>>

TrailerStep ==
    \/ TrailerWakes \/ TrailPlaced \/ TrailCancelled \/ TrailRolledBack
    \/ \E c \in trl.todo : TrailSkips(c) \/ TrailPlaces(c)

----------------------------------------------------------------------------
(* onUserDataEvent(), time, and restarts.                                  *)

\* A fill of an exit order somebody tracks shrinks or removes the entry; any
\* other reduce-only fill puts the symbol on cooldown.
OnUserDataEvent ==
    /\ events # <<>>
    /\ LET e == Head(events) IN
       IF AnyOwnsExit(tracker, e.id)
       THEN /\ tracker' = IF e.filled THEN RemoveByExitOrderClientId(tracker, e.id)
                          ELSE ApplyExitFillByClientId(tracker, e.id, e.qty)
            /\ UNCHANGED cooldown
       ELSE cooldown' = cooldown \cup {e.sym} /\ UNCHANGED tracker
    /\ events' = Tail(events)
    /\ UNCHANGED <<clock, pc, localVars, fixedVars, live, exits, call, faults, externals>>

CooldownEnds(s) ==
    /\ s \in cooldown
    /\ cooldown' = cooldown \ {s}
    /\ UNCHANGED <<tracker, clock, pc, localVars, fixedVars, exchangeVars>>

HoldTimePasses(s) ==
    /\ MaxHold
    /\ Committed(tracker, s) /\ ~tracker[s].aged
    /\ tracker' = [tracker EXCEPT ![s].aged = TRUE]
    /\ UNCHANGED <<cooldown, clock, pc, localVars, fixedVars, exchangeVars>>

\* The process dies and is started again; nothing of the engine is persisted.
Crash ==
    /\ crashes < MaxCrashes
    /\ crashes' = crashes + 1
    /\ tracker' = EmptyTracker
    /\ cooldown' = {}
    /\ pc' = Booting
    /\ op' = NewOpening(AnySymbol) /\ mon' = NoMon /\ trl' = NoTrl
    /\ call' = [p \in Procs |-> NoCall]
    /\ events' = <<>>
    /\ UNCHANGED <<clock, placeStopLoss, opens, trails, live, exits, faults, externals>>

Environment ==
    \/ (Market \/ \E p \in Procs : Serve(p)) /\ UNCHANGED engineVars
    \/ OnUserDataEvent
    \/ \E s \in Symbols : CooldownEnds(s) \/ HoldTimePasses(s)
    \/ Crash

Next ==
    \/ \E s \in Symbols : Signal(s)
    \/ OpenerContinues \/ MonitorStep \/ TrailerStep
    \/ Environment

Spec == Init /\ [][Next]_vars

\* io_context never starves a ready coroutine, every request is answered or
\* times out, and time passes.  Nothing obliges a strategy to signal.
Fairness ==
    /\ WF_vars(OpenerContinues) /\ WF_vars(MonitorStep)
    /\ \A p \in Procs : WF_vars(Serve(p) /\ UNCHANGED engineVars)
    /\ \A s \in Symbols : WF_vars(HoldTimePasses(s))

FairSpec == Spec /\ Fairness

----------------------------------------------------------------------------
(* Properties.                                                             *)

TypeOK ==
    /\ ExchangeTypeOK
    /\ tracker \in TrackerMap
    /\ cooldown \subseteq Symbols
    /\ clock \in Nat
    /\ placeStopLoss \in BOOLEAN
    /\ pc \in [Procs -> OpenerPcs \cup MonitorPcs \cup TrailerPcs]
    /\ pc["opener"] \in OpenerPcs /\ pc["monitor"] \in MonitorPcs
    /\ pc["trailer"] \in TrailerPcs
    /\ op \in Opening /\ mon \in MonitorLocals /\ trl \in TrailerLocals
    /\ opens \in 0 .. MaxOpens /\ trails \in 0 .. MaxTrails
    /\ crashes \in 0 .. MaxCrashes

\* A reservation belongs to the opening that made it, from reserve() to
\* commit or removal: nothing else removes, commits or replaces it, and no symbol
\* is left reserved by an opening that is over.
ReservationOwned ==
    \A s \in Symbols :
        tracker[s].inFlight <=> (pc["opener"] \in OpeningPcs /\ op.sym = s)

(* Why: the parts of an inductive invariant. *)

\* The commit at the end of openPositionFromPreflight finds the reservation.
CommitNeverFails == pc["opener"] # "lateClose"

\* Whoever places an order has made up an id for it.
PlacesKnownExit == \A p \in Procs : call[p].op = "place" => call[p].id \in ExitId

\* No entry and no copy of one was opened after the last reading of the clock.
MonitorCopies == mon.expired \cup {mon.cur}
TrailerCopies == trl.todo \cup {trl.cur}
NoneFromTheFuture ==
    /\ \A s \in Symbols : tracker[s].openedAt <= clock
    /\ \A c \in MonitorCopies : c.pos.openedAt <= clock
    /\ \A c \in TrailerCopies : c.pos.openedAt <= clock

\* So a reservation, stamped by a later reading, cannot be taken for the entry the
\* time exit or the trailing copied, and no exit fill can be charged to it.
ReservationIsApart ==
    \A s \in Symbols : tracker[s].inFlight =>
        /\ \A c \in MonitorCopies \cup TrailerCopies : c.sym = s => ~SameOpening(tracker, c)
        /\ tracker[s].tp = NoExit /\ tracker[s].sl = NoExit

\* A stop under way was made after the position it is meant for was opened.
TrailingPcs == {"trailPlace", "trailCancel", "trailRollback"}
ReplacementIsLater ==
    pc["trailer"] \in TrailingPcs =>
        trl.id \in ExitId /\ trl.id.stamp > trl.cur.pos.openedAt

IInv ==
    /\ TypeOK /\ PlacesKnownExit
    /\ ReservationOwned /\ CommitNeverFails
    /\ NoneFromTheFuture /\ ReservationIsApart /\ ReplacementIsLater

\* Whoever gives up an entry because a poll showed no position (time exit,
\* emergency close) does so while there is none, however old the answer is:
\* closing, refilling and reopening the symbol in the meantime are told apart.
PollRemovesOnlyFlat ==
    [][\A s \in Symbols :
        /\ Has(tracker, s) /\ ~Has(tracker', s)
        /\ \/ pc["opener"] = "emergencyPoll" /\ pc'["opener"] = "idle"
           \/ pc["monitor"] = "expirePoll" /\ pc'["monitor"] \in {"expire", "sleep"}
        => live[s] = 0]_vars

\* processTrailingStops works on a copy of the entry that is several awaits old.
\* The stop it records is one it made after the position it records it for was
\* opened: it never hangs the stop of a closed position on its successor.
LaterStop(s) ==
    Committed(tracker, s) /\ Committed(tracker', s)
        /\ tracker'[s].openedAt = tracker[s].openedAt
        /\ tracker'[s].sl # tracker[s].sl
    => tracker'[s].sl.stamp > tracker[s].openedAt
ReplacementOutlivesOpening == [][\A s \in Symbols : LaterStop(s)]_vars

Stops(s) == {o \in exits[s] : o.id.leg = "sl"}
StopCovers(s) == \E o \in exits[s] : o.id = tracker[s].sl /\ o.qty >= live[s]

\* As long as a replacement is placed for all that is held (PlacedForAll), no step
\* of the engine takes the last stop away from a tracked live position whose
\* tracked stop covers it and whose holding time is not over: a replacement rests
\* before its predecessor is cancelled, and is the one that goes when the
\* predecessor cannot be cancelled.
TrackedStopKept ==
    [][\A s \in Symbols :
        Committed(tracker, s) /\ Committed(tracker', s) /\ ~tracker[s].aged
            /\ live[s] > 0 /\ live'[s] = live[s] /\ StopCovers(s)
        => Stops(s)' # {}]_vars

\* The quantity processTrailingStops copied some awaits ago is no less than what is
\* held when the replacement is sent.
PlacesForAll == \A c \in trl.todo : TrailPlaces(c) => live[c.sym] <= c.pos.qty
PlacedForAll == [][PlacesForAll]_vars

(* Why: the parts of an invariant that grows on IInv.                      *)

\* A coroutine that waits to start asks for nothing.
BootsAlone ==
    pc["opener"] \in {"boot", "bootSnapshot"} => pc["monitor"] = "off" /\ pc["trailer"] = "off"

\* Each exit is known by an id of its own leg, made by a reading of the clock.
ExpectsFill == OpeningPcs \cup {"preflight"}
Legs(tp, sl) == tp.leg \in {"tp", "none"} /\ sl.leg \in {"sl", "none"} /\ sl.stamp <= clock
ExitsOfTheirLeg ==
    /\ \A s \in Symbols : Legs(tracker[s].tp, tracker[s].sl)
    /\ \A c \in MonitorCopies \cup TrailerCopies : Legs(c.pos.tp, c.pos.sl)
    /\ pc["opener"] \in ExpectsFill => Legs(op.tp, op.sl)
    /\ pc["trailer"] \in TrailingPcs => Legs(NoExit, trl.id)

\* What the request a coroutine has out is about: no stop is cancelled but the one
\* the monitor or the trailer copied, or the replacement of it.
ClosingPcs == {"expirePoll", "expireClose", "expireCancelTp", "expireCancelSl"}
OpenerAsksOwn ==
    LET r == call["opener"] IN
    /\ r.op = "cancel" => r.id.leg # "sl"
    /\ r.op = "market" => pc["opener"] = "market" /\ r.sym = op.sym
    /\ pc["opener"] = "emergencyPoll" => r.op = "snapshot"
MonitorAsksOwn ==
    LET r == call["monitor"] IN
    /\ r.op = "cancel" =>
        /\ pc["monitor"] \in ClosingPcs /\ r.sym = mon.cur.sym
        /\ r.id.leg = "sl" => r.id = mon.cur.pos.sl
    /\ r.op # "market"
    /\ pc["monitor"] = "expirePoll" => r.op = "snapshot"
TrailerAsksOwn ==
    LET r == call["trailer"] IN
    /\ r.op = "cancel" =>
        /\ r.sym = trl.cur.sym
        /\ \/ pc["trailer"] = "trailCancel" /\ r.id = trl.cur.pos.sl
           \/ pc["trailer"] = "trailRollback" /\ r.id = trl.id
    /\ r.op # "market"
    /\ pc["trailer"] = "trailPlace" =>
        r.op = "place" /\ r.sym = trl.cur.sym /\ r.id = trl.id /\ r.qty = trl.cur.pos.qty

\* What the time exit copied is over its time as long as it is the same opening.
StaysOver(c) == c.pos.openedAt # 0 /\ (SameOpening(tracker, c) => tracker[c.sym].aged)
ExpiredIsOver ==
    /\ \A c \in mon.expired : StaysOver(c)
    /\ pc["monitor"] \in ClosingPcs => StaysOver(mon.cur)
    /\ \A c \in trl.todo : c.pos.openedAt # 0
    /\ pc["trailer"] \in TrailingPcs => trl.cur.pos.openedAt # 0

\* A stop an entry shares with a copy makes them the same opening; the stops being
\* placed are in no entry, no copy, and not in each other's hands.
Known(id) ==
    \/ \E s \in Symbols : tracker[s].sl = id
    \/ \E c \in MonitorCopies \cup TrailerCopies : c.pos.sl = id
StopTellsOpening ==
    /\ \A c \in MonitorCopies \cup TrailerCopies :
        c.pos.sl # NoExit /\ tracker[c.sym].sl = c.pos.sl => SameOpening(tracker, c)
    /\ pc["opener"] \in ExpectsFill /\ op.sl # NoExit => ~Known(op.sl)
    /\ pc["trailer"] \in TrailingPcs =>
        ~Known(trl.id) /\ (pc["opener"] \in ExpectsFill => trl.id # op.sl)

\* No position is bought under a poll: an answer that shows none is still right.
FlatAnswer(p, s) == Ok(p) /\ call[p].val[s] = 0
PollsHold ==
    /\ pc["opener"] = "emergencyPoll" /\ FlatAnswer("opener", op.sym) => live[op.sym] = 0
    /\ pc["monitor"] = "expirePoll" /\ FlatAnswer("monitor", mon.cur.sym)
            /\ SameOpening(tracker, mon.cur)
        => live[mon.cur.sym] = 0

JInv ==
    /\ BootsAlone /\ ExitsOfTheirLeg /\ OpenerAsksOwn /\ MonitorAsksOwn /\ TrailerAsksOwn
    /\ ExpiredIsOver /\ StopTellsOpening /\ PollsHold

\* A live position the engine does not track (an order that filled though it
\* was reported to have failed, a close that was rejected, an entry removed too
\* early, a restart) does not stay that way: it is closed or tracked in the end.
UntrackedIsResolved ==
    \A s \in Symbols :
        live[s] > 0 /\ ~Has(tracker, s) ~> live[s] = 0 \/ Has(tracker, s)

\* What has been held too long leaves the tracker, whatever fails on the way.
ExpiredLeaves ==
    \A s \in Symbols : tracker[s].aged ~> ~tracker[s].aged

\* A symbol is not reserved for ever: every opening commits, is undone or
\* ends as an emergency entry.
ReservationEnds ==
    \A s \in Symbols : tracker[s].inFlight ~> ~tracker[s].inFlight
=============================================================================
