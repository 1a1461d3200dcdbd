-------------------------- MODULE PositionTracker --------------------------
(***************************************************************************)
(* engine::PositionTracker (src/src/engine/position_tracker.{h,cpp}): the  *)
(* mutex-protected map from a symbol to the position the bot believes it   *)
(* holds there.  Every method is one critical section, so each is an       *)
(* operator from a map to the map it leaves behind; the Boolean a method   *)
(* returns is a predicate on the map it is called on.                      *)
(*                                                                         *)
(* A map is a function on Symbols whose value is NoPos for a symbol that   *)
(* has no entry.  Prices, leverage and strategy names are left out;        *)
(* quantities are whole lots, and a time point is a stamp of the engine's  *)
(* clock, two reads of which never give the same stamp.                    *)
(***************************************************************************)
EXTENDS Naturals

CONSTANT Symbols

Stamp == Nat \ {0}

\* A client order id the engine makes up (makeExitClientOrderId): the leg it
\* protects and the time it was made.  NoExit is the empty string.
ExitId == [leg : {"tp", "sl"}, stamp : Stamp]
NoExit == [leg |-> "none", stamp |-> 0]

\* aged      maxHoldDuration is positive and has passed since openedAt
\* trails    trailingEnabled, with the settings TrailingStopController needs
\* leveled   currentTrailLevel > 0
TrackedPosition ==
    [openedAt : Stamp, qty : Nat, tp : ExitId \cup {NoExit},
     sl : ExitId \cup {NoExit}, inFlight : BOOLEAN, aged : BOOLEAN,
     trails : BOOLEAN, leveled : BOOLEAN]

NoPos ==
    [openedAt |-> 0, qty |-> 0, tp |-> NoExit, sl |-> NoExit,
     inFlight |-> FALSE, aged |-> FALSE, trails |-> FALSE, leveled |-> FALSE]

TrackerMap == [Symbols -> TrackedPosition \cup {NoPos}]
EmptyTracker == [s \in Symbols |-> NoPos]

Has(t, s) == t[s] # NoPos
Committed(t, s) == Has(t, s) /\ ~t[s].inFlight

----------------------------------------------------------------------------
(* Entries the engine builds.                                              *)

\* The mistake of a reservation that cannot be told from the one before it.
PendingUndated(now) == [NoPos EXCEPT !.inFlight = TRUE]

PendingAt(now) == [NoPos EXCEPT !.openedAt = now, !.inFlight = TRUE]

\* An entry rebuilt from an account snapshot knows neither its exits nor its
\* strategy, and is never trailed.
RecoveredAt(now, qty) == [NoPos EXCEPT !.openedAt = now, !.qty = qty]

----------------------------------------------------------------------------
(* Queries.                                                                *)

\* The mistake of handing out positions that are still being opened.
AllEntries(t) == {[sym |-> s, pos |-> t[s]] : s \in {r \in Symbols : Has(t, r)}}

\* all(): the entries that are not being opened, copied out of the map.
AllTracked(t) == {[sym |-> s, pos |-> t[s]] : s \in {r \in Symbols : Committed(t, r)}}

\* The mistake of leaving out what was rebuilt from a snapshot.
ExpiredUnlessRecovered(t) == {c \in AllTracked(t) : c.pos.aged /\ c.pos.tp # NoExit}

\* expired(now): the copies whose holding time is over.
ExpiredTracked(t) == {c \in AllTracked(t) : c.pos.aged}

\* The mistake of taking any entry of the symbol for the position copied out.
SameSymbol(t, c) == Has(t, c.sym)

\* bySymbol(sym) still shows the position that was copied out earlier.
SameOpening(t, c) == t[c.sym].openedAt = c.pos.openedAt

OwnsExit(pos, id) == id # NoExit /\ id \in {pos.tp, pos.sl}
AnyOwnsExit(t, id) == \E s \in Symbols : OwnsExit(t[s], id)

----------------------------------------------------------------------------
(* Updates.                                                                *)

LoadFromSnapshot(snap, now) ==
    [s \in Symbols |-> IF snap[s] > 0 THEN RecoveredAt(now, snap[s]) ELSE NoPos]

Reserve(t, s, now) == IF Has(t, s) THEN t ELSE [t EXCEPT ![s] = PendingAt(now)]

CommitReserved(t, s, pos) ==
    IF t[s].inFlight THEN [t EXCEPT ![s] = [pos EXCEPT !.inFlight = FALSE]] ELSE t

AddRecovered(t, s, now, qty) ==
    IF Has(t, s) THEN t ELSE [t EXCEPT ![s] = RecoveredAt(now, qty)]

Remove(t, s) == [t EXCEPT ![s] = NoPos]

\* The mistake the openedAt argument is there to prevent.
RemoveWhateverIsThere(t, c) == Remove(t, c.sym)

RemoveIfOpenedAt(t, c) == IF SameOpening(t, c) THEN Remove(t, c.sym) ELSE t

RemoveAllIfOpenedAt(t, copies) ==
    [s \in Symbols |->
        IF \E c \in copies : c.sym = s /\ SameOpening(t, c) THEN NoPos ELSE t[s]]

\* Client ids are unique, so at most one entry owns a given one.
RemoveByExitOrderClientId(t, id) ==
    [s \in Symbols |-> IF OwnsExit(t[s], id) THEN NoPos ELSE t[s]]

ApplyExitFillByClientId(t, id, delta) ==
    [s \in Symbols |->
        IF ~OwnsExit(t[s], id) THEN t[s]
        ELSE IF t[s].qty > delta THEN [t[s] EXCEPT !.qty = @ - delta]
        ELSE NoPos]

UpdateStopLoss(t, s, id, leveled) ==
    IF Committed(t, s) THEN [t EXCEPT ![s].sl = id, ![s].leveled = leveled] ELSE t

UpdateTakeProfit(t, s, id) == IF Committed(t, s) THEN [t EXCEPT ![s].tp = id] ELSE t

ClearTakeProfit(t, s) == UpdateTakeProfit(t, s, NoExit)

\* refreshFromSnapshot and refreshPositionView, whose price and leverage are
\* left out.
RefreshFromSnapshot(t, s, qty) ==
    IF Committed(t, s) THEN [t EXCEPT ![s].qty = qty] ELSE t
=============================================================================
