----------------------- MODULE PositionTracker_proofs -----------------------
(***************************************************************************)
(* Lemmas about the methods of PositionTracker: the maps they return are   *)
(* typed, and most of them never touch an entry that is being opened.      *)
(***************************************************************************)
EXTENDS PositionTracker, TLAPS

\* From t to u nothing happened to a reservation, and what is new was opened at n.
Quiet(t, u, n) ==
    /\ u \in TrackerMap
    /\ \A s \in Symbols :
        /\ u[s].inFlight = t[s].inFlight
        /\ t[s].inFlight => u[s] = t[s]
        /\ u[s].openedAt \in {0, t[s].openedAt, n}

\* NoPos is no position, so Has tells the two apart by the stamp.
LEMMA NoPosIsApart ==
    /\ NoPos \notin TrackedPosition
    /\ NoPos.openedAt = 0 /\ NoPos.inFlight = FALSE
    /\ NoPos.tp = NoExit /\ NoPos.sl = NoExit /\ NoPos.qty = 0
  BY DEF NoPos, TrackedPosition, Stamp

\* Every value of a map has the fields of an entry.
LEMMA EntryFields ==
    ASSUME NEW t \in TrackerMap, NEW s \in Symbols
    PROVE  /\ t[s] \in TrackedPosition \cup {NoPos}
           /\ t[s].openedAt \in Nat /\ t[s].qty \in Nat
           /\ t[s].tp \in ExitId \cup {NoExit} /\ t[s].sl \in ExitId \cup {NoExit}
           /\ t[s].inFlight \in BOOLEAN /\ t[s].aged \in BOOLEAN
           /\ t[s].trails \in BOOLEAN /\ t[s].leveled \in BOOLEAN
           /\ Has(t, s) <=> t[s].openedAt # 0
           /\ Has(t, s) <=> t[s] \in TrackedPosition
<1>1. t[s] \in TrackedPosition \cup {NoPos}
  BY DEF TrackerMap
<1>2. CASE t[s] = NoPos
  BY <1>2, NoPosIsApart DEF NoPos, Has
<1>3. CASE t[s] \in TrackedPosition
  BY <1>3, NoPosIsApart DEF TrackedPosition, Stamp, Has
<1>4. QED
  BY <1>1, <1>2, <1>3

\* What reserve and the snapshot put into a map is an entry stamped with the time.
LEMMA BuiltEntries ==
    ASSUME NEW now \in Stamp, NEW qty \in Nat
    PROVE  /\ PendingAt(now) \in TrackedPosition
           /\ PendingAt(now).openedAt = now /\ PendingAt(now).inFlight
           /\ PendingAt(now).tp = NoExit /\ PendingAt(now).sl = NoExit
           /\ RecoveredAt(now, qty) \in TrackedPosition
           /\ RecoveredAt(now, qty).openedAt = now
           /\ ~RecoveredAt(now, qty).inFlight
  BY DEF PendingAt, RecoveredAt, TrackedPosition, NoPos

\* A fresh tracker is a map without entries.
LEMMA EmptyIsTyped ==
    /\ EmptyTracker \in TrackerMap
    /\ \A s \in Symbols : EmptyTracker[s] = NoPos
  BY DEF EmptyTracker, TrackerMap

\* loadFromSnapshot leaves committed entries only, all of them stamped now.
LEMMA LoadIsTyped ==
    ASSUME NEW snap \in [Symbols -> Nat], NEW now \in Stamp
    PROVE  /\ LoadFromSnapshot(snap, now) \in TrackerMap
           /\ \A s \in Symbols : /\ LoadFromSnapshot(snap, now)[s].openedAt \in {0, now}
                                 /\ ~LoadFromSnapshot(snap, now)[s].inFlight
  BY BuiltEntries, NoPosIsApart DEF LoadFromSnapshot, TrackerMap

\* remove takes one entry away and leaves the others.
LEMMA RemoveIsTyped ==
    ASSUME NEW t \in TrackerMap, NEW s \in Symbols
    PROVE  /\ Remove(t, s) \in TrackerMap
           /\ \A r \in Symbols : Remove(t, s)[r] = IF r = s THEN NoPos ELSE t[r]
  BY DEF Remove, TrackerMap

\* reserve puts a pending entry where nothing was.
LEMMA ReserveIsTyped ==
    ASSUME NEW t \in TrackerMap, NEW s \in Symbols, NEW now \in Stamp
    PROVE  /\ Reserve(t, s, now) \in TrackerMap
           /\ ~Has(t, s) => \A r \in Symbols :
                Reserve(t, s, now)[r] = IF r = s THEN PendingAt(now) ELSE t[r]
  BY BuiltEntries, 0 \in Nat DEF Reserve, TrackerMap

\* commitReserved puts the position in place of its reservation.
LEMMA CommitIsTyped ==
    ASSUME NEW t \in TrackerMap, NEW s \in Symbols, NEW pos \in TrackedPosition,
           ~pos.inFlight, t[s].inFlight
    PROVE  /\ CommitReserved(t, s, pos) \in TrackerMap
           /\ \A r \in Symbols : CommitReserved(t, s, pos)[r] = IF r = s THEN pos ELSE t[r]
<1>1. [pos EXCEPT !.inFlight = FALSE] = pos
  BY DEF TrackedPosition
<1>2. QED
  BY <1>1 DEF CommitReserved, TrackerMap

----------------------------------------------------------------------------
(* The quiet updates.                                                      *)

\* A map that stays as it is is quiet.
LEMMA NothingIsQuiet ==
    ASSUME NEW t \in TrackerMap, NEW n
    PROVE  Quiet(t, t, n)
  BY EntryFields DEF Quiet

\* addRecovered inserts only where nothing is.
LEMMA AddRecoveredIsQuiet ==
    ASSUME NEW t \in TrackerMap, NEW s \in Symbols, NEW now \in Stamp, NEW qty \in Nat
    PROVE  Quiet(t, AddRecovered(t, s, now, qty), now)
  BY BuiltEntries, EntryFields, NoPosIsApart DEF AddRecovered, Quiet, TrackerMap, Has

\* removeIfOpenedAt reaches a reservation only by a copy of it.
LEMMA RemoveIfOpenedAtIsQuiet ==
    ASSUME NEW t \in TrackerMap, NEW n, NEW c, c.sym \in Symbols,
           t[c.sym].inFlight => ~SameOpening(t, c)
    PROVE  Quiet(t, RemoveIfOpenedAt(t, c), n)
  BY NoPosIsApart, RemoveIsTyped, EntryFields DEF RemoveIfOpenedAt, Quiet, Remove, TrackerMap

\* Removing what all() handed out touches no reservation.
LEMMA RemoveAllIsQuiet ==
    ASSUME NEW t \in TrackerMap, NEW n, NEW copies \in SUBSET AllTracked(t)
    PROVE  Quiet(t, RemoveAllIfOpenedAt(t, copies), n)
<1>1. \A c \in copies : ~t[c.sym].inFlight
  BY DEF AllTracked, Committed
<1>2. RemoveAllIfOpenedAt(t, copies) \in TrackerMap
  BY DEF RemoveAllIfOpenedAt, TrackerMap
<1>3. QED
  BY <1>1, <1>2, NoPosIsApart, EntryFields DEF Quiet, RemoveAllIfOpenedAt

\* Neither exit-fill method can reach a reservation, which has no exits.
LEMMA ExitFillsAreQuiet ==
    ASSUME NEW t \in TrackerMap, NEW n, NEW id \in ExitId \cup {NoExit}, NEW delta \in Nat,
           \A s \in Symbols : t[s].inFlight => t[s].tp = NoExit /\ t[s].sl = NoExit
    PROVE  /\ Quiet(t, RemoveByExitOrderClientId(t, id), n)
           /\ Quiet(t, ApplyExitFillByClientId(t, id, delta), n)
<1>1. ASSUME NEW s \in Symbols, OwnsExit(t[s], id)
      PROVE  ~t[s].inFlight /\ t[s] \in TrackedPosition
  BY <1>1, NoPosIsApart, EntryFields DEF OwnsExit
<1>2. Quiet(t, RemoveByExitOrderClientId(t, id), n)
  BY <1>1, NoPosIsApart, EntryFields DEF Quiet, RemoveByExitOrderClientId, TrackerMap
<1>3. ASSUME NEW s \in Symbols, OwnsExit(t[s], id), t[s].qty > delta
      PROVE  LET e == [t[s] EXCEPT !.qty = @ - delta] IN
             /\ e \in TrackedPosition
             /\ e.inFlight = t[s].inFlight /\ e.openedAt = t[s].openedAt
  BY <1>1, <1>3, EntryFields DEF TrackedPosition
<1>4. Quiet(t, ApplyExitFillByClientId(t, id, delta), n)
  BY <1>1, <1>3, NoPosIsApart, EntryFields
     DEF Quiet, ApplyExitFillByClientId, TrackerMap
<1>5. QED
  BY <1>2, <1>4

\* A committed entry may change in anything but its stamp.
LEMMA AmendIsQuiet ==
    ASSUME NEW t \in TrackerMap, NEW n, NEW s \in Symbols, NEW e \in TrackedPosition,
           Committed(t, s), ~e.inFlight, e.openedAt = t[s].openedAt
    PROVE  Quiet(t, [t EXCEPT ![s] = e], n)
  BY EntryFields DEF Quiet, Committed, TrackerMap

\* updateStopLoss refuses a reservation and keeps the stamp.
LEMMA UpdateStopLossIsQuiet ==
    ASSUME NEW t \in TrackerMap, NEW n, NEW s \in Symbols, NEW id \in ExitId \cup {NoExit},
           NEW leveled \in BOOLEAN
    PROVE  Quiet(t, UpdateStopLoss(t, s, id, leveled), n)
<1>1. CASE ~Committed(t, s)
  BY <1>1, EntryFields DEF Quiet, UpdateStopLoss
<1>2. CASE Committed(t, s)
  <2> DEFINE e == [t[s] EXCEPT !.sl = id, !.leveled = leveled]
  <2>1. /\ e \in TrackedPosition /\ e.openedAt = t[s].openedAt
        /\ e.inFlight = t[s].inFlight
    BY <1>2, EntryFields DEF TrackedPosition, Committed
  <2>2. UpdateStopLoss(t, s, id, leveled) = [t EXCEPT ![s] = e]
    BY <1>2 DEF UpdateStopLoss, TrackerMap
  <2> HIDE DEF e
  <2>3. QED
    BY <1>2, <2>1, <2>2, AmendIsQuiet DEF Committed
<1>3. QED
  BY <1>1, <1>2

\* refreshFromSnapshot refuses a reservation and keeps the stamp.
LEMMA RefreshIsQuiet ==
    ASSUME NEW t \in TrackerMap, NEW n, NEW s \in Symbols, NEW qty \in Nat
    PROVE  Quiet(t, RefreshFromSnapshot(t, s, qty), n)
<1>1. CASE ~Committed(t, s)
  BY <1>1, EntryFields DEF Quiet, RefreshFromSnapshot
<1>2. CASE Committed(t, s)
  <2> DEFINE e == [t[s] EXCEPT !.qty = qty]
  <2>1. /\ e \in TrackedPosition /\ e.openedAt = t[s].openedAt
        /\ e.inFlight = t[s].inFlight
    BY <1>2, EntryFields DEF TrackedPosition, Committed
  <2>2. RefreshFromSnapshot(t, s, qty) = [t EXCEPT ![s] = e]
    BY <1>2 DEF RefreshFromSnapshot, TrackerMap
  <2> HIDE DEF e
  <2>3. QED
    BY <1>2, <2>1, <2>2, AmendIsQuiet DEF Committed
<1>3. QED
  BY <1>1, <1>2

\* Time makes a committed entry older, and nothing else of it different.
LEMMA AgeingIsQuiet ==
    ASSUME NEW t \in TrackerMap, NEW n, NEW s \in Symbols, Committed(t, s)
    PROVE  Quiet(t, [t EXCEPT ![s].aged = TRUE], n)
<1> DEFINE e == [t[s] EXCEPT !.aged = TRUE]
<1>1. e \in TrackedPosition /\ e.openedAt = t[s].openedAt /\ e.inFlight = t[s].inFlight
  BY EntryFields DEF TrackedPosition, Committed
<1>2. [t EXCEPT ![s].aged = TRUE] = [t EXCEPT ![s] = e]
  BY DEF TrackerMap
<1>3. QED
  BY <1>1, <1>2, AmendIsQuiet DEF Committed

\* all() copies what it finds: typed, of this map, and of no reservation.
LEMMA AllTrackedCopies ==
    ASSUME NEW t \in TrackerMap, NEW c \in AllTracked(t)
    PROVE  /\ c.sym \in Symbols /\ c.pos = t[c.sym] /\ c.pos \in TrackedPosition
           /\ c = [sym |-> c.sym, pos |-> c.pos]
           /\ ~t[c.sym].inFlight
  BY EntryFields DEF AllTracked, Committed

----------------------------------------------------------------------------
(* Who changes the stop of an entry.                                       *)

KeepsStops(t, u) ==
    \A s \in Symbols :
        Committed(t, s) /\ Committed(u, s) /\ u[s].openedAt = t[s].openedAt
        => u[s].sl = t[s].sl

\* Only updateStopLoss changes the stop of an entry that stays.
LEMMA StopsKept ==
    ASSUME NEW t \in TrackerMap, NEW s \in Symbols, NEW now \in Stamp, NEW qty \in Nat,
           NEW id, NEW c, c.sym \in Symbols, NEW copies
    PROVE  /\ KeepsStops(t, t)
           /\ KeepsStops(t, Remove(t, s))
           /\ KeepsStops(t, Reserve(t, s, now))
           /\ KeepsStops(t, AddRecovered(t, s, now, qty))
           /\ KeepsStops(t, RemoveIfOpenedAt(t, c))
           /\ KeepsStops(t, RemoveAllIfOpenedAt(t, copies))
           /\ KeepsStops(t, RefreshFromSnapshot(t, s, qty))
           /\ KeepsStops(t, RemoveByExitOrderClientId(t, id))
           /\ KeepsStops(t, ApplyExitFillByClientId(t, id, qty))
           /\ KeepsStops(t, [t EXCEPT ![s].aged = TRUE])
<1>1. KeepsStops(t, t)
  BY DEF KeepsStops
<1>2. KeepsStops(t, Remove(t, s)) /\ KeepsStops(t, RemoveIfOpenedAt(t, c))
  BY RemoveIsTyped DEF KeepsStops, RemoveIfOpenedAt, Committed, Has
<1>3. KeepsStops(t, Reserve(t, s, now)) /\ KeepsStops(t, AddRecovered(t, s, now, qty))
  BY DEF KeepsStops, Reserve, AddRecovered, Committed, TrackerMap
<1>4. KeepsStops(t, RemoveAllIfOpenedAt(t, copies))
  BY DEF KeepsStops, RemoveAllIfOpenedAt, Committed, Has
<1>5. KeepsStops(t, RemoveByExitOrderClientId(t, id))
  BY DEF KeepsStops, RemoveByExitOrderClientId, Committed, Has
<1>6. KeepsStops(t, ApplyExitFillByClientId(t, id, qty))
  <2>1. ASSUME NEW r \in Symbols, Has(t, r)
        PROVE  [t[r] EXCEPT !.qty = @ - qty].sl = t[r].sl
    BY <2>1, EntryFields DEF TrackedPosition
  <2>2. QED
    BY <2>1 DEF KeepsStops, ApplyExitFillByClientId, Committed, Has
<1>7. KeepsStops(t, RefreshFromSnapshot(t, s, qty))
  <2> DEFINE e == [t[s] EXCEPT !.qty = qty]
  <2>1. Has(t, s) => e.sl = t[s].sl
    BY EntryFields DEF TrackedPosition
  <2>2. Committed(t, s) => RefreshFromSnapshot(t, s, qty) = [t EXCEPT ![s] = e]
    BY DEF RefreshFromSnapshot, TrackerMap
  <2>3. ~Committed(t, s) => RefreshFromSnapshot(t, s, qty) = t
    BY DEF RefreshFromSnapshot
  <2> HIDE DEF e
  <2>4. QED
    BY <2>1, <2>2, <2>3 DEF KeepsStops, Committed, TrackerMap
<1>8. KeepsStops(t, [t EXCEPT ![s].aged = TRUE])
  <2> DEFINE e == [t[s] EXCEPT !.aged = TRUE]
  <2>1. Has(t, s) => e.sl = t[s].sl
    BY EntryFields DEF TrackedPosition
  <2>2. [t EXCEPT ![s].aged = TRUE] = [t EXCEPT ![s] = e]
    BY DEF TrackerMap
  <2> HIDE DEF e
  <2>3. QED
    BY <2>1, <2>2 DEF KeepsStops, Committed, TrackerMap
<1>9. QED
  BY <1>1, <1>2, <1>3, <1>4, <1>5, <1>6, <1>7, <1>8

\* A commit fills a reservation in; it changes no stop of a committed entry.
LEMMA CommitKeepsStops ==
    ASSUME NEW t \in TrackerMap, NEW s \in Symbols, NEW pos
    PROVE  KeepsStops(t, CommitReserved(t, s, pos))
  BY DEF CommitReserved, KeepsStops, Committed, TrackerMap

ChangesOneStop(t, u, s, id) ==
    \A r \in Symbols : u[r].sl = t[r].sl \/ (r = s /\ u[r].sl = id)

\* updateStopLoss changes the one stop it is given.
LEMMA UpdateStopLossChanges ==
    ASSUME NEW t \in TrackerMap, NEW s \in Symbols, NEW id, NEW leveled \in BOOLEAN
    PROVE  ChangesOneStop(t, UpdateStopLoss(t, s, id, leveled), s, id)
<1> DEFINE e == [t[s] EXCEPT !.sl = id, !.leveled = leveled]
<1>1. Has(t, s) => e.sl = id
  BY EntryFields DEF TrackedPosition
<1>2. CASE Committed(t, s)
  <2>1. UpdateStopLoss(t, s, id, leveled) = [t EXCEPT ![s] = e]
    BY <1>2 DEF UpdateStopLoss, TrackerMap
  <2> HIDE DEF e
  <2>2. ChangesOneStop(t, [t EXCEPT ![s] = e], s, id)
    BY <1>1, <1>2 DEF Committed, TrackerMap, ChangesOneStop
  <2>3. QED
    BY <2>1, <2>2
<1>3. CASE ~Committed(t, s)
  BY <1>3 DEF UpdateStopLoss, ChangesOneStop
<1>4. QED
  BY <1>2, <1>3
=============================================================================
