------------------------ MODULE QuotaManager_proofs ------------------------
(***************************************************************************)
(* Proofs about QuotaManager, for any number of threads and models: until  *)
(* a lock file has become old the lock excludes, so that what a thread     *)
(* writes is what it read plus its own reservation.                        *)
(***************************************************************************)
EXTENDS QuotaManager, TLAPS

\* Whoever is inside holds a fresh lock, and nobody is about to take it over.
LockExcludes ==
    /\ lock # "old"
    /\ \A t \in Threads : access[t].at # "takeover"
    /\ \A t \in Threads : access[t].at \in Inside => lock = "fresh"
    /\ \A t, u \in Threads : access[t].at \in Inside /\ access[u].at \in Inside => t = u

\* What has been read for writing is what is stored, and what is stored was granted.
StateIsCurrent ==
    /\ \A t \in Threads : access[t].at = "save" =>
        \A m \in Models : access[t].seen[m].used = stored[m].used
    /\ \A m \in Models : stored[m].used = granted[m] /\ granted[m] <= DailyLimit[m]

QuotaInv == QuotaTypeOK /\ (~aged => LockExcludes /\ StateIsCurrent)

----------------------------------------------------------------------------

AccessStates ==
    [at : {"out"} \cup AtDoor \cup Inside, op : {"none", "reserve", "cooldown"},
     model : Models, seen : [Models -> ModelState]]

\* The states a thread is put into when it comes and when it goes are such states.
LEMMA AwayIsTyped ==
    ASSUME QuotaAssumption
    PROVE  /\ Unread \in [Models -> ModelState]
           /\ Away \in AccessStates
           /\ Away.at = "out"
  <1>1. Unread \in [Models -> ModelState]
    BY DEF Unread, ModelState
  <1>2. (CHOOSE m \in Models : TRUE) \in Models
    BY DEF QuotaAssumption
  <1> QED BY <1>1, <1>2 DEF Away, AccessStates, AtDoor, Inside

\* The invariant holds at first.
LEMMA QuotaInvInit ==
    ASSUME QuotaAssumption, QuotaInit
    PROVE  QuotaInv
  <1>1. Unread \in [Models -> ModelState] /\ Away \in AccessStates /\ Away.at = "out"
    BY AwayIsTyped
  <1>2. QuotaTypeOK
    BY <1>1 DEF QuotaInit, QuotaTypeOK, AccessStates
  <1>3. \A t \in Threads : access[t].at = "out"
    BY <1>1 DEF QuotaInit
  <1>4. LockExcludes
    BY <1>3 DEF QuotaInit, LockExcludes, Inside
  <1>5. StateIsCurrent
    BY <1>3 DEF QuotaInit, StateIsCurrent, Unread, QuotaAssumption
  <1> QED BY <1>2, <1>4, <1>5 DEF QuotaInv

\* Coming to the door.
LEMMA ApproachKeeps ==
    ASSUME QuotaAssumption, QuotaInv, NEW t \in Threads, NEW op \in {"reserve", "cooldown"},
           NEW m \in Models, Approach(t, op, m)
    PROVE  QuotaInv'
  <1>1. Unread \in [Models -> ModelState]
    BY AwayIsTyped
  <1>2. /\ access' = [access EXCEPT ![t] = [at |-> "enter", op |-> op, model |-> m, seen |-> Unread]]
        /\ lock' = lock /\ stored' = stored /\ granted' = granted /\ aged' = aged
    BY DEF Approach
  <1>3. QuotaTypeOK'
    BY <1>1, <1>2 DEF QuotaInv, QuotaTypeOK, AtDoor, Inside
  <1>4. /\ access'[t].at = "enter"
        /\ \A u \in Threads : u # t => access'[u] = access[u]
    BY <1>2 DEF QuotaInv, QuotaTypeOK
  <1> QED BY <1>2, <1>3, <1>4 DEF QuotaInv, LockExcludes, StateIsCurrent, Inside

\* A step that only moves a thread, to the place at.
LEMMA MoveIsTyped ==
    ASSUME QuotaTypeOK, NEW t \in Threads, NEW at \in {"out"} \cup AtDoor \cup Inside, MoveTo(t, at)
    PROVE  /\ access' \in [Threads -> AccessStates]
           /\ access'[t].at = at /\ access'[t].seen = access[t].seen
           /\ \A u \in Threads : u # t => access'[u] = access[u]
  BY DEF QuotaTypeOK, MoveTo, AccessStates

\* Going in, looking at the lock's age, and removing it.
LEMMA DoorKeeps ==
    ASSUME QuotaAssumption, QuotaInv, NEW t \in Threads, Enter(t) \/ SeesOld(t) \/ TakesOver(t)
    PROVE  QuotaInv'
  <1>1. CASE Enter(t)
    <2>1. lock = "free" /\ lock' = "fresh" /\ stored' = stored /\ granted' = granted /\ aged' = aged
      BY <1>1 DEF Enter
    <2>2. /\ access' \in [Threads -> AccessStates]
          /\ access'[t].at = "load"
          /\ \A u \in Threads : u # t => access'[u] = access[u]
      BY <1>1, MoveIsTyped DEF Enter, QuotaInv, Inside
    <2>3. QuotaTypeOK'
      BY <2>1, <2>2 DEF QuotaInv, QuotaTypeOK, AccessStates
    <2> QED BY <2>1, <2>2, <2>3 DEF QuotaInv, LockExcludes, StateIsCurrent, Inside
  <1>2. CASE SeesOld(t)
    <2>1. lock = "old" /\ lock' = lock /\ stored' = stored /\ granted' = granted /\ aged' = aged
      BY <1>2 DEF SeesOld
    <2>2. access' \in [Threads -> AccessStates]
      BY <1>2, MoveIsTyped DEF SeesOld, QuotaInv, AtDoor
    <2>3. QuotaTypeOK'
      BY <2>1, <2>2 DEF QuotaInv, QuotaTypeOK, AccessStates
    <2> QED BY <2>1, <2>3 DEF QuotaInv, LockExcludes
  <1>3. CASE TakesOver(t)
    <2>1. /\ access[t].at = "takeover"
          /\ lock' = "free" /\ stored' = stored /\ granted' = granted /\ aged' = aged
      BY <1>3 DEF TakesOver
    <2>2. access' \in [Threads -> AccessStates]
      BY <1>3, MoveIsTyped DEF TakesOver, QuotaInv, AtDoor
    <2>3. QuotaTypeOK'
      BY <2>1, <2>2 DEF QuotaInv, QuotaTypeOK, AccessStates
    <2> QED BY <2>1, <2>3 DEF QuotaInv, LockExcludes
  <1> QED BY <1>1, <1>2, <1>3

\* Going away, with the lock or without.
LEMMA LeavingKeeps ==
    ASSUME QuotaAssumption, QuotaInv, NEW t \in Threads, LockTimesOut(t) \/ Leave(t)
    PROVE  QuotaInv'
  <1>1. Away \in AccessStates /\ Away.at = "out"
    BY AwayIsTyped
  <1>2. /\ access' = [access EXCEPT ![t] = Away]
        /\ stored' = stored /\ granted' = granted /\ aged' = aged
        /\ lock' \in {lock, "free"}
        /\ lock' # lock => access[t].at \in Inside
    BY DEF LockTimesOut, Leave, Inside
  <1>3. QuotaTypeOK'
    BY <1>1, <1>2 DEF QuotaInv, QuotaTypeOK, AccessStates
  <1>4. /\ access'[t].at = "out"
        /\ \A u \in Threads : u # t => access'[u] = access[u]
    BY <1>1, <1>2 DEF QuotaInv, QuotaTypeOK
  <1>5. ASSUME ~aged PROVE LockExcludes' /\ StateIsCurrent'
    BY <1>2, <1>4, <1>5 DEF QuotaInv, LockExcludes, StateIsCurrent, Inside
  <1> QED BY <1>2, <1>3, <1>5 DEF QuotaInv

\* Reading.
LEMMA LoadKeeps ==
    ASSUME QuotaAssumption, QuotaInv, NEW t \in Threads, Load(t)
    PROVE  QuotaInv'
  <1>1. /\ access[t].at = "load"
        /\ access' = [access EXCEPT ![t] = [access[t] EXCEPT !.at = "save", !.seen = stored]]
        /\ lock' = lock /\ stored' = stored /\ granted' = granted /\ aged' = aged
    BY DEF Load
  <1>2. access \in [Threads -> AccessStates] /\ stored \in [Models -> ModelState]
    BY DEF QuotaInv, QuotaTypeOK, AccessStates
  <1>3. /\ access' \in [Threads -> AccessStates]
        /\ access'[t].at = "save" /\ access'[t].seen = stored
        /\ \A u \in Threads : u # t => access'[u] = access[u]
    BY <1>1, <1>2 DEF AccessStates, Inside
  <1>4. QuotaTypeOK'
    BY <1>1, <1>3 DEF QuotaInv, QuotaTypeOK, AccessStates
  <1>5. ASSUME ~aged PROVE LockExcludes' /\ StateIsCurrent'
    BY <1>1, <1>3, <1>5 DEF QuotaInv, LockExcludes, StateIsCurrent, Inside
  <1> QED BY <1>1, <1>4, <1>5 DEF QuotaInv

\* What a thread that has read writes, and what it is granted.
LEMMA DecisionKeeps ==
    ASSUME QuotaAssumption, QuotaInv, NEW t \in Threads, Grant(t) \/ Reject(t) \/ CoolDown(t)
    PROVE  QuotaInv'
  <1> DEFINE m == access[t].model
  <1> DEFINE seen == access[t].seen
  <1>1. /\ access \in [Threads -> AccessStates] /\ stored \in [Models -> ModelState]
        /\ granted \in [Models -> Nat] /\ m \in Models /\ seen \in [Models -> ModelState]
    BY DEF QuotaInv, QuotaTypeOK, AccessStates
  <1>2. seen[m].used \in Nat /\ seen[m] \in ModelState
    BY <1>1 DEF ModelState
  <1>3. Unread \in [Models -> ModelState]
    BY AwayIsTyped
  <1>4. access[t].at = "save" /\ lock' = lock /\ aged' = aged
    BY DEF Grant, Reject, CoolDown
  <1>5. PICK at \in {"granted", "rejected", "cooled"} :
            access' = [access EXCEPT ![t] = [access[t] EXCEPT !.at = at, !.seen = Unread]]
    BY DEF Grant, Reject, CoolDown
  <1>6. /\ access' \in [Threads -> AccessStates]
        /\ access'[t].at = at
        /\ \A u \in Threads : u # t => access'[u] = access[u]
    BY <1>1, <1>3, <1>5 DEF AccessStates, Inside
  <1>7. ASSUME ~aged PROVE LockExcludes'
    BY <1>4, <1>6, <1>7 DEF QuotaInv, LockExcludes, Inside
  <1>8. ASSUME ~aged
        PROVE  /\ \A k \in Models : seen[k].used = stored[k].used /\ stored[k].used = granted[k]
                                    /\ granted[k] <= DailyLimit[k]
               /\ \A u \in Threads : access'[u].at # "save"
    <2>1. \A u \in Threads : u # t => access[u].at \notin Inside
      BY <1>4, <1>8 DEF QuotaInv, LockExcludes, Inside
    <2> QED BY <1>4, <1>6, <1>8, <2>1 DEF QuotaInv, StateIsCurrent, Inside
  <1>9. CASE Grant(t)
    <2>1. /\ stored' = [seen EXCEPT ![m] = [used |-> seen[m].used + 1, cooling |-> FALSE]]
          /\ granted' = [granted EXCEPT ![m] = granted[m] + 1]
          /\ seen[m].used + 1 <= DailyLimit[m]
      BY <1>9 DEF Grant, WriteState, Used
    <2>2. /\ stored' \in [Models -> ModelState] /\ granted' \in [Models -> Nat]
          /\ stored'[m].used = seen[m].used + 1 /\ granted'[m] = granted[m] + 1
          /\ \A k \in Models : k # m => stored'[k] = seen[k] /\ granted'[k] = granted[k]
      BY <1>1, <1>2, <2>1 DEF ModelState
    <2>3. QuotaTypeOK'
      BY <1>4, <1>6, <2>2 DEF QuotaInv, QuotaTypeOK, AccessStates
    <2>4. ASSUME ~aged PROVE StateIsCurrent'
      <3>1. /\ \A k \in Models : seen[k].used = stored[k].used /\ stored[k].used = granted[k]
                                    /\ granted[k] <= DailyLimit[k]
            /\ \A u \in Threads : access'[u].at # "save"
        BY <1>8, <2>4
      <3>2. stored'[m].used = granted'[m] /\ granted'[m] <= DailyLimit[m]
        BY <1>1, <1>2, <2>1, <2>2, <3>1
      <3>3. ASSUME NEW k \in Models PROVE stored'[k].used = granted'[k] /\ granted'[k] <= DailyLimit[k]
        BY <2>2, <3>1, <3>2
      <3> QED BY <3>1, <3>3 DEF StateIsCurrent
    <2> QED BY <1>4, <1>7, <2>3, <2>4 DEF QuotaInv
  <1>10. CASE Reject(t)
    <2>1. stored' = stored /\ granted' = granted
      BY <1>10 DEF Reject
    <2>2. QuotaTypeOK'
      BY <1>4, <1>6, <2>1 DEF QuotaInv, QuotaTypeOK, AccessStates
    <2>3. ASSUME ~aged PROVE StateIsCurrent'
      BY <1>8, <2>1, <2>3 DEF StateIsCurrent
    <2> QED BY <1>4, <1>7, <2>2, <2>3 DEF QuotaInv
  <1>11. CASE CoolDown(t)
    <2>1. /\ stored' = [seen EXCEPT ![m] = [used |-> seen[m].used, cooling |-> TRUE]]
          /\ granted' = granted
      BY <1>11 DEF CoolDown, WriteState, Used
    <2>2. /\ stored' \in [Models -> ModelState]
          /\ \A k \in Models : stored'[k].used = seen[k].used
      BY <1>1, <1>2, <2>1 DEF ModelState
    <2>3. QuotaTypeOK'
      BY <1>4, <1>6, <2>1, <2>2 DEF QuotaInv, QuotaTypeOK, AccessStates
    <2>4. ASSUME ~aged PROVE StateIsCurrent'
      BY <1>8, <2>1, <2>2, <2>4 DEF StateIsCurrent
    <2> QED BY <1>4, <1>7, <2>3, <2>4 DEF QuotaInv
  <1> QED BY <1>9, <1>10, <1>11

\* The process ends, with whatever lock it held.
LEMMA ProcessEndsKeeps ==
    ASSUME QuotaAssumption, QuotaInv, ProcessEnds
    PROVE  QuotaInv'
  <1>1. Away \in AccessStates /\ Away.at = "out"
    BY AwayIsTyped
  <1>2. /\ access' = [u \in Threads |-> Away]
        /\ lock' = lock /\ stored' = stored /\ granted' = granted /\ aged' = aged
    BY DEF ProcessEnds
  <1>3. QuotaTypeOK' /\ \A u \in Threads : access'[u].at = "out"
    BY <1>1, <1>2 DEF QuotaInv, QuotaTypeOK, AccessStates
  <1> QED BY <1>2, <1>3 DEF QuotaInv, LockExcludes, StateIsCurrent, Inside

\* Time.
LEMMA TimeKeeps ==
    ASSUME QuotaAssumption, QuotaInv, LockAges \/ \E m \in Models : CoolingEnds(m)
    PROVE  QuotaInv'
  <1>1. CASE LockAges
    BY <1>1 DEF LockAges, QuotaInv, QuotaTypeOK
  <1>2. ASSUME NEW m \in Models, CoolingEnds(m) PROVE QuotaInv'
    <2>1. /\ stored' = [stored EXCEPT ![m] = [stored[m] EXCEPT !.cooling = FALSE]]
          /\ access' = [u \in Threads |-> [access[u] EXCEPT
                            !.seen = [access[u].seen EXCEPT ![m] =
                                        [access[u].seen[m] EXCEPT !.cooling = FALSE]]]]
          /\ lock' = lock /\ granted' = granted /\ aged' = aged
      BY <1>2 DEF CoolingEnds
    <2>2. /\ access \in [Threads -> AccessStates] /\ stored \in [Models -> ModelState]
      BY DEF QuotaInv, QuotaTypeOK, AccessStates
    <2>3. /\ stored' \in [Models -> ModelState]
          /\ \A k \in Models : stored'[k].used = stored[k].used
      BY <2>1, <2>2 DEF ModelState
    <2>4. ASSUME NEW u \in Threads
          PROVE  /\ access'[u] \in AccessStates /\ access'[u].at = access[u].at
                 /\ \A k \in Models : access'[u].seen[k].used = access[u].seen[k].used
      <3> DEFINE s == [access[u].seen EXCEPT ![m] = [access[u].seen[m] EXCEPT !.cooling = FALSE]]
      <3>1. access[u].seen \in [Models -> ModelState] /\ access[u] \in AccessStates
        BY <2>2 DEF AccessStates
      <3>2. s \in [Models -> ModelState] /\ \A k \in Models : s[k].used = access[u].seen[k].used
        BY <3>1 DEF ModelState
      <3>3. access'[u] = [access[u] EXCEPT !.seen = s]
        BY <2>1
      <3> HIDE DEF s
      <3>4. access'[u] \in AccessStates /\ access'[u].at = access[u].at /\ access'[u].seen = s
        BY <3>1, <3>2, <3>3 DEF AccessStates
      <3> QED BY <3>2, <3>4
    <2>5. access' \in [Threads -> AccessStates]
      BY <2>1, <2>4
    <2>6. QuotaTypeOK'
      BY <2>1, <2>3, <2>5 DEF QuotaInv, QuotaTypeOK, AccessStates
    <2>7. ASSUME ~aged PROVE LockExcludes' /\ StateIsCurrent'
      <3>1. LockExcludes'
        BY <2>1, <2>4, <2>7 DEF QuotaInv, LockExcludes
      <3>2. StateIsCurrent'
        <4>1. \A k \in Models : stored[k].used = granted[k] /\ granted[k] <= DailyLimit[k]
          BY <2>7 DEF QuotaInv, StateIsCurrent
        <4>2. \A k \in Models : stored'[k].used = granted'[k] /\ granted'[k] <= DailyLimit[k]
          <5>1. granted' = granted
            BY <2>1
          <5>2. \A k \in Models : stored'[k].used = stored[k].used
            BY <2>3
          <5> QED BY <4>1, <5>1, <5>2
        <4>3. ASSUME NEW u \in Threads, access'[u].at = "save", NEW k \in Models
              PROVE  access'[u].seen[k].used = stored'[k].used
          <5>1. access[u].at = "save" /\ access'[u].seen[k].used = access[u].seen[k].used
            BY <2>4, <4>3
          <5>2. access[u].seen[k].used = stored[k].used
            BY <2>7, <5>1 DEF QuotaInv, StateIsCurrent
          <5>3. stored'[k].used = stored[k].used
            BY <2>3
          <5> QED BY <5>1, <5>2, <5>3
        <4> QED BY <4>2, <4>3 DEF StateIsCurrent
      <3> QED BY <3>1, <3>2
    <2> QED BY <2>1, <2>6, <2>7 DEF QuotaInv
  <1> QED BY <1>1, <1>2

\* Every step keeps the invariant.
LEMMA QuotaInvKept ==
    ASSUME QuotaAssumption, QuotaInv, [QuotaNext]_quotaVars
    PROVE  QuotaInv'
  <1>1. ASSUME NEW t \in Threads, QuotaStep(t) \/ LockTimesOut(t) \/ Leave(t)
        PROVE  QuotaInv'
    BY <1>1, DoorKeeps, LeavingKeeps, LoadKeeps, DecisionKeeps DEF QuotaStep
  <1>2. ASSUME NEW t \in Threads, NEW op \in {"reserve", "cooldown"}, NEW m \in Models,
               Approach(t, op, m)
        PROVE  QuotaInv'
    BY <1>2, ApproachKeeps
  <1>3. CASE LockAges \/ ProcessEnds \/ \E m \in Models : CoolingEnds(m)
    BY <1>3, TimeKeeps, ProcessEndsKeeps
  <1>4. CASE UNCHANGED quotaVars
    BY <1>4 DEF quotaVars, QuotaInv, QuotaTypeOK, LockExcludes, StateIsCurrent
  <1> QED BY <1>1, <1>2, <1>3, <1>4 DEF QuotaNext

\* The invariant holds of every behaviour.
THEOREM QuotaInvariant == QuotaSpec => []QuotaInv
  <1>1. QuotaInit => QuotaInv
    BY QuotaInvInit, QuotaAssumption
  <1>2. QuotaInv /\ [QuotaNext]_quotaVars => QuotaInv'
    BY QuotaInvKept, QuotaAssumption
  <1> QED BY <1>1, <1>2, PTL DEF QuotaSpec

\* The invariant bounds what has been granted.
LEMMA QuotaInvBounds == QuotaInv => QuotaKeptUntilLockAges
  BY DEF QuotaInv, StateIsCurrent, QuotaKeptUntilLockAges

\* Until a lock file becomes old, no model is granted more than its day's limit, however many
\* threads and processes use the quota and whenever they end.
THEOREM QuotaIsKept == QuotaSpec => []QuotaKeptUntilLockAges
  BY QuotaInvariant, QuotaInvBounds, PTL
=============================================================================
