------------------------- MODULE RequestGate_proofs -------------------------
(***************************************************************************)
(* The gate never lets two callers through together and serves them in     *)
(* line, for any set of callers and whatever interleaves with its steps.   *)
(*                                                                         *)
(* GateInv is the inductive invariant: mutual exclusion alone is not       *)
(* inductive, since a step that makes a caller the holder must know that   *)
(* the gate had none, which `locked' says only while the queue, the grants *)
(* and the callers' places agree with it.                                  *)
(***************************************************************************)
EXTENDS RequestGate, TLAPS, SequenceTheorems

\* The queue without its i-th element: what RemoveAt returns.
LEMMA RemoveAtFacts ==
    ASSUME NEW S, NEW s \in Seq(S), NEW i \in 1..Len(s)
    PROVE  /\ RemoveAt(s, i) \in Seq(S)
           /\ Len(RemoveAt(s, i)) = Len(s) - 1
           /\ \A j \in 1..(Len(s) - 1) :
                 RemoveAt(s, i)[j] = IF j < i THEN s[j] ELSE s[j + 1]
  <1> DEFINE l == SubSeq(s, 1, i - 1)
             r == SubSeq(s, i + 1, Len(s))
  <1>0. Len(s) \in Nat /\ \A j \in 1..Len(s) : s[j] \in S
    BY LenProperties, ElementOfSeq
  <1>1. /\ l \in Seq(S)
        /\ Len(l) = i - 1
        /\ \A j \in 1..(i - 1) : l[j] = s[j]
    <2>1. 1 \in Int /\ i - 1 \in Int /\ \A j \in 1..(i - 1) : s[j] \in S
      BY <1>0
    <2>2. /\ l \in Seq(S)
          /\ Len(l) = IF 1 <= i - 1 THEN (i - 1) - 1 + 1 ELSE 0
          /\ \A j \in 1..((i - 1) - 1 + 1) : l[j] = s[1 + j - 1]
      BY <2>1, SubSeqProperties
    <2>3. QED
      BY <2>2, <1>0
  <1>2. /\ r \in Seq(S)
        /\ Len(r) = Len(s) - i
        /\ \A j \in 1..(Len(s) - i) : r[j] = s[i + j]
    <2>1. i + 1 \in Int /\ Len(s) \in Int /\ \A j \in (i + 1)..Len(s) : s[j] \in S
      BY <1>0
    <2>2. /\ r \in Seq(S)
          /\ Len(r) = IF i + 1 <= Len(s) THEN Len(s) - (i + 1) + 1 ELSE 0
          /\ \A j \in 1..(Len(s) - (i + 1) + 1) : r[j] = s[(i + 1) + j - 1]
      BY <2>1, SubSeqProperties
    <2>3. QED
      BY <2>2, <1>0
  <1>3. /\ l \o r \in Seq(S)
        /\ Len(l \o r) = Len(l) + Len(r)
        /\ \A j \in 1..(Len(l) + Len(r)) :
              (l \o r)[j] = IF j <= Len(l) THEN l[j] ELSE r[j - Len(l)]
    BY <1>1, <1>2, ConcatProperties
  <1> HIDE DEF l, r
  <1>4. RemoveAt(s, i) = l \o r
    BY DEF RemoveAt, l, r
  <1>5. ASSUME NEW j \in 1..(Len(s) - 1)
        PROVE  (l \o r)[j] = IF j < i THEN s[j] ELSE s[j + 1]
    <2>1. CASE j < i
      BY <2>1, <1>0, <1>1, <1>2, <1>3
    <2>2. CASE ~(j < i)
      <3>1. j - Len(l) \in 1..(Len(s) - i) /\ i + (j - Len(l)) = j + 1
        BY <2>2, <1>0, <1>1
      <3>2. j \in 1..(Len(l) + Len(r)) /\ ~(j <= Len(l))
        BY <2>2, <1>0, <1>1, <1>2
      <3>3. (l \o r)[j] = r[j - Len(l)]
        BY <3>2, <1>3
      <3>4. r[j - Len(l)] = s[j + 1]
        BY <3>1, <1>2
      <3>5. QED
        BY <2>2, <3>3, <3>4
    <2>3. QED
      BY <2>1, <2>2
  <1>6. QED
    BY <1>0, <1>1, <1>2, <1>3, <1>4, <1>5

\* The caller that erases its waiter stands in the queue once, so Erase takes
\* just that place out.
LEMMA EraseFacts ==
    ASSUME GateTypeOK, QueuedOnce,
           NEW p \in Callers, NEW i \in 1..Len(waiters), waiters[i] = p
    PROVE  Erase(p) = RemoveAt(waiters, i)
  BY DEF Erase, GateTypeOK, QueuedOnce

\* An open gate without callers has its books in order.
LEMMA InitGate == GateInit => GateInv
  <1> SUFFICES ASSUME GateInit PROVE GateInv
    OBVIOUS
  <1> USE DEF GateInit
  <1>1. GateTypeOK
    BY EmptySeq DEF GateTypeOK, GateStates
  <1>2. Len(waiters) = 0 /\ Holders = {}
    BY EmptySeq DEF Holders
  <1>3. QED
    BY <1>1, <1>2 DEF GateInv, LockedForHolder, OneHolder, GrantedWait, QueuedWait,
                      QueuedOnce, WaitersQueued, OpenIsEmpty, Waiting

\* lock(), up to the wait, keeps the books in order.
LEMMA EnterKeeps ==
    ASSUME GateInv, NEW p \in Callers, Enter(p)
    PROVE  GateInv'
  <1> USE DEF GateInv
  <1>1. CASE ~locked
    <2>1. /\ locked' = TRUE /\ gate' = [gate EXCEPT ![p] = "in"]
          /\ waiters' = waiters /\ granted' = granted /\ ringing' = ringing
          /\ gate[p] = "out" /\ Holders = {} /\ waiters = <<>>
      BY <1>1 DEF Enter, OpenIsEmpty, LockedForHolder, GateTypeOK
    <2>2. GateTypeOK'
      BY <2>1 DEF GateTypeOK, GateStates
    <2>3. Holders' = {p}
      BY <2>1 DEF Holders, GateTypeOK
    <2>4. Len(waiters') = 0
      BY <2>1, EmptySeq
    <2>5. WaitersQueued'
      BY <2>1 DEF WaitersQueued, Waiting, GateTypeOK
    <2>6. GrantedWait'
      BY <2>1 DEF GrantedWait, Holders, GateTypeOK
    <2>7. LockedForHolder' /\ OneHolder' /\ QueuedWait' /\ QueuedOnce' /\ OpenIsEmpty'
      BY <2>1, <2>3, <2>4 DEF LockedForHolder, OneHolder, QueuedWait, QueuedOnce, OpenIsEmpty
    <2>8. QED
      BY <2>2, <2>5, <2>6, <2>7
  <1>2. CASE locked
    <2>1. /\ locked' = locked /\ gate' = [gate EXCEPT ![p] = "parking"]
          /\ waiters' = Append(waiters, p) /\ granted' = granted /\ ringing' = ringing
          /\ gate[p] = "out"
      BY <1>2 DEF Enter
    <2>2. /\ waiters \in Seq(Callers) /\ Len(waiters) \in Nat
          /\ waiters' \in Seq(Callers) /\ Len(waiters') = Len(waiters) + 1
          /\ \A i \in 1..Len(waiters) : waiters'[i] = waiters[i] /\ waiters[i] \in Callers
          /\ waiters'[Len(waiters) + 1] = p
      BY <2>1, AppendProperties, LenProperties, ElementOfSeq DEF GateTypeOK
    <2>3. p \notin granted /\ \A i \in 1..Len(waiters) : waiters[i] # p
      BY <2>1 DEF GrantedWait, QueuedWait, Waiting
    <2>4. GateTypeOK'
      BY <2>1, <2>2 DEF GateTypeOK, GateStates
    <2>5. Holders' = Holders
      BY <2>1 DEF Holders, GateTypeOK
    <2>6. LockedForHolder' /\ OneHolder' /\ OpenIsEmpty'
      BY <1>2, <2>1, <2>5 DEF LockedForHolder, OneHolder, OpenIsEmpty
    <2>7. GrantedWait'
      BY <2>1, <2>3 DEF GrantedWait, GateTypeOK
    <2>8. QueuedWait'
      <3> SUFFICES ASSUME NEW i \in 1..(Len(waiters) + 1)
                   PROVE  gate'[waiters'[i]] \in Waiting /\ waiters'[i] \notin granted'
        BY <2>2 DEF QueuedWait
      <3>1. CASE i = Len(waiters) + 1
        BY <3>1, <2>1, <2>2, <2>3 DEF Waiting, GateTypeOK
      <3>2. CASE i \in 1..Len(waiters)
        BY <3>2, <2>1, <2>2, <2>3 DEF QueuedWait, GateTypeOK
      <3>3. QED
        BY <3>1, <3>2, <2>2
    <2>9. QueuedOnce'
      <3> SUFFICES ASSUME NEW i \in 1..(Len(waiters) + 1), NEW j \in 1..(Len(waiters) + 1),
                          waiters'[i] = waiters'[j]
                   PROVE  i = j
        BY <2>2 DEF QueuedOnce
      <3>1. (i = Len(waiters) + 1 \/ i \in 1..Len(waiters))
            /\ (j = Len(waiters) + 1 \/ j \in 1..Len(waiters))
        BY <2>2
      <3>2. QED
        BY <3>1, <2>2, <2>3 DEF QueuedOnce
    <2>10. WaitersQueued'
      <3> SUFFICES ASSUME NEW q \in Callers, gate'[q] \in Waiting, q \notin granted'
                   PROVE  \E i \in 1..(Len(waiters) + 1) : waiters'[i] = q
        BY <2>2 DEF WaitersQueued
      <3>1. CASE q = p
        BY <3>1, <2>2
      <3>2. CASE q # p
        <4>1. PICK i \in 1..Len(waiters) : waiters[i] = q
          BY <3>2, <2>1 DEF WaitersQueued, GateTypeOK
        <4>2. QED
          BY <4>1, <2>2
      <3>3. QED
        BY <3>1, <3>2
    <2>11. QED
      BY <2>4, <2>6, <2>7, <2>8, <2>9, <2>10
  <1>3. QED
    BY <1>1, <1>2 DEF GateTypeOK

\* A step that moves callers only between the states of waiting.
LEMMA SleepKeeps ==
    ASSUME GateInv,
           gate' \in [Callers -> GateStates],
           \A q \in Callers : /\ gate'[q] \in Waiting <=> gate[q] \in Waiting
                              /\ gate'[q] = "in" <=> gate[q] = "in",
           locked' = locked, waiters' = waiters, granted' = granted,
           ringing' \subseteq ringing
    PROVE  GateInv'
  <1> USE DEF GateInv
  <1>1. GateTypeOK'
    BY DEF GateTypeOK
  <1>2. Holders' = Holders
    BY DEF Holders
  <1>3. LockedForHolder' /\ OneHolder' /\ OpenIsEmpty' /\ QueuedOnce'
    BY <1>2 DEF LockedForHolder, OneHolder, OpenIsEmpty, QueuedOnce
  <1>4. GrantedWait' /\ WaitersQueued'
    BY DEF GrantedWait, WaitersQueued, GateTypeOK
  <1>5. \A i \in 1..Len(waiters) : waiters[i] \in Callers
    BY ElementOfSeq DEF GateTypeOK
  <1>6. QueuedWait'
    BY <1>5 DEF QueuedWait
  <1>7. QED
    BY <1>1, <1>3, <1>4, <1>6

\* So does starting the wait,
LEMMA ParkKeeps ==
    ASSUME GateInv, NEW p \in Callers, Park(p) \/ Abandon(p)
    PROVE  GateInv'
  <1>1. PICK at \in {"parked", "woken"} : gate' = [gate EXCEPT ![p] = at]
    BY DEF Park, Abandon
  <1>2. /\ gate[p] \in {"parking", "parked"}
        /\ locked' = locked /\ waiters' = waiters /\ granted' = granted /\ ringing' = ringing
    BY DEF Park, Abandon
  <1>3. gate' \in [Callers -> GateStates]
    BY <1>1 DEF GateInv, GateTypeOK, GateStates
  <1>4. \A q \in Callers : /\ gate'[q] \in Waiting <=> gate[q] \in Waiting
                           /\ gate'[q] = "in" <=> gate[q] = "in"
    BY <1>1, <1>2 DEF GateInv, GateTypeOK, Waiting
  <1>5. QED
    BY <1>2, <1>3, <1>4, SleepKeeps

\* the cancel that ends it,
LEMMA RingKeeps ==
    ASSUME GateInv, NEW p \in Callers, Ring(p)
    PROVE  GateInv'
  <1>1. PICK q \in Callers :
            /\ gate' = IF gate[q] = "parked" THEN [gate EXCEPT ![q] = "woken"] ELSE gate
            /\ ringing' = ringing \ {<<p, q>>}
            /\ UNCHANGED <<locked, waiters, granted>>
    BY DEF Ring
  <1>2. gate' \in [Callers -> GateStates]
    BY <1>1 DEF GateInv, GateTypeOK, GateStates
  <1>3. \A c \in Callers : /\ gate'[c] \in Waiting <=> gate[c] \in Waiting
                           /\ gate'[c] = "in" <=> gate[c] = "in"
    BY <1>1 DEF GateInv, GateTypeOK, Waiting
  <1>4. QED
    BY <1>1, <1>2, <1>3, SleepKeeps

\* waking up, with the gate or without,
LEMMA WakeKeeps ==
    ASSUME GateInv, NEW p \in Callers, Wake(p)
    PROVE  GateInv'
  <1> USE DEF GateInv
  <1>1. /\ gate[p] = "woken" /\ locked' = locked
        /\ granted' = granted \ {p}
        /\ ringing' = {r \in ringing : r[2] # p}
    BY DEF Wake
  <1>2. GrantedWait'
    <2>1. \A q \in granted' : q \in granted /\ q # p /\ gate'[q] = gate[q]
      BY <1>1 DEF Wake, GateTypeOK
    <2>2. \A r \in ringing' : r \in ringing /\ r[2] # p
      BY <1>1
    <2>3. QED
      BY <2>1, <2>2, <1>1 DEF GrantedWait
  <1>3. CASE p \in granted
    <2>1. gate' = [gate EXCEPT ![p] = "in"] /\ waiters' = waiters
      BY <1>3 DEF Wake
    <2>2. \A i \in 1..Len(waiters) : waiters[i] \in Callers /\ waiters[i] # p
      BY <1>3, ElementOfSeq DEF QueuedWait, GateTypeOK
    <2>3. GateTypeOK'
      BY <1>1, <2>1 DEF GateTypeOK, GateStates
    <2>4. Holders' = Holders
      BY <1>1, <1>3, <2>1 DEF Holders, GateTypeOK
    <2>5. LockedForHolder' /\ OneHolder' /\ QueuedOnce' /\ OpenIsEmpty'
      BY <1>1, <2>1, <2>4 DEF LockedForHolder, OneHolder, QueuedOnce, OpenIsEmpty
    <2>6. QueuedWait'
      BY <1>1, <2>1, <2>2 DEF QueuedWait, GateTypeOK
    <2>7. WaitersQueued'
      BY <1>1, <2>1 DEF WaitersQueued, GateTypeOK, Waiting
    <2>8. QED
      BY <1>2, <2>3, <2>5, <2>6, <2>7
  <1>4. CASE p \notin granted
    <2>1. gate' = [gate EXCEPT ![p] = "out"] /\ waiters' = Erase(p) /\ granted' = granted
      BY <1>1, <1>4 DEF Wake
    <2>2. PICK i \in 1..Len(waiters) : waiters[i] = p
      BY <1>1, <1>4 DEF WaitersQueued, Waiting
    <2> DEFINE n == Len(waiters)
    <2>3. /\ n \in Nat /\ \A j \in 1..n : waiters[j] \in Callers
          /\ waiters' \in Seq(Callers) /\ Len(waiters') = n - 1
          /\ \A j \in 1..(n - 1) : waiters'[j] = IF j < i THEN waiters[j] ELSE waiters[j + 1]
      <3>1. waiters' = RemoveAt(waiters, i)
        BY <2>1, <2>2, EraseFacts
      <3>2. waiters \in Seq(Callers)
        BY DEF GateTypeOK
      <3>3. n \in Nat /\ \A j \in 1..n : waiters[j] \in Callers
        BY <3>2, LenProperties, ElementOfSeq
      <3>4. /\ RemoveAt(waiters, i) \in Seq(Callers)
            /\ Len(RemoveAt(waiters, i)) = Len(waiters) - 1
            /\ \A j \in 1..(Len(waiters) - 1) :
                 RemoveAt(waiters, i)[j] = IF j < i THEN waiters[j] ELSE waiters[j + 1]
        BY <3>2, RemoveAtFacts
      <3>5. QED
        BY <3>1, <3>3, <3>4
    <2> HIDE DEF n
    <2>4. \A j \in 1..n : waiters[j] = p => j = i
      BY <2>2 DEF QueuedOnce, n
    <2>5. \A j \in 1..(n - 1) :
             \E k \in 1..n : k # i /\ waiters'[j] = waiters[k]
                            /\ k = IF j < i THEN j ELSE j + 1
      BY <2>2, <2>3 DEF n
    <2>6. GateTypeOK'
      BY <1>1, <2>1, <2>3 DEF GateTypeOK, GateStates
    <2>7. Holders' = Holders
      BY <1>1, <1>4, <2>1 DEF Holders, GateTypeOK
    <2>8. LockedForHolder' /\ OneHolder'
      BY <1>1, <2>7 DEF LockedForHolder, OneHolder
    <2>9. OpenIsEmpty'
      BY <1>1, <2>2, EmptySeq DEF OpenIsEmpty
    <2>10. QueuedWait'
      <3> SUFFICES ASSUME NEW j \in 1..(n - 1)
                   PROVE  gate'[waiters'[j]] \in Waiting /\ waiters'[j] \notin granted'
        BY <2>3 DEF QueuedWait
      <3>1. PICK k \in 1..n : k # i /\ waiters'[j] = waiters[k]
        BY <2>5
      <3>2. waiters[k] # p /\ waiters[k] \in Callers
        BY <3>1, <2>3, <2>4
      <3>3. gate[waiters[k]] \in Waiting /\ waiters[k] \notin granted
        BY DEF QueuedWait, n
      <3>4. QED
        BY <3>1, <3>2, <3>3, <2>1 DEF GateTypeOK
    <2>11. QueuedOnce'
      <3> SUFFICES ASSUME NEW j \in 1..(n - 1), NEW h \in 1..(n - 1), waiters'[j] = waiters'[h]
                   PROVE  j = h
        BY <2>3 DEF QueuedOnce
      <3>1. PICK k \in 1..n : waiters'[j] = waiters[k] /\ k = IF j < i THEN j ELSE j + 1
        BY <2>5
      <3>2. PICK m \in 1..n : waiters'[h] = waiters[m] /\ m = IF h < i THEN h ELSE h + 1
        BY <2>5
      <3>3. k = m
        BY <3>1, <3>2 DEF QueuedOnce, n
      <3>4. QED
        BY <3>1, <3>2, <3>3, <2>3, <2>2
    <2>12. WaitersQueued'
      <3> SUFFICES ASSUME NEW q \in Callers, gate'[q] \in Waiting, q \notin granted'
                   PROVE  \E j \in 1..(n - 1) : waiters'[j] = q
        BY <2>3 DEF WaitersQueued
      <3>1. q # p /\ gate[q] \in Waiting /\ q \notin granted
        BY <2>1 DEF GateTypeOK, Waiting
      <3>2. PICK k \in 1..n : waiters[k] = q
        BY <3>1 DEF WaitersQueued, n
      <3>3. k # i /\ i \in 1..n
        BY <3>1, <3>2, <2>2 DEF n
      <3>4. CASE k < i
        <4>1. k \in 1..(n - 1)
          BY <3>3, <3>4, <2>3
        <4>2. QED
          BY <4>1, <3>2, <3>4, <2>3
      <3>5. CASE k > i
        <4>1. k - 1 \in 1..(n - 1) /\ ~(k - 1 < i) /\ (k - 1) + 1 = k
          BY <3>3, <3>5, <2>3
        <4>2. QED
          BY <4>1, <3>2, <2>3
      <3>6. QED
        BY <3>3, <3>4, <3>5, <2>3
    <2>13. QED
      BY <1>2, <2>6, <2>8, <2>9, <2>10, <2>11, <2>12
  <1>5. QED
    BY <1>3, <1>4

\* unlock(),
LEMMA LeaveKeeps ==
    ASSUME GateInv, NEW p \in Callers, Leave(p)
    PROVE  GateInv'
  <1> USE DEF GateInv
  <1>1. gate[p] = "in" /\ gate' = [gate EXCEPT ![p] = "out"]
    BY DEF Leave
  <1>2. Holders = {p} /\ granted = {} /\ ringing = {} /\ locked
    BY <1>1 DEF Holders, OneHolder, GrantedWait, LockedForHolder, GateTypeOK, Waiting
  <1>3. CASE waiters = <<>>
    <2>1. /\ locked' = FALSE /\ waiters' = waiters /\ granted' = granted
          /\ ringing' = ringing
      BY <1>3 DEF Leave
    <2>2. Len(waiters') = 0 /\ Holders' = {}
      BY <1>1, <1>2, <1>3, <2>1, EmptySeq DEF Holders, GateTypeOK
    <2>3. GateTypeOK'
      BY <1>1, <2>1 DEF GateTypeOK, GateStates
    <2>4. WaitersQueued'
      BY <1>1, <2>1 DEF WaitersQueued, GateTypeOK, Waiting
    <2>5. QED
      BY <1>2, <1>3, <2>1, <2>2, <2>3, <2>4
         DEF LockedForHolder, OneHolder, GrantedWait, QueuedWait, QueuedOnce, OpenIsEmpty
  <1>4. CASE waiters # <<>>
    <2> DEFINE q == Head(waiters)
    <2> DEFINE n == Len(waiters)
    <2>1. /\ locked' = locked /\ waiters' = Tail(waiters)
          /\ granted' = {q} /\ ringing' = {<<p, q>>}
      BY <1>2, <1>4 DEF Leave
    <2>2. /\ n \in Nat \ {0} /\ \A i \in 1..n : waiters[i] \in Callers
          /\ q = waiters[1] /\ q \in Callers
          /\ waiters' \in Seq(Callers) /\ Len(waiters') = n - 1
          /\ \A i \in 1..(n - 1) : waiters'[i] = waiters[i + 1]
      BY <1>4, <2>1, HeadTailProperties, LenProperties, ElementOfSeq, EmptySeq DEF GateTypeOK
    <2>3. \A i \in 1..n : gate[waiters[i]] \in Waiting /\ waiters[i] # p
      BY <1>1 DEF QueuedWait, Waiting
    <2>4. \A i, j \in 1..n : waiters[i] = waiters[j] => i = j
      BY DEF QueuedOnce
    <2> HIDE DEF q, n
    <2>5. 1 \in 1..n /\ gate[q] \in Waiting /\ q # p
      BY <2>2, <2>3
    <2>6. GateTypeOK'
      BY <1>1, <2>1, <2>2 DEF GateTypeOK, GateStates
    <2>7. Holders' = {q}
      BY <1>1, <1>2, <2>1, <2>2, <2>5 DEF Holders, GateTypeOK
    <2>8. LockedForHolder' /\ OneHolder' /\ OpenIsEmpty'
      BY <1>2, <2>1, <2>7 DEF LockedForHolder, OneHolder, OpenIsEmpty
    <2>9. GrantedWait'
      BY <1>1, <2>1, <2>2, <2>5 DEF GrantedWait, GateTypeOK
    <2>10. QueuedWait'
      <3> SUFFICES ASSUME NEW i \in 1..(n - 1)
                   PROVE  gate'[waiters'[i]] \in Waiting /\ waiters'[i] \notin granted'
        BY <2>2 DEF QueuedWait
      <3>1. i + 1 \in 1..n /\ waiters'[i] = waiters[i + 1] /\ i + 1 # 1
        BY <2>2
      <3>2. waiters[i + 1] # q
        BY <3>1, <2>2, <2>4, <2>5
      <3>3. gate[waiters[i + 1]] \in Waiting /\ waiters[i + 1] # p /\ waiters[i + 1] \in Callers
        BY <3>1, <2>2, <2>3
      <3>4. QED
        BY <3>1, <3>2, <3>3, <1>1, <2>1 DEF GateTypeOK
    <2>11. QueuedOnce'
      <3> SUFFICES ASSUME NEW i \in 1..(n - 1), NEW j \in 1..(n - 1), waiters'[i] = waiters'[j]
                   PROVE  i = j
        BY <2>2 DEF QueuedOnce
      <3>1. i + 1 \in 1..n /\ j + 1 \in 1..n /\ waiters[i + 1] = waiters[j + 1]
        BY <2>2
      <3>2. i + 1 = j + 1
        BY <3>1, <2>4
      <3>3. QED
        BY <3>2
    <2>12. WaitersQueued'
      <3> SUFFICES ASSUME NEW c \in Callers, gate'[c] \in Waiting, c # q
                   PROVE  \E i \in 1..(n - 1) : waiters'[i] = c
        BY <2>1, <2>2 DEF WaitersQueued
      <3>1. gate[c] \in Waiting
        BY <1>1 DEF GateTypeOK, Waiting
      <3>2. PICK k \in 1..n : waiters[k] = c
        BY <3>1, <1>2 DEF WaitersQueued, n
      <3>3. k - 1 \in 1..(n - 1) /\ (k - 1) + 1 = k
        BY <3>2, <2>2
      <3>4. QED
        BY <3>2, <3>3, <2>2
    <2>13. QED
      BY <2>6, <2>8, <2>9, <2>10, <2>11, <2>12
  <1>5. QED
    BY <1>3, <1>4

\* and so every step of the gate.
LEMMA GateStepKeeps ==
    ASSUME GateInv, [\E p \in Callers : GateStep(p)]_gateVars
    PROVE  GateInv'
  <1>1. CASE \E p \in Callers : GateStep(p)
    BY <1>1, EnterKeeps, ParkKeeps, WakeKeeps, LeaveKeeps, RingKeeps DEF GateStep
  <1>2. CASE UNCHANGED gateVars
    BY <1>2, SleepKeeps DEF gateVars, GateInv, GateTypeOK
  <1>3. QED
    BY <1>1, <1>2

\* The books of the gate always agree (http_session.cpp:38-98).
THEOREM GateKept == GateSpec => []GateInv
  <1>1. GateInv /\ [\E p \in Callers : GateStep(p)]_gateVars => GateInv'
    BY GateStepKeeps
  <1>2. QED
    BY InitGate, <1>1, PTL DEF GateSpec

\* With its books in order the gate has at most one caller through.
LEMMA GateInvExcludes == GateInv => MutualExclusion
  BY DEF GateInv, OneHolder, Holders, MutualExclusion

\* Whatever is cancelled, and however the threads interleave, two callers never
\* use the connection together (http_session.cpp:202).
THEOREM GateExcludes == GateSpec => []MutualExclusion
  BY GateKept, GateInvExcludes, PTL

----------------------------------------------------------------------------
(* The callers of the gate stand in a line (FifoLine).                     *)

\* The line when the gate is open, and when it is held.
LEMMA LineFacts ==
    ASSUME GateInv
    PROVE  /\ Holders = {} => Line = <<>> /\ waiters = <<>>
           /\ \A h \in Holders : Holders = {h} /\ h \in Callers /\ Line = <<h>> \o waiters
  <1>1. Holders = {} => Line = <<>> /\ waiters = <<>>
    BY DEF Line, GateInv, LockedForHolder, OpenIsEmpty
  <1>2. ASSUME NEW h \in Holders
        PROVE  Holders = {h} /\ h \in Callers /\ Line = <<h>> \o waiters
    <2>1. Holders = {h} /\ h \in Callers
      BY DEF GateInv, OneHolder, Holders
    <2>2. (CHOOSE q \in Callers : q \in Holders) = h
      BY <2>1
    <2>3. QED
      BY <2>1, <2>2 DEF Line
  <1>3. QED
    BY <1>1, <1>2

\* The line of a holder and the queue behind it.
LEMMA HeadFacts ==
    ASSUME NEW h \in Callers, NEW w \in Seq(Callers)
    PROVE  /\ <<h>> \o w \in Seq(Callers)
           /\ Len(<<h>> \o w) = Len(w) + 1
           /\ (<<h>> \o w)[1] = h
           /\ \A i \in 1..Len(w) : (<<h>> \o w)[i + 1] = w[i]
           /\ <<h>> \o w # <<>>
  <1>1. <<h>> \in Seq(Callers) /\ Len(<<h>>) = 1 /\ <<h>>[1] = h /\ Len(w) \in Nat
    BY LenProperties
  <1>2. /\ <<h>> \o w \in Seq(Callers)
        /\ Len(<<h>> \o w) = 1 + Len(w)
        /\ \A i \in 1..(1 + Len(w)) : (<<h>> \o w)[i] = IF i <= 1 THEN <<h>>[i] ELSE w[i - 1]
    BY <1>1, ConcatProperties
  <1>3. (<<h>> \o w)[1] = h
    BY <1>1, <1>2
  <1>4. ASSUME NEW i \in 1..Len(w) PROVE (<<h>> \o w)[i + 1] = w[i]
    <2>1. i + 1 \in 1..(1 + Len(w)) /\ ~(i + 1 <= 1) /\ (i + 1) - 1 = i
      BY <1>1
    <2>2. QED
      BY <1>2, <2>1
  <1>5. <<h>> \o w # <<>>
    BY <1>1, <1>2, EmptySeq
  <1>6. QED
    BY <1>1, <1>2, <1>3, <1>4, <1>5

\* The line after a step, from who holds the gate then.
LEMMA NextLine ==
    ASSUME NEW h \in Callers, Holders' = {h}
    PROVE  Line' = <<h>> \o waiters'
  <1>1. (CHOOSE q \in Callers : q \in Holders') = h
    OBVIOUS
  <1>2. QED
    BY <1>1 DEF Line

\* lock() joins the line at its end.
LEMMA EnterJoins ==
    ASSUME GateInv, NEW p \in Callers, Enter(p)
    PROVE  Order!Join(p)
  <1>0. waiters \in Seq(Callers) /\ Len(waiters) \in Nat /\ gate[p] = "out"
    BY LenProperties DEF GateInv, GateTypeOK, Enter
  <1>1. CASE ~locked
    <2>1. Holders = {} /\ Holders' = {p} /\ waiters' = waiters
      BY <1>1 DEF Enter, Holders, GateInv, GateTypeOK, LockedForHolder
    <2>2. Line = <<>> /\ waiters = <<>>
      BY <2>1, LineFacts
    <2>3. Line' = <<p>> \o <<>>
      BY <2>1, <2>2, NextLine
    <2>4. <<p>> \o <<>> = Append(<<>>, p)
      OBVIOUS
    <2>5. ~Order!InLine(p)
      BY <2>2, EmptySeq DEF Order!InLine
    <2>6. QED
      BY <2>2, <2>3, <2>4, <2>5 DEF Order!Join
  <1>2. CASE locked
    <2>1. /\ gate' = [gate EXCEPT ![p] = "parking"] /\ waiters' = Append(waiters, p)
          /\ granted' = granted
      BY <1>2 DEF Enter
    <2>2. PICK h \in Holders : TRUE
      BY <1>2 DEF GateInv, LockedForHolder
    <2>3. Holders = {h} /\ h \in Callers /\ Line = <<h>> \o waiters
      BY <2>2, LineFacts
    <2>4. Holders' = Holders
      BY <1>0, <2>1 DEF Holders, GateInv, GateTypeOK
    <2>5. Line' = <<h>> \o Append(waiters, p)
      BY <2>1, <2>3, <2>4, NextLine
    <2>6. <<h>> \o Append(waiters, p) = Append(<<h>> \o waiters, p)
      <3>1. /\ Append(waiters, p) \in Seq(Callers) /\ Len(Append(waiters, p)) = Len(waiters) + 1
            /\ \A i \in 1..Len(waiters) : Append(waiters, p)[i] = waiters[i]
            /\ Append(waiters, p)[Len(waiters) + 1] = p
        BY <1>0, AppendProperties
      <3> DEFINE l == <<h>> \o waiters
                 r == <<h>> \o Append(waiters, p)
      <3>2. /\ l \in Seq(Callers) /\ Len(l) = Len(waiters) + 1 /\ l[1] = h
            /\ \A i \in 1..Len(waiters) : l[i + 1] = waiters[i]
        BY <1>0, <2>3, HeadFacts
      <3>3. /\ r \in Seq(Callers) /\ Len(r) = Len(waiters) + 2 /\ r[1] = h
            /\ \A i \in 1..(Len(waiters) + 1) : r[i + 1] = Append(waiters, p)[i]
        BY <1>0, <2>3, <3>1, HeadFacts
      <3> HIDE DEF l, r
      <3>4. /\ Append(l, p) \in Seq(Callers) /\ Len(Append(l, p)) = Len(l) + 1
            /\ \A i \in 1..Len(l) : Append(l, p)[i] = l[i]
            /\ Append(l, p)[Len(l) + 1] = p
        BY <3>2, AppendProperties
      <3>5. ASSUME NEW i \in 1..Len(r) PROVE r[i] = Append(l, p)[i]
        <4>1. CASE i = 1
          BY <4>1, <3>2, <3>3, <3>4, <1>0
        <4>2. CASE i - 1 \in 1..Len(waiters)
          <5>1. r[i] = waiters[i - 1]
            BY <4>2, <3>1, <3>3, <1>0
          <5>2. l[i] = waiters[i - 1] /\ i \in 1..Len(l)
            BY <4>2, <3>2, <1>0
          <5>3. QED
            BY <5>1, <5>2, <3>4
        <4>3. CASE i = Len(waiters) + 2
          BY <4>3, <3>1, <3>2, <3>3, <3>4, <1>0
        <4>4. i = 1 \/ i - 1 \in 1..Len(waiters) \/ i = Len(waiters) + 2
          <5>1. i \in 1..(Len(waiters) + 2) /\ Len(waiters) \in Nat
            BY <3>3, <1>0
          <5>2. QED
            BY <5>1
        <4>5. QED
          BY <4>1, <4>2, <4>3, <4>4
      <3>6. r = Append(l, p)
        BY <3>2, <3>3, <3>4, <3>5, <1>0, SeqEqual
      <3>7. QED
        BY <3>6 DEF l, r
    <2>7. ~Order!InLine(p)
      <3>1. p # h /\ \A i \in 1..Len(waiters) : waiters[i] # p
        BY <1>0, <2>3 DEF GateInv, GrantedWait, QueuedWait, Waiting, Holders
      <3>2. /\ Len(Line) = Len(waiters) + 1 /\ Line[1] = h
            /\ \A i \in 1..Len(waiters) : Line[i + 1] = waiters[i]
        BY <1>0, <2>3, HeadFacts
      <3>3. ASSUME NEW j \in 1..Len(Line) PROVE Line[j] # p
        <4>1. CASE j = 1
          BY <4>1, <3>1, <3>2
        <4>2. CASE j # 1
          <5>1. j - 1 \in 1..Len(waiters) /\ (j - 1) + 1 = j
            BY <4>2, <3>2, <1>0
          <5>2. QED
            BY <5>1, <3>1, <3>2
        <4>3. QED
          BY <4>1, <4>2
      <3>4. QED
        BY <3>3 DEF Order!InLine
    <2>8. QED
      BY <2>3, <2>5, <2>6, <2>7 DEF Order!Join
  <1>3. QED
    BY <1>1, <1>2 DEF GateInv, GateTypeOK

\* Parking, being cancelled and being rung leave every caller at its place.
LEMMA SleepStays ==
    ASSUME GateInv, NEW p \in Callers, Park(p) \/ Abandon(p) \/ Ring(p)
    PROVE  Line' = Line
  <1>1. waiters' = waiters /\ granted' = granted
    BY DEF Park, Abandon, Ring
  <1>2. \A q \in Callers : gate'[q] = "in" <=> gate[q] = "in"
    BY DEF Park, Abandon, Ring, GateInv, GateTypeOK
  <1>3. Holders' = Holders
    BY <1>1, <1>2 DEF Holders
  <1>4. QED
    BY <1>1, <1>3 DEF Line

\* A caller woken without the gate steps out from behind the holder; one woken with it stays where it was.
LEMMA WakeGivesUp ==
    ASSUME GateInv, NEW p \in Callers, Wake(p)
    PROVE  Line' = Line \/ \E i \in 2..Len(Line) : Order!GiveUp(i)
  <1>0. waiters \in Seq(Callers) /\ Len(waiters) \in Nat /\ gate[p] = "woken"
        /\ granted' = granted \ {p}
    BY LenProperties DEF GateInv, GateTypeOK, Wake
  <1>1. Holders' = Holders
    BY DEF Wake, Holders, GateInv, GateTypeOK
  <1>2. CASE p \in granted
    BY <1>1, <1>2 DEF Wake, Line
  <1>3. CASE p \notin granted
    <2>1. PICK i \in 1..Len(waiters) : waiters[i] = p
      BY <1>0, <1>3 DEF GateInv, WaitersQueued, Waiting
    <2>2. waiters' = RemoveAt(waiters, i)
      BY <1>3, <2>1, EraseFacts DEF Wake, GateInv
    <2>3. PICK h \in Holders : TRUE
      BY <2>1, EmptySeq DEF GateInv, OpenIsEmpty, LockedForHolder
    <2>4. Holders = {h} /\ h \in Callers /\ Line = <<h>> \o waiters
      BY <2>3, LineFacts
    <2>5. Line' = <<h>> \o RemoveAt(waiters, i)
      BY <1>1, <2>2, <2>4, NextLine
    <2>6. /\ Line \in Seq(Callers) /\ Len(Line) = Len(waiters) + 1 /\ Line[1] = h
          /\ \A j \in 1..Len(waiters) : Line[j + 1] = waiters[j]
      BY <1>0, <2>4, HeadFacts
    <2>7. i + 1 \in 2..Len(Line) /\ i + 1 \in 1..Len(Line)
      BY <1>0, <2>1, <2>6
    <2>8. Line' = RemoveAt(Line, i + 1)
      <3> DEFINE w == RemoveAt(waiters, i)
                 l == <<h>> \o w
                 r == RemoveAt(Line, i + 1)
                 n == Len(waiters)
      <3>1. /\ w \in Seq(Callers) /\ Len(w) = n - 1
            /\ \A j \in 1..(n - 1) : w[j] = IF j < i THEN waiters[j] ELSE waiters[j + 1]
        BY <1>0, RemoveAtFacts
      <3>2. /\ r \in Seq(Callers) /\ Len(r) = Len(Line) - 1
            /\ \A j \in 1..(Len(Line) - 1) : r[j] = IF j < i + 1 THEN Line[j] ELSE Line[j + 1]
        BY <2>6, <2>7, RemoveAtFacts
      <3> HIDE DEF w, r
      <3>3. /\ l \in Seq(Callers) /\ Len(l) = Len(w) + 1 /\ l[1] = h
            /\ \A j \in 1..Len(w) : l[j + 1] = w[j]
        BY <2>4, <3>1, HeadFacts
      <3>4. n \in Nat /\ i \in 1..n /\ Len(l) = n /\ Len(r) = n
        BY <1>0, <2>1, <2>6, <3>1, <3>2, <3>3
      <3> HIDE DEF l, n
      <3>5. ASSUME NEW j \in 1..n PROVE l[j] = r[j]
        <4>1. CASE j = 1
          BY <4>1, <2>6, <3>2, <3>3, <3>4 DEF n
        <4>2. CASE j # 1
          <5>1. j - 1 \in 1..(n - 1) /\ (j - 1) + 1 = j
            BY <4>2, <3>4
          <5>2. l[j] = IF j - 1 < i THEN waiters[j - 1] ELSE waiters[j]
            BY <5>1, <3>1, <3>3
          <5>3. r[j] = IF j < i + 1 THEN Line[j] ELSE Line[j + 1]
            BY <3>2, <2>6 DEF n
          <5>4. Line[j] = waiters[j - 1] /\ Line[j + 1] = waiters[j]
            BY <5>1, <2>6, <3>4 DEF n
          <5>5. j - 1 < i <=> j < i + 1
            BY <3>4
          <5>6. QED
            BY <5>2, <5>3, <5>4, <5>5
        <4>3. QED
          BY <4>1, <4>2
      <3>6. l = r
        BY <3>2, <3>3, <3>4, <3>5, SeqEqual
      <3>7. QED
        BY <3>6, <2>5 DEF l, r, w
    <2>9. QED
      BY <2>7, <2>8 DEF Order!GiveUp, Order!RemoveAt, RemoveAt
  <1>4. QED
    BY <1>2, <1>3

\* unlock() takes the head off the line, whoever is next.
LEMMA LeaveIsDone ==
    ASSUME GateInv, NEW p \in Callers, Leave(p)
    PROVE  Order!HeadDone
  <1>0. waiters \in Seq(Callers) /\ Len(waiters) \in Nat
        /\ gate[p] = "in" /\ gate' = [gate EXCEPT ![p] = "out"]
    BY LenProperties DEF GateInv, GateTypeOK, Leave
  <1>1. p \in Holders
    BY <1>0 DEF Holders
  <1>2. Holders = {p} /\ Line = <<p>> \o waiters /\ granted = {}
    BY <1>0, <1>1, LineFacts DEF GateInv, GrantedWait, GateTypeOK, Holders, Waiting
  <1>3. /\ Line \in Seq(Callers) /\ Len(Line) = Len(waiters) + 1 /\ Line # <<>>
        /\ \A j \in 1..Len(waiters) : Line[j + 1] = waiters[j]
    BY <1>0, <1>2, HeadFacts
  <1>4. Tail(Line) = waiters
    <2>1. /\ Tail(Line) \in Seq(Callers) /\ Len(Tail(Line)) = Len(Line) - 1
          /\ \A j \in 1..Len(Tail(Line)) : Tail(Line)[j] = Line[j + 1]
      BY <1>3, HeadTailProperties
    <2>2. Len(Tail(Line)) = Len(waiters)
      BY <1>0, <1>3, <2>1
    <2>3. \A j \in 1..Len(waiters) : Tail(Line)[j] = waiters[j]
      BY <1>3, <2>1, <2>2
    <2>4. QED
      BY <1>0, <2>1, <2>2, <2>3, SeqEqual
  <1>5. CASE waiters = <<>>
    <2>1. Holders' = {}
      BY <1>0, <1>2, <1>5 DEF Leave, Holders, GateInv, GateTypeOK
    <2>2. QED
      BY <1>3, <1>4, <1>5, <2>1 DEF Line, Order!HeadDone
  <1>6. CASE waiters # <<>>
    <2> DEFINE q == Head(waiters)
    <2>1. granted' = {q} /\ waiters' = Tail(waiters)
      BY <1>2, <1>6 DEF Leave
    <2>2. /\ q \in Callers /\ Tail(waiters) \in Seq(Callers) /\ q = waiters[1]
          /\ Len(Tail(waiters)) = Len(waiters) - 1 /\ Len(waiters) \in Nat \ {0}
          /\ \A j \in 1..Len(Tail(waiters)) : Tail(waiters)[j] = waiters[j + 1]
      BY <1>0, <1>6, HeadTailProperties, EmptySeq
    <2> HIDE DEF q
    <2>3. Holders' = {q}
      BY <1>0, <1>2, <2>1, <2>2 DEF Holders, GateInv, GateTypeOK
    <2>4. Line' = <<q>> \o Tail(waiters)
      BY <2>1, <2>2, <2>3, NextLine
    <2>5. <<q>> \o Tail(waiters) = waiters
      <3> DEFINE l == <<q>> \o Tail(waiters)
      <3>1. /\ l \in Seq(Callers) /\ Len(l) = Len(Tail(waiters)) + 1 /\ l[1] = q
            /\ \A j \in 1..Len(Tail(waiters)) : l[j + 1] = Tail(waiters)[j]
        BY <2>2, HeadFacts
      <3> HIDE DEF l
      <3>2. Len(l) = Len(waiters)
        BY <2>2, <3>1
      <3>3. ASSUME NEW j \in 1..Len(waiters) PROVE l[j] = waiters[j]
        <4>1. CASE j = 1
          BY <4>1, <2>2, <3>1
        <4>2. CASE j # 1
          <5>1. j - 1 \in 1..Len(Tail(waiters)) /\ (j - 1) + 1 = j
            BY <4>2, <2>2
          <5>2. QED
            BY <5>1, <2>2, <3>1
        <4>3. QED
          BY <4>1, <4>2
      <3>4. l = waiters
        BY <1>0, <3>1, <3>2, <3>3, SeqEqual
      <3>5. QED
        BY <3>4 DEF l
    <2>6. QED
      BY <1>3, <1>4, <2>4, <2>5 DEF Order!HeadDone
  <1>7. QED
    BY <1>5, <1>6

\* Every step of the gate is a step of the line, or leaves the line as it is.
LEMMA LineSteps ==
    ASSUME GateInv, [\E p \in Callers : GateStep(p)]_gateVars
    PROVE  [Order!LineNext]_Line
  <1>1. ASSUME NEW p \in Callers, GateStep(p) PROVE [Order!LineNext]_Line
    BY <1>1, EnterJoins, SleepStays, WakeGivesUp, LeaveIsDone DEF GateStep, Order!LineNext
  <1>2. CASE UNCHANGED gateVars
    BY <1>2 DEF gateVars, Line, Holders
  <1>3. QED
    BY <1>1, <1>2

\* The gate implements the line: whoever calls lock() is served in turn, one at
\* a time, and only a cancelled waiter leaves the line early
\* (http_session.cpp:38-98).
THEOREM GateServesInOrder == GateSpec => InOrder
  <1>1. GateInit => Order!LineInit
    BY DEF GateInit, Order!LineInit, Line, Holders
  <1>2. GateInv /\ [\E p \in Callers : GateStep(p)]_gateVars => [Order!LineNext]_Line
    BY LineSteps
  <1>3. QED
    BY <1>1, <1>2, GateKept, PTL DEF GateSpec, InOrder, Order!LineSpec
=============================================================================
