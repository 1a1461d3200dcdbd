------------------------ MODULE OrderServices_proofs ------------------------
(***************************************************************************)
(* What the order services' journal can be relied on for, for any          *)
(* placements, failures and restarts.                                      *)
(*                                                                         *)
(* Placed says how far each placement can have got at each stage,          *)
(* OneReconciler that at most one of them goes through the pending records,*)
(* RecordsRight that no record is wrong about the venue nor ever becomes   *)
(* so, unless the placement was told of a server's error (Rejectable),     *)
(* IntentWritten that an order is not sent before its intent is in the     *)
(* file in one piece.  As long as no record follows a torn one (TornIsLast *)
(* never comes true again once it is false) that intent is read back, so   *)
(* the restarted services know the order (Remembered).  A record of an     *)
(* order as rejected is its placement's last (RejectedIsDone), which       *)
(* together with ReadWhole, what one more record changes in what is read,  *)
(* makes the file a ledger as OrderLedger describes it.                    *)
(***************************************************************************)
EXTENDS OrderServices, SequenceTheorems, WellFoundedInduction, TLAPS

Before == {"new", "copy", "reconcile", "intent"}
Sent(o) == MayBeLive(o) \/ stage[o] \in {"sent", "answered"}

Placed ==
    \A o \in Orders :
        /\ o \in transit => venue[o] = "none"
        /\ stage[o] \in Before => o \notin transit /\ venue[o] = "none"
        /\ stage[o] \in Before \cup {"sent"} => answer[o] = "none"
        /\ stage[o] = "answered" =>
            /\ answer[o] \in Replies
            /\ answer[o] = "accepted" => venue[o] = "live"
            /\ answer[o] = "refused" => ~MayBeLive(o)

OneReconciler ==
    /\ \A o, p \in Orders :
        {stage[o], stage[p]} \subseteq {"copy", "reconcile"} => o = p
    /\ \A o \in Orders :
        /\ stage[o] \in {"copy", "reconcile"} => reconciled
        /\ stage[o] = "copy" => todo = {}
    /\ ~reconciled => todo = {}

\* An order that will not be live, or of which its answer does not tell.
Rejectable(o) == (~MayBeLive(o) \/ answer[o] = "error") /\ stage[o] \notin Before

RecordsRight ==
    \A i \in 1..Len(file) :
        /\ file[i].state = "Accepted" => venue[file[i].order] = "live"
        /\ file[i].state = "Rejected" => Rejectable(file[i].order)

RejectedIsDone ==
    \A i \in 1..Len(file) : file[i].state = "Rejected" => stage[file[i].order] = "done"

HasIntent(records, o) ==
    \E i \in 1..Len(records) :
        records[i].op = "R" /\ records[i].order = o /\ records[i].cut = "whole"

IntentWritten == \A o \in Orders : Sent(o) => HasIntent(file, o)

Remembered == TornIsLast => \A o \in Orders : Sent(o) => memory[ServiceOf[o]][o] # "none"

IInv ==
    /\ TypeOK
    /\ Placed
    /\ OneReconciler
    /\ RecordsRight
    /\ RejectedIsDone
    /\ IntentWritten
    /\ WriteAhead
    /\ Remembered

----------------------------------------------------------------------------
(* The file.                                                               *)

\* What appending a record to the file changes.
LEMMA Appended ==
    ASSUME NEW f \in Seq(Record), NEW r \in Record
    PROVE  /\ Append(f, r) \in Seq(Record)
           /\ Len(f) \in Nat
           /\ Len(Append(f, r)) = Len(f) + 1
           /\ \A i \in 1..Len(f) : Append(f, r)[i] = f[i]
           /\ Append(f, r)[Len(f) + 1] = r
           /\ \A i \in 1..Len(f) : f[i] \in Record
  OBVIOUS

\* A set of indices that is not empty has a greatest one.
LEMMA HasMax ==
    ASSUME NEW n \in Nat, NEW S \in SUBSET (1..n), S # {}
    PROVE  Max(S) \in S
  <1> DEFINE D == {k \in Nat : n - k \in S}
  <1>1. D \in SUBSET Nat /\ D # {}
    <2>1. PICK i \in S : TRUE
      OBVIOUS
    <2>2. n - i \in Nat /\ n - (n - i) = i
      OBVIOUS
    <2>3. QED
      BY <2>1, <2>2
  <1> HIDE DEF D
  <1>2. PICK d \in D : \A e \in D : d <= e
    <2>1. PICK d \in D : \A e \in D : <<e, d>> \notin OpToRel(<, Nat)
      BY <1>1, WFMin, NatLessThanWellFounded
    <2>2. \A e \in D : ~(e < d)
      BY <1>1, <2>1 DEF OpToRel
    <2>3. QED
      BY <1>1, <2>2
  <1>3. n - d \in S /\ d \in Nat
    BY <1>2 DEF D
  <1>4. ASSUME NEW j \in S PROVE n - d >= j
    <2>1. n - j \in Nat /\ n - (n - j) = j
      OBVIOUS
    <2>2. n - j \in D
      BY <2>1 DEF D
    <2>3. QED
      BY <1>2, <1>3, <2>1, <2>2
  <1>5. QED
    BY <1>3, <1>4 DEF Max

\* What a restart takes an order for is what one of its records says.
LEMMA LoadedIsWritten ==
    ASSUME NEW f \in Seq(Record), NEW o \in Orders, Loaded(f)[o] # "none"
    PROVE  \E i \in 1..Len(f) : f[i].order = o /\ f[i].state = Loaded(f)[o]
  <1>1. RecordsOf(f, o) # {} /\ Loaded(f)[o] = f[Max(RecordsOf(f, o))].state
    BY DEF Loaded
  <1>2. Len(f) \in Nat /\ RecordsOf(f, o) \in SUBSET (1..Len(f))
    BY DEF RecordsOf
  <1>3. Max(RecordsOf(f, o)) \in RecordsOf(f, o)
    BY <1>1, <1>2, HasMax
  <1>4. QED
    BY <1>1, <1>3 DEF RecordsOf

\* States are what a restart makes of the records.
LEMMA LoadedType ==
    ASSUME NEW f \in Seq(Record)
    PROVE  Loaded(f) \in [Orders -> PlacementState \cup {"none"}]
  <1>1. ASSUME NEW o \in Orders PROVE Loaded(f)[o] \in PlacementState \cup {"none"}
    <2>1. CASE Loaded(f)[o] = "none"
      BY <2>1
    <2>2. CASE Loaded(f)[o] # "none"
      <3>1. \A i \in 1..Len(f) : f[i] \in Record
        OBVIOUS
      <3>2. PICK i \in 1..Len(f) : f[i].state = Loaded(f)[o]
        BY <2>2, LoadedIsWritten
      <3>3. f[i].state \in PlacementState
        BY <3>1 DEF Record
      <3>4. QED
        BY <3>2, <3>3
    <2>3. QED
      BY <2>1, <2>2
  <1>2. QED
    BY <1>1 DEF Loaded

\* An intent written in one piece is read back, unless it follows a torn record.
LEMMA IntentIsRead ==
    ASSUME NEW f \in Seq(Record), NEW o \in Orders, HasIntent(f, o),
           \A i \in 1..Len(f) : f[i].cut # "whole" => i = Len(f)
    PROVE  Loaded(f)[o] # "none"
  <1>1. PICK i \in 1..Len(f) : f[i].op = "R" /\ f[i].order = o /\ f[i].cut = "whole"
    BY DEF HasIntent
  <1>2. Len(f) \in Nat /\ \A j \in 1..Len(f) : f[j] \in Record
    OBVIOUS
  <1>3. i = 1 \/ f[i - 1].cut = "whole"
    BY <1>2
  <1>4. i \in RecordsOf(f, o)
    BY <1>1, <1>3 DEF RecordsOf, Readable
  <1>5. Max(RecordsOf(f, o)) \in RecordsOf(f, o)
    BY <1>2, <1>4, HasMax DEF RecordsOf
  <1>6. f[Max(RecordsOf(f, o))].state \in PlacementState
    BY <1>2, <1>5 DEF RecordsOf, Record
  <1>7. QED
    BY <1>1, <1>4, <1>6 DEF Loaded, PlacementState

----------------------------------------------------------------------------
(* What a step does to the file.                                           *)

\* The file is left alone, or is longer by the record r, however much of it.
Adds(r) ==
    /\ file' \in Seq(Record)
    /\ \/ file' = file
       \/ /\ Len(file') = Len(file) + 1
          /\ \A i \in 1..Len(file) : file'[i] = file[i]
          /\ \E cut \in Cuts : file'[Len(file) + 1] = [r EXCEPT !.cut = cut]

\* The records of a placement are records.
LEMMA RecordTypes ==
    ASSUME NEW o \in Orders, NEW state \in PlacementState
    PROVE  IntentOf(o) \in Record /\ UpdateOf(o, state) \in Record
  BY DEF IntentOf, UpdateOf, Record, Cuts, PlacementState

\* A record that is written, or of which something is, is added to the file.
LEMMA WrittenIsAdded ==
    ASSUME file \in Seq(Record), NEW r \in Record, r.cut = "whole",
           file' = Append(file, r) \/ file' \in Partly(r)
    PROVE  Adds(r)
  <1>1. CASE file' = file
    BY <1>1 DEF Adds
  <1>2. CASE \E cut \in Cuts : file' = Append(file, [r EXCEPT !.cut = cut])
    <2>1. PICK cut \in Cuts : file' = Append(file, [r EXCEPT !.cut = cut])
      BY <1>2
    <2>2. [r EXCEPT !.cut = cut] \in Record
      BY DEF Record
    <2>3. QED
      BY <2>1, <2>2, Appended DEF Adds
  <1>3. r = [r EXCEPT !.cut = "whole"] /\ "whole" \in Cuts
    BY DEF Record, Cuts
  <1>4. QED
    BY <1>1, <1>2, <1>3 DEF Partly

\* recordIntent: the placement is in the map only with its intent in the file.
LEMMA IntentEffect ==
    ASSUME JournalTypeOK, NEW s \in Services, NEW o \in Orders, NEW saved \in BOOLEAN,
           RecordIntent(s, o, saved)
    PROVE  /\ Adds(IntentOf(o))
           /\ ioFaults' \in Nat
           /\ saved => /\ file' = Append(file, IntentOf(o))
                       /\ memory' = [memory EXCEPT ![s][o] = "UnknownPendingReconcile"]
           /\ ~saved => memory' = memory
  <1>1. IntentOf(o) \in Record /\ IntentOf(o).cut = "whole"
    BY RecordTypes DEF IntentOf, PlacementState
  <1>2. file \in Seq(Record) /\ ioFaults \in Nat
    BY DEF JournalTypeOK
  <1>3. file' = Append(file, IntentOf(o)) \/ file' \in Partly(IntentOf(o))
    BY DEF RecordIntent, AppendRecord
  <1>4. Adds(IntentOf(o))
    BY <1>1, <1>2, <1>3, WrittenIsAdded
  <1>5. QED
    BY <1>2, <1>4 DEF RecordIntent, AppendRecord

\* updateState: the map changes only with a record in the file.
LEMMA UpdateEffect ==
    ASSUME JournalTypeOK, NEW s \in Services, NEW o \in Orders, NEW saved \in BOOLEAN,
           NEW state, memory[s][o] # "none" => state \in PlacementState,
           UpdateState(s, o, state, saved)
    PROVE  /\ ioFaults' \in Nat
           /\ \/ file' = file /\ memory' = memory
              \/ /\ state \in PlacementState /\ memory[s][o] # "none"
                 /\ Adds(UpdateOf(o, state))
                 /\ \/ memory' = memory
                    \/ /\ file' = Append(file, UpdateOf(o, state))
                       /\ memory' = [memory EXCEPT ![s][o] = state]
  <1>1. file \in Seq(Record) /\ ioFaults \in Nat
    BY DEF JournalTypeOK
  <1>2. CASE memory[s][o] = "none"
    BY <1>1, <1>2 DEF UpdateState, journalVars
  <1>3. CASE memory[s][o] # "none"
    <2>1. UpdateOf(o, state) \in Record /\ UpdateOf(o, state).cut = "whole"
      BY <1>3, RecordTypes DEF UpdateOf
    <2>2. file' = Append(file, UpdateOf(o, state)) \/ file' \in Partly(UpdateOf(o, state))
      BY <1>3 DEF UpdateState, AppendRecord
    <2>3. Adds(UpdateOf(o, state))
      BY <1>1, <2>1, <2>2, WrittenIsAdded
    <2>4. QED
      BY <1>1, <1>3, <2>3 DEF UpdateState, AppendRecord
  <1>4. QED
    BY <1>2, <1>3

----------------------------------------------------------------------------
(* What a step does to the journal.                                        *)

\* A record that says no more of its order than is so, and will stay so.
Right(r) ==
    /\ r.state = "Accepted" => venue[r.order] = "live"
    /\ r.state = "Rejected" => Rejectable(r.order)

\* Who writes a record, and what he knows: the placement its intent, first of all, and
\* its answer, last of all; the reconciler that it has found the order.
Sourced(r) ==
    \/ r.op = "R" /\ r.state = "UnknownPendingReconcile" /\ stage[r.order] = "intent"
    \/ r.op = "U" /\ r.state = "Accepted" /\ venue[r.order] = "live"
    \/ /\ r.op = "U" /\ r.state = StateFor(answer[r.order])
       /\ stage[r.order] = "answered" /\ stage'[r.order] = "done"

\* The maps are those of before, or learn of the record, or are loaded again.
Follows(r) ==
    \/ memory' = memory
    \/ /\ file' = Append(file, r)
       /\ \E s \in Services : memory' = [memory EXCEPT ![s][r.order] = r.state]
    \/ memory' = [s \in Services |-> Loaded(file')]

Restarted == file' = file /\ memory' = [s \in Services |-> Loaded(file')]

JournalMoves ==
    /\ ioFaults' \in Nat
    /\ \/ file' = file /\ memory' = memory
       \/ Restarted
       \/ \E r \in Record : Right(r) /\ Sourced(r) /\ Adds(r) /\ Follows(r)

\* What the answer is taken for says no more than is so, but for a server's error.
LEMMA AnswerIsRight ==
    ASSUME Placed, NEW o \in Orders, stage[o] = "answered"
    PROVE  /\ StateFor(answer[o]) \in PlacementState
           /\ StateFor(answer[o]) = "Accepted" => venue[o] = "live"
           /\ StateFor(answer[o]) = "Rejected" => Rejectable(o)
           /\ StateFor(answer[o]) = "UnknownPendingReconcile" => answer[o] # "error"
  <1>1. /\ answer[o] \in Replies
        /\ answer[o] = "accepted" => venue[o] = "live"
        /\ answer[o] = "refused" => ~MayBeLive(o)
    BY DEF Placed
  <1>2. QED
    BY <1>1 DEF StateFor, StateOfSilence, Replies, PlacementState, Rejectable, Before

\* An update of the journal moves it when the record is right.
LEMMA UpdateMoves ==
    ASSUME JournalTypeOK, NEW s \in Services, NEW o \in Orders, NEW saved \in BOOLEAN,
           NEW state, memory[s][o] # "none" => state \in PlacementState,
           UpdateState(s, o, state, saved), Right(UpdateOf(o, state)),
           Sourced(UpdateOf(o, state))
    PROVE  JournalMoves
  <1>1. ioFaults' \in Nat
    BY UpdateEffect
  <1>2. CASE file' = file /\ memory' = memory
    BY <1>1, <1>2 DEF JournalMoves
  <1>3. CASE /\ state \in PlacementState /\ Adds(UpdateOf(o, state))
             /\ \/ memory' = memory
                \/ /\ file' = Append(file, UpdateOf(o, state))
                   /\ memory' = [memory EXCEPT ![s][o] = state]
    <2>1. UpdateOf(o, state) \in Record
      BY <1>3, RecordTypes
    <2>2. UpdateOf(o, state).order = o /\ UpdateOf(o, state).state = state
      BY DEF UpdateOf
    <2>3. Follows(UpdateOf(o, state))
      BY <1>3, <2>2 DEF Follows
    <2>4. QED
      BY <1>1, <1>3, <2>1, <2>3 DEF JournalMoves
  <1>4. QED
    BY <1>2, <1>3, UpdateEffect

\* Whatever the program does, the journal gains at most one record that is right.
LEMMA JournalStep ==
    ASSUME TypeOK, Placed, [Next]_vars
    PROVE  JournalMoves
  <1>0. JournalTypeOK /\ ioFaults \in Nat /\ ServiceOf \in [Orders -> Services]
    BY ServicesAssumption DEF TypeOK, JournalTypeOK
  <1>1. CASE UNCHANGED journalVars
    BY <1>0, <1>1 DEF JournalMoves, journalVars
  <1>2. ASSUME NEW p \in Orders, Finds(p), Confirm(p)
        PROVE  JournalMoves
    <2>1. PICK saved \in BOOLEAN : UpdateState("normal", p, "Accepted", saved)
      BY <1>2 DEF Confirm
    <2>2. Right(UpdateOf(p, "Accepted"))
      BY <1>2 DEF Right, UpdateOf, Finds
    <2>3. Sourced(UpdateOf(p, "Accepted"))
      BY <1>2 DEF Sourced, UpdateOf, Finds
    <2>4. "normal" \in Services /\ "Accepted" \in PlacementState
      BY DEF Services, PlacementState
    <2>5. QED
      BY <1>0, <2>1, <2>2, <2>3, <2>4, UpdateMoves
  <1>3. ASSUME NEW o \in Orders, QueryPending(o)
        PROVE  JournalMoves
    <2>1. todo \subseteq Orders
      BY DEF TypeOK
    <2>2. QED
      BY <1>1, <1>2, <1>3, <2>1 DEF QueryPending, PassOver
  <1>4. ASSUME NEW o \in Orders, SearchHistory(o)
        PROVE  JournalMoves
    <2>1. missing \subseteq Orders
      BY DEF TypeOK
    <2>2. QED
      BY <1>1, <1>2, <1>4, <2>1 DEF SearchHistory, PassOver
  <1>5. ASSUME NEW o \in Orders, WriteIntent(o)
        PROVE  JournalMoves
    <2>1. PICK saved \in BOOLEAN : RecordIntent(ServiceOf[o], o, saved)
      BY <1>5 DEF WriteIntent
    <2>2. ServiceOf[o] \in Services
      BY <1>0
    <2>3. IntentOf(o) \in Record
      BY RecordTypes DEF PlacementState
    <2>4. Right(IntentOf(o))
      BY DEF Right, IntentOf
    <2>5. Sourced(IntentOf(o))
      BY <1>5 DEF Sourced, IntentOf, WriteIntent
    <2>6. IntentOf(o).order = o /\ IntentOf(o).state = "UnknownPendingReconcile"
      BY DEF IntentOf
    <2>7. Adds(IntentOf(o)) /\ ioFaults' \in Nat
      BY <1>0, <2>1, <2>2, IntentEffect
    <2>8. Follows(IntentOf(o))
      BY <1>0, <2>1, <2>2, <2>6, IntentEffect DEF Follows
    <2>9. QED
      BY <2>3, <2>4, <2>5, <2>7, <2>8 DEF JournalMoves
  <1>6. ASSUME NEW o \in Orders, WriteAnswer(o)
        PROVE  JournalMoves
    <2> DEFINE state == StateFor(answer[o])
    <2>1. PICK saved \in BOOLEAN : UpdateState(ServiceOf[o], o, state, saved)
      BY <1>6 DEF WriteAnswer
    <2>2. stage[o] = "answered" /\ state \in PlacementState
      BY <1>6, AnswerIsRight DEF WriteAnswer
    <2>3. Right(UpdateOf(o, state))
      BY <2>2, AnswerIsRight DEF Right, UpdateOf
    <2>4. ServiceOf[o] \in Services
      BY <1>0
    <2>5. stage'[o] = "done"
      BY <1>6 DEF WriteAnswer, GoTo, TypeOK
    <2>6. Sourced(UpdateOf(o, state))
      BY <2>2, <2>5 DEF Sourced, UpdateOf
    <2> HIDE DEF state
    <2>7. QED
      BY <1>0, <2>1, <2>2, <2>3, <2>4, <2>6, UpdateMoves
  <1>7. CASE Crash
    <2>1. CASE Reload(file)
      BY <1>0, <2>1 DEF Reload, JournalMoves, Restarted
    <2>2. ASSUME NEW r \in Writing, NEW records \in Partly(r), Reload(records)
          PROVE  JournalMoves
      <3>1. r \in Record /\ r.cut = "whole" /\ Right(r)
        <4>1. CASE \E o \in Orders : r = IntentOf(o)
          BY <4>1, RecordTypes DEF IntentOf, Right, PlacementState
        <4>2. ASSUME NEW o \in Orders, stage[o] = "answered",
                     r = UpdateOf(o, StateFor(answer[o]))
              PROVE  r \in Record /\ r.cut = "whole" /\ Right(r)
          <5>1. r.state = StateFor(answer[o]) /\ r.order = o /\ r.cut = "whole"
            BY <4>2 DEF UpdateOf
          <5>2. QED
            BY <4>2, <5>1, AnswerIsRight, RecordTypes DEF Right
        <4>3. QED
          BY <4>1, <4>2 DEF Writing
      <3>2. Adds(r)
        BY <1>0, <2>2, <3>1, WrittenIsAdded DEF Reload, JournalTypeOK
      <3>3. Sourced(r)
        <4>1. \A o \in Orders : stage[o] = "answered" => stage'[o] = "done"
          BY <1>7 DEF Crash
        <4>2. QED
          BY <4>1 DEF Writing, Sourced, IntentOf, UpdateOf
      <3>4. QED
        BY <1>0, <2>2, <3>1, <3>2, <3>3 DEF Reload, JournalMoves, Follows
    <2>3. QED
      BY <1>7, <2>1, <2>2 DEF Crash
  <1>8. CASE UNCHANGED vars
    BY <1>1, <1>8 DEF vars
  <1>9. QED
    BY <1>1, <1>3, <1>4, <1>5, <1>6, <1>7, <1>8
       DEF Next, Place, CopyPending, Reconciled, Answered, NotAnswered, Arrive

----------------------------------------------------------------------------
(* Types, and how far the placements have got.                             *)

\* The journal's variables keep their types.
LEMMA JournalTyped ==
    ASSUME JournalTypeOK, JournalMoves
    PROVE  JournalTypeOK'
  <1>1. ioFaults' \in Nat
    BY DEF JournalMoves
  <1>2. file' \in Seq(Record)
    BY DEF JournalTypeOK, JournalMoves, Restarted, Adds
  <1>3. Loaded(file') \in [Orders -> PlacementState \cup {"none"}]
    BY <1>2, LoadedType
  <1>4. memory' \in [Services -> [Orders -> PlacementState \cup {"none"}]]
    <2>1. CASE memory' = memory
      BY <2>1 DEF JournalTypeOK
    <2>2. CASE memory' = [s \in Services |-> Loaded(file')]
      BY <1>3, <2>2
    <2>3. ASSUME NEW r \in Record, NEW s \in Services,
                 memory' = [memory EXCEPT ![s][r.order] = r.state]
          PROVE  memory' \in [Services -> [Orders -> PlacementState \cup {"none"}]]
      <3>1. r.order \in Orders /\ r.state \in PlacementState
        BY DEF Record
      <3>2. QED
        BY <2>3, <3>1 DEF JournalTypeOK
    <2>4. QED
      BY <2>1, <2>2, <2>3 DEF JournalMoves, Restarted, Follows
  <1>5. QED
    BY <1>1, <1>2, <1>4 DEF JournalTypeOK

\* Every step keeps the types.
LEMMA TypeStep ==
    ASSUME TypeOK, Placed, OneReconciler, [Next]_vars
    PROVE  TypeOK'
  <1>1. JournalTypeOK'
    BY JournalStep, JournalTyped DEF TypeOK
  <1> USE DEF TypeOK, GoTo, Stages, Replies
  <1>2. ASSUME NEW o \in Orders, Place(o) PROVE TypeOK'
    BY <1>1, <1>2 DEF Place, venueVars, boundVars
  <1>3. ASSUME NEW o \in Orders, CopyPending(o) PROVE TypeOK'
    BY <1>1, <1>3 DEF CopyPending, OneReconciler, PendingReconcile, venueVars, boundVars
  <1>4. ASSUME NEW o \in Orders, QueryPending(o) PROVE TypeOK'
    BY <1>1, <1>4 DEF QueryPending, Confirm, PassOver, Miss, placementVars, venueVars
  <1>5. ASSUME NEW o \in Orders, SearchHistory(o) PROVE TypeOK'
    BY <1>1, <1>5 DEF SearchHistory, Confirm, PassOver, Miss, placementVars, venueVars
  <1>6. ASSUME NEW o \in Orders, Reconciled(o) PROVE TypeOK'
    BY <1>1, <1>6 DEF Reconciled, reconcileVars, venueVars, boundVars
  <1>7. ASSUME NEW o \in Orders, WriteIntent(o) PROVE TypeOK'
    BY <1>1, <1>7 DEF WriteIntent, reconcileVars, boundVars
  <1>8. ASSUME NEW o \in Orders, Answered(o) PROVE TypeOK'
    BY <1>1, <1>8 DEF Answered, Told, reconcileVars, venueVars, boundVars
  <1>9. ASSUME NEW o \in Orders, NotAnswered(o) PROVE TypeOK'
    BY <1>1, <1>9 DEF NotAnswered, Told, Miss, reconcileVars
  <1>10. ASSUME NEW o \in Orders, WriteAnswer(o) PROVE TypeOK'
    BY <1>1, <1>10 DEF WriteAnswer, reconcileVars, venueVars, boundVars
  <1>11. ASSUME NEW o \in Orders, Arrive(o) PROVE TypeOK'
    BY <1>1, <1>11 DEF Arrive, placementVars, reconcileVars, boundVars
  <1>12. CASE Crash
    <2>1. /\ stage' = [o \in Orders |-> IF stage[o] = "new" THEN "new" ELSE "done"]
          /\ crashes' = crashes + 1 /\ misses' = misses
          /\ reconciled' = FALSE /\ todo' = {} /\ missing' = {}
          /\ UNCHANGED <<answer, transit, venue>>
      BY <1>12 DEF Crash, venueVars
    <2>2. stage' \in [Orders -> Stages]
      BY <2>1
    <2>3. misses' \in Nat /\ crashes' \in Nat
      BY <2>1
    <2>4. /\ answer' \in [Orders -> Replies \cup {"none"}]
          /\ venue' \in [Orders -> {"none", "live", "refused"}]
          /\ transit' \subseteq Orders
      BY <2>1
    <2>5. reconciled' \in BOOLEAN /\ todo' \subseteq Orders /\ missing' \subseteq todo'
      BY <2>1
    <2>6. QED
      BY <1>1, <2>2, <2>3, <2>4, <2>5
  <1>13. CASE UNCHANGED vars
    BY <1>1, <1>13 DEF vars, placementVars, reconcileVars, venueVars, boundVars
  <1>14. QED
    BY <1>2, <1>3, <1>4, <1>5, <1>6, <1>7, <1>8, <1>9, <1>10, <1>11, <1>12, <1>13
       DEF Next

\* An order that is live stays so; one that is settled cannot become live, and what a
\* placement was told is not forgotten.
LEMMA VenueStep ==
    ASSUME TypeOK, Placed, [Next]_vars, NEW o \in Orders
    PROVE  /\ venue[o] = "live" => venue'[o] = "live"
           /\ Rejectable(o) => Rejectable(o)'
  <1> USE DEF TypeOK, GoTo, MayBeLive, Before
  <1>0. answer[o] = "error" => answer'[o] = "error"
    <2>1. answer[o] = "error" => stage[o] # "sent"
      BY DEF Placed
    <2>2. ASSUME NEW p \in Orders, Answered(p) \/ NotAnswered(p) \/ WriteAnswer(p)
          PROVE  stage[o] # "sent" => answer'[o] = answer[o]
      BY <2>2 DEF Answered, NotAnswered, WriteAnswer, Told
    <2>3. QED
      BY <2>1, <2>2 DEF Next, vars, placementVars, Place, CopyPending, QueryPending,
         SearchHistory, Reconciled, WriteIntent, Arrive, Crash
  <1>1. ASSUME NEW p \in Orders, Place(p) \/ CopyPending(p) \/ Reconciled(p)
        PROVE  UNCHANGED <<transit, venue>> /\ (stage[o] \notin Before => stage'[o] = stage[o])
    BY <1>1 DEF Place, CopyPending, Reconciled, venueVars
  <1>2. ASSUME NEW p \in Orders, QueryPending(p) \/ SearchHistory(p)
        PROVE  UNCHANGED <<transit, venue, stage>>
    BY <1>2 DEF QueryPending, SearchHistory, placementVars, venueVars
  <1>3. ASSUME NEW p \in Orders, WriteIntent(p)
        PROVE  venue' = venue /\ (stage[o] \notin Before => stage'[o] = stage[o]
                                                         /\ (o \in transit' => o \in transit))
    BY <1>3 DEF WriteIntent
  <1>4. ASSUME NEW p \in Orders, Answered(p) \/ NotAnswered(p) \/ WriteAnswer(p)
        PROVE  venue' = venue /\ transit' \subseteq transit
               /\ (stage[o] \notin Before => stage'[o] \notin Before)
    BY <1>4 DEF Answered, NotAnswered, WriteAnswer, Told, venueVars
  <1>5. ASSUME NEW p \in Orders, Arrive(p)
        PROVE  /\ stage' = stage /\ transit' \subseteq transit
               /\ o \notin transit => venue'[o] = venue[o]
    BY <1>5 DEF Arrive, placementVars
  <1>6. CASE Crash
    BY <1>0, <1>6 DEF Crash, venueVars, Rejectable
  <1>7. CASE UNCHANGED vars
    BY <1>0, <1>7 DEF vars, placementVars, venueVars, Rejectable
  <1>8. o \in transit => venue[o] = "none"
    BY DEF Placed
  <1>9. QED
    BY <1>0, <1>1, <1>2, <1>3, <1>4, <1>5, <1>6, <1>7, <1>8 DEF Next, Rejectable

----------------------------------------------------------------------------
(* The other parts of the invariant.                                       *)

\* Every step keeps Placed: an answer is what the venue did, or is in doubt.
LEMMA PlacedStep ==
    ASSUME TypeOK, Placed, [Next]_vars
    PROVE  Placed'
  <1> USE DEF TypeOK, GoTo, MayBeLive, Before, Replies
  <1>1. ASSUME NEW o \in Orders, Place(o) \/ CopyPending(o) \/ Reconciled(o) PROVE Placed'
    BY <1>1 DEF Placed, Place, CopyPending, Reconciled, venueVars
  <1>2. ASSUME NEW o \in Orders, QueryPending(o) \/ SearchHistory(o) PROVE Placed'
    BY <1>2 DEF Placed, QueryPending, SearchHistory, placementVars, venueVars
  <1>3. ASSUME NEW o \in Orders, WriteIntent(o) PROVE Placed'
    <2>1. stage[o] = "intent" /\ venue' = venue /\ answer' = answer
      BY <1>3 DEF WriteIntent
    <2>2. venue \in [Orders -> {"none", "live", "refused"}]
      OBVIOUS
    <2>3. \/ stage' = [stage EXCEPT ![o] = "sent"] /\ transit' = transit \cup {o}
          \/ stage' = [stage EXCEPT ![o] = "done"] /\ transit' = transit
      BY <1>3 DEF WriteIntent
    <2>4. QED
      BY <2>1, <2>2, <2>3 DEF Placed
  <1>4. ASSUME NEW o \in Orders, Answered(o) PROVE Placed'
    BY <1>4 DEF Placed, Answered, Told, venueVars
  <1>5. ASSUME NEW o \in Orders, NotAnswered(o) PROVE Placed'
    BY <1>5 DEF Placed, NotAnswered, Told
  <1>6. ASSUME NEW o \in Orders, WriteAnswer(o) PROVE Placed'
    BY <1>6 DEF Placed, WriteAnswer, venueVars
  <1>7. ASSUME NEW o \in Orders, Arrive(o) PROVE Placed'
    BY <1>7 DEF Placed, Arrive, placementVars
  <1>8. CASE Crash
    BY <1>8 DEF Placed, Crash, venueVars
  <1>9. CASE UNCHANGED vars
    BY <1>9 DEF Placed, vars, placementVars, venueVars
  <1>10. QED
    BY <1>1, <1>2, <1>3, <1>4, <1>5, <1>6, <1>7, <1>8, <1>9 DEF Next

\* Every step keeps OneReconciler: m_pendingJournalReconciled lets one placement in.
LEMMA ReconcilerStep ==
    ASSUME TypeOK, OneReconciler, [Next]_vars
    PROVE  OneReconciler'
  <1> USE DEF TypeOK, GoTo
  <1>1. ASSUME NEW o \in Orders, Place(o) PROVE OneReconciler'
    BY <1>1 DEF OneReconciler, Place
  <1>2. ASSUME NEW o \in Orders, CopyPending(o) PROVE OneReconciler'
    BY <1>2 DEF OneReconciler, CopyPending
  <1>3. ASSUME NEW o \in Orders, QueryPending(o) \/ SearchHistory(o) PROVE OneReconciler'
    <2>1. stage[o] = "reconcile" /\ todo' \subseteq todo
          /\ UNCHANGED <<stage, reconciled>>
      BY <1>3 DEF QueryPending, SearchHistory, Confirm, PassOver, placementVars
    <2>2. QED
      BY <2>1 DEF OneReconciler
  <1>4. ASSUME NEW o \in Orders, Reconciled(o) PROVE OneReconciler'
    BY <1>4 DEF OneReconciler, Reconciled, reconcileVars
  <1>5. ASSUME NEW o \in Orders,
               WriteIntent(o) \/ Answered(o) \/ NotAnswered(o) \/ WriteAnswer(o)
        PROVE  OneReconciler'
    <2>1. PICK s \in {"sent", "answered", "done"} : stage' = [stage EXCEPT ![o] = s]
      BY <1>5 DEF WriteIntent, Answered, NotAnswered, WriteAnswer, Told
    <2>2. UNCHANGED <<reconciled, todo>>
      BY <1>5 DEF WriteIntent, Answered, NotAnswered, WriteAnswer, reconcileVars
    <2>3. QED
      BY <2>1, <2>2 DEF OneReconciler
  <1>6. ASSUME NEW o \in Orders, Arrive(o) PROVE OneReconciler'
    BY <1>6 DEF OneReconciler, Arrive, placementVars, reconcileVars
  <1>7. CASE Crash
    <2>1. /\ stage' = [o \in Orders |-> IF stage[o] = "new" THEN "new" ELSE "done"]
          /\ todo' = {}
      BY <1>7 DEF Crash
    <2>2. QED
      BY <2>1 DEF OneReconciler
  <1>8. CASE UNCHANGED vars
    BY <1>8 DEF OneReconciler, vars, placementVars, reconcileVars
  <1>9. QED
    BY <1>1, <1>2, <1>3, <1>4, <1>5, <1>6, <1>7, <1>8 DEF Next

\* Every step keeps RecordsRight: what is written is right, and stays so.
LEMMA RecordsStep ==
    ASSUME TypeOK, Placed, RecordsRight, [Next]_vars
    PROVE  RecordsRight'
  <1>1. file \in Seq(Record) /\ Len(file) \in Nat /\ \A i \in 1..Len(file) : file[i] \in Record
    BY DEF TypeOK, JournalTypeOK
  <1>2. ASSUME NEW r \in Record, Right(r)
        PROVE  /\ r.state = "Accepted" => venue'[r.order] = "live"
               /\ r.state = "Rejected" => Rejectable(r.order)'
    <2>1. r.order \in Orders
      BY DEF Record
    <2>2. QED
      BY <1>2, <2>1, VenueStep DEF Right
  <1>3. \A i \in 1..Len(file) : Right(file[i])
    BY DEF RecordsRight, Right
  <1>4. CASE file' = file
    BY <1>1, <1>2, <1>3, <1>4 DEF RecordsRight
  <1>5. ASSUME NEW r \in Record, Right(r), Adds(r), file' # file
        PROVE  RecordsRight'
    <2>1. PICK cut \in Cuts : file'[Len(file) + 1] = [r EXCEPT !.cut = cut]
      BY <1>5 DEF Adds
    <2>2. [r EXCEPT !.cut = cut] \in Record
      BY DEF Record
    <2>3. Right([r EXCEPT !.cut = cut])
      BY <1>5 DEF Right, Record
    <2>4. ASSUME NEW i \in 1..Len(file')
          PROVE  file'[i] \in Record /\ Right(file'[i])
      <3>1. Len(file') = Len(file) + 1 /\ \A j \in 1..Len(file) : file'[j] = file[j]
        BY <1>5 DEF Adds
      <3>2. i \in 1..Len(file) \/ i = Len(file) + 1
        BY <1>1, <3>1
      <3>3. QED
        BY <1>1, <1>3, <2>1, <2>2, <2>3, <3>1, <3>2
    <2>5. QED
      BY <1>2, <2>4 DEF RecordsRight
  <1>6. QED
    BY <1>4, <1>5, JournalStep DEF JournalMoves, Restarted

\* A placement that is over stays so.
LEMMA DoneStays ==
    ASSUME TypeOK, [Next]_vars, NEW o \in Orders, stage[o] = "done"
    PROVE  stage'[o] = "done"
  <1> USE DEF TypeOK, GoTo
  <1>1. CASE Crash
    BY <1>1 DEF Crash
  <1>2. CASE \E p \in Orders : Place(p) \/ CopyPending(p) \/ Reconciled(p) \/ WriteIntent(p)
    BY <1>2 DEF Place, CopyPending, Reconciled, WriteIntent
  <1>3. CASE \E p \in Orders : QueryPending(p) \/ SearchHistory(p) \/ Arrive(p)
    BY <1>3 DEF QueryPending, SearchHistory, Arrive, placementVars
  <1>4. CASE \E p \in Orders : Answered(p) \/ NotAnswered(p) \/ WriteAnswer(p)
    BY <1>4 DEF Answered, NotAnswered, WriteAnswer, Told
  <1>5. CASE UNCHANGED vars
    BY <1>5 DEF vars, placementVars
  <1>6. QED
    BY <1>1, <1>2, <1>3, <1>4, <1>5 DEF Next

\* Every step keeps RejectedIsDone: only its own answer says that an order is rejected.
LEMMA RejectedStep ==
    ASSUME TypeOK, Placed, RejectedIsDone, [Next]_vars
    PROVE  RejectedIsDone'
  <1>1. file \in Seq(Record) /\ Len(file) \in Nat /\ \A i \in 1..Len(file) : file[i] \in Record
    BY DEF TypeOK, JournalTypeOK
  <1>2. ASSUME NEW i \in 1..Len(file), file[i].state = "Rejected"
        PROVE  stage'[file[i].order] = "done"
    <2>1. file[i].order \in Orders
      BY <1>1 DEF Record
    <2>2. QED
      BY <1>2, <2>1, DoneStays DEF RejectedIsDone
  <1>3. CASE file' = file
    BY <1>2, <1>3 DEF RejectedIsDone
  <1>4. ASSUME NEW r \in Record, Sourced(r), Adds(r), file' # file
        PROVE  RejectedIsDone'
    <2>1. PICK cut \in Cuts : file'[Len(file) + 1] = [r EXCEPT !.cut = cut]
      BY <1>4 DEF Adds
    <2>2. [r EXCEPT !.cut = cut].state = r.state /\ [r EXCEPT !.cut = cut].order = r.order
      BY DEF Record
    <2>3. r.state = "Rejected" => stage'[r.order] = "done"
      BY <1>4 DEF Sourced
    <2>4. ASSUME NEW i \in 1..Len(file'), file'[i].state = "Rejected"
          PROVE  stage'[file'[i].order] = "done"
      <3>1. Len(file') = Len(file) + 1 /\ \A j \in 1..Len(file) : file'[j] = file[j]
        BY <1>4 DEF Adds
      <3>2. CASE i \in 1..Len(file)
        <4>1. file'[i] = file[i]
          BY <3>1, <3>2
        <4>2. QED
          BY <1>2, <2>4, <3>2, <4>1
      <3>3. CASE i = Len(file) + 1
        BY <2>1, <2>2, <2>3, <2>4, <3>3
      <3>4. QED
        BY <1>1, <3>1, <3>2, <3>3
    <2>5. QED
      BY <2>4 DEF RejectedIsDone
  <1>5. QED
    BY <1>3, <1>4, JournalStep DEF JournalMoves, Restarted

\* A placement that has been sent had been before, or has just written its intent.
LEMMA SentStep ==
    ASSUME TypeOK, Placed, [Next]_vars, NEW o \in Orders, Sent(o)', ~Sent(o)
    PROVE  /\ file' = Append(file, IntentOf(o))
           /\ memory' = [memory EXCEPT ![ServiceOf[o]][o] = "UnknownPendingReconcile"]
  <1> USE DEF TypeOK, GoTo, MayBeLive, Sent
  <1>1. ASSUME NEW p \in Orders, WriteIntent(p)
        PROVE  /\ file' = Append(file, IntentOf(o))
               /\ memory' = [memory EXCEPT ![ServiceOf[o]][o] = "UnknownPendingReconcile"]
    <2>1. PICK saved \in BOOLEAN :
            /\ RecordIntent(ServiceOf[p], p, saved)
            /\ saved => stage' = [stage EXCEPT ![p] = "sent"] /\ transit' = transit \cup {p}
            /\ ~saved => stage' = [stage EXCEPT ![p] = "done"] /\ transit' = transit
      BY <1>1 DEF WriteIntent
    <2>2. venue' = venue
      BY <1>1 DEF WriteIntent
    <2>3. p = o /\ saved
      BY <2>1, <2>2
    <2>4. QED
      BY <2>1, <2>3 DEF RecordIntent, AppendRecord
  <1>2. ASSUME NEW p \in Orders, Place(p) \/ CopyPending(p) \/ Reconciled(p)
        PROVE  FALSE
    BY <1>2 DEF Place, CopyPending, Reconciled, venueVars
  <1>3. ASSUME NEW p \in Orders, QueryPending(p) \/ SearchHistory(p)
        PROVE  FALSE
    BY <1>3 DEF QueryPending, SearchHistory, placementVars, venueVars
  <1>4. ASSUME NEW p \in Orders, Answered(p) \/ NotAnswered(p) \/ WriteAnswer(p)
        PROVE  FALSE
    <2>1. venue' = venue /\ transit' \subseteq transit /\ stage[p] \in {"sent", "answered"}
      BY <1>4 DEF Answered, NotAnswered, WriteAnswer, venueVars
    <2>2. PICK s : stage' = [stage EXCEPT ![p] = s]
      BY <1>4 DEF Answered, NotAnswered, WriteAnswer, Told
    <2>3. QED
      BY <2>1, <2>2
  <1>5. ASSUME NEW p \in Orders, Arrive(p)
        PROVE  FALSE
    BY <1>5 DEF Arrive, placementVars
  <1>6. CASE Crash
    BY <1>6 DEF Crash, venueVars
  <1>7. CASE UNCHANGED vars
    BY <1>7 DEF vars, placementVars, venueVars
  <1>8. QED
    BY <1>1, <1>2, <1>3, <1>4, <1>5, <1>6, <1>7 DEF Next

\* The records of the file stay in it.
LEMMA FileGrows ==
    ASSUME TypeOK, Placed, [Next]_vars
    PROVE  /\ file' \in Seq(Record) /\ Len(file) \in Nat /\ Len(file') \in Nat
           /\ Len(file) <= Len(file')
           /\ \A i \in 1..Len(file) : file'[i] = file[i]
  <1>1. file \in Seq(Record) /\ file' \in Seq(Record)
    BY TypeOK, JournalStep, JournalTyped DEF TypeOK, JournalTypeOK
  <1>2. Len(file) \in Nat /\ Len(file') \in Nat
    BY <1>1
  <1>3. QED
    BY <1>1, <1>2, JournalStep DEF JournalMoves, Restarted, Adds

\* A torn line that has been written on to stays so.
LEMMA TornStays ==
    ASSUME TypeOK, Placed, [Next]_vars, TornIsLast'
    PROVE  TornIsLast
  <1>1. SUFFICES ASSUME NEW i \in 1..Len(file), file[i].cut # "whole"
                 PROVE  i = Len(file)
    BY DEF TornIsLast
  <1>2. i \in 1..Len(file') /\ file'[i].cut # "whole"
    BY <1>1, FileGrows
  <1>3. i = Len(file')
    BY <1>2 DEF TornIsLast
  <1>4. QED
    BY <1>1, <1>3, FileGrows

\* Every step keeps IntentWritten: an order is sent only after its intent is saved.
LEMMA IntentStep ==
    ASSUME TypeOK, Placed, IntentWritten, [Next]_vars
    PROVE  IntentWritten'
  <1>1. ASSUME NEW o \in Orders, Sent(o)'
        PROVE  HasIntent(file', o)
    <2>1. CASE Sent(o)
      <3>1. PICK i \in 1..Len(file) :
                file[i].op = "R" /\ file[i].order = o /\ file[i].cut = "whole"
        BY <2>1 DEF IntentWritten, HasIntent
      <3>2. i \in 1..Len(file') /\ file'[i] = file[i]
        BY FileGrows
      <3>3. QED
        BY <3>1, <3>2 DEF HasIntent
    <2>2. CASE ~Sent(o)
      <3>1. file' = Append(file, IntentOf(o))
        BY <1>1, <2>2, SentStep
      <3>2. IntentOf(o) \in Record /\ file \in Seq(Record)
        BY RecordTypes DEF PlacementState, TypeOK, JournalTypeOK
      <3>3. Len(file) + 1 \in 1..Len(file') /\ file'[Len(file) + 1] = IntentOf(o)
        BY <3>1, <3>2, Appended
      <3>4. IntentOf(o).op = "R" /\ IntentOf(o).order = o /\ IntentOf(o).cut = "whole"
        BY DEF IntentOf
      <3>5. QED
        BY <3>3, <3>4 DEF HasIntent
    <2>3. QED
      BY <2>1, <2>2
  <1>2. QED
    BY <1>1 DEF IntentWritten

\* Every step keeps WriteAhead: a map changes only with a record, or is loaded again.
LEMMA WriteAheadStep ==
    ASSUME TypeOK, Placed, WriteAhead, [Next]_vars
    PROVE  WriteAhead'
  <1>1. SUFFICES ASSUME NEW s \in Services, NEW o \in Orders, memory'[s][o] # "none"
                 PROVE  \E i \in 1..Len(file') :
                            file'[i].order = o /\ file'[i].state = memory'[s][o]
    BY DEF WriteAhead
  <1>2. CASE memory'[s][o] = memory[s][o]
    <2>1. PICK i \in 1..Len(file) : file[i].order = o /\ file[i].state = memory[s][o]
      BY <1>1, <1>2 DEF WriteAhead
    <2>2. i \in 1..Len(file') /\ file'[i] = file[i]
      BY FileGrows
    <2>3. QED
      BY <1>2, <2>1, <2>2
  <1>3. CASE memory' = [t \in Services |-> Loaded(file')]
    BY <1>1, <1>3, FileGrows, LoadedIsWritten
  <1>4. ASSUME NEW r \in Record, NEW t \in Services, file' = Append(file, r),
               memory' = [memory EXCEPT ![t][r.order] = r.state],
               memory'[s][o] # memory[s][o]
        PROVE  \E i \in 1..Len(file') :
                   file'[i].order = o /\ file'[i].state = memory'[s][o]
    <2>1. memory \in [Services -> [Orders -> PlacementState \cup {"none"}]]
          /\ file \in Seq(Record) /\ r.order \in Orders
      BY DEF TypeOK, JournalTypeOK, Record
    <2>2. r.order = o /\ memory'[s][o] = r.state
      BY <1>4, <2>1
    <2>3. Len(file) + 1 \in 1..Len(file') /\ file'[Len(file) + 1] = r
      BY <1>4, <2>1, Appended
    <2>4. QED
      BY <2>2, <2>3
  <1>5. QED
    BY <1>2, <1>3, <1>4, JournalStep DEF JournalMoves, Restarted, Follows

\* Every step keeps Remembered: a map forgets a placement only by a restart, and that
\* reads its intent.
LEMMA RememberedStep ==
    ASSUME TypeOK, Placed, IntentWritten, Remembered, [Next]_vars
    PROVE  Remembered'
  <1>1. SUFFICES ASSUME TornIsLast', NEW o \in Orders, Sent(o)'
                 PROVE  memory'[ServiceOf[o]][o] # "none"
    BY DEF Remembered
  <1>2. ServiceOf[o] \in Services
        /\ memory \in [Services -> [Orders -> PlacementState \cup {"none"}]]
    BY ServicesAssumption DEF TypeOK, JournalTypeOK
  <1>3. CASE memory' = [s \in Services |-> Loaded(file')]
    <2>1. HasIntent(file', o)
      BY <1>1, IntentStep DEF IntentWritten
    <2>2. Loaded(file')[o] # "none"
      BY <1>1, <2>1, FileGrows, IntentIsRead DEF TornIsLast
    <2>3. QED
      BY <1>2, <1>3, <2>2
  <1>4. CASE ~Sent(o)
    <2>1. memory' = [memory EXCEPT ![ServiceOf[o]][o] = "UnknownPendingReconcile"]
      BY <1>1, <1>4, SentStep
    <2>2. QED
      BY <1>2, <2>1
  <1>5. CASE Sent(o) /\ memory' = memory
    BY <1>1, <1>5, TornStays DEF Remembered
  <1>6. ASSUME Sent(o), NEW r \in Record, NEW s \in Services,
               memory' = [memory EXCEPT ![s][r.order] = r.state]
        PROVE  memory'[ServiceOf[o]][o] # "none"
    <2>1. memory[ServiceOf[o]][o] # "none"
      BY <1>1, <1>6, TornStays DEF Remembered
    <2>2. r.state # "none" /\ r.order \in Orders
      BY DEF Record, PlacementState
    <2>3. QED
      BY <1>2, <1>6, <2>1, <2>2
  <1>7. QED
    BY <1>3, <1>4, <1>5, <1>6, JournalStep DEF JournalMoves, Restarted, Follows

----------------------------------------------------------------------------
(* The theorems.                                                           *)

\* The first start satisfies the invariant.
LEMMA InitInvariant == Init => IInv
  <1> SUFFICES ASSUME Init PROVE IInv
    OBVIOUS
  <1> USE DEF Init, JournalInit
  <1>1. file = <<>> /\ Len(file) = 0 /\ file \in Seq(Record)
    OBVIOUS
  <1>2. TypeOK
    <2>1. memory \in [Services -> [Orders -> PlacementState \cup {"none"}]]
      <3>1. [o \in Orders |-> "none"] \in [Orders -> PlacementState \cup {"none"}]
        OBVIOUS
      <3>2. QED
        BY <3>1
    <2>2. JournalTypeOK
      BY <1>1, <2>1 DEF JournalTypeOK
    <2>3. /\ stage \in [Orders -> Stages]
          /\ answer \in [Orders -> Replies \cup {"none"}]
          /\ venue \in [Orders -> {"none", "live", "refused"}]
      BY DEF Stages
    <2>4. /\ reconciled \in BOOLEAN /\ todo \subseteq Orders /\ missing \subseteq todo
          /\ transit \subseteq Orders /\ misses \in Nat /\ crashes \in Nat
      OBVIOUS
    <2>5. QED
      BY <2>2, <2>3, <2>4 DEF TypeOK
  <1>3. Placed /\ OneReconciler
    BY DEF Placed, OneReconciler
  <1>4. RecordsRight /\ RejectedIsDone
    BY <1>1 DEF RecordsRight, RejectedIsDone
  <1>5. \A o \in Orders : ~Sent(o)
    BY DEF Sent, MayBeLive
  <1>6. IntentWritten /\ Remembered
    BY <1>5 DEF IntentWritten, Remembered
  <1>7. WriteAhead
    BY DEF WriteAhead
  <1>8. QED
    BY <1>2, <1>3, <1>4, <1>6, <1>7 DEF IInv

\* Every step preserves it.
LEMMA StepInvariant == IInv /\ [Next]_vars => IInv'
  BY TypeStep, PlacedStep, ReconcilerStep, RecordsStep, RejectedStep, IntentStep,
     WriteAheadStep, RememberedStep
     DEF IInv

\* The placements of normal_order_service.cpp and algo_order_service.cpp and their
\* journals satisfy the invariant however often they fail and are started again.
THEOREM Invariance == Spec => []IInv
  BY InitInvariant, StepInvariant, PTL DEF Spec

\* The types hold throughout; in particular reconcilePendingJournalOnce searches the
\* history only for a placement it has not yet passed over.
THEOREM TypeCorrect == Spec => []TypeOK
  <1>1. IInv => TypeOK
    BY DEF IInv
  <1>2. QED
    BY <1>1, Invariance, PTL

\* recordIntent and updateState (order_journal.cpp:398-428) keep the map behind the
\* file: what a service acts on is on record.
THEOREM JournalIsAhead == Spec => []WriteAhead
  <1>1. IInv => WriteAhead
    BY DEF IInv
  <1>2. QED
    BY <1>1, Invariance, PTL

\* No placement and no reconciliation records an order as accepted which the venue
\* does not have.
THEOREM AcceptedOrdersAreLive == Spec => []AcceptedIsLive
  <1>1. IInv => AcceptedIsLive
    BY DEF IInv, RecordsRight, AcceptedIsLive
  <1>2. QED
    BY <1>1, Invariance, PTL

\* An order that is, or may come to be, at the venue is on record, for the service that
\* placed it and for the next start, as accepted or in doubt, or as rejected where a
\* server's error was taken for that, as long as no record follows a torn one.
THEOREM LiveOrdersAreKnown == Spec => []LiveIsKnownUnlessTorn
  <1>1. ASSUME IInv, TornIsLast, NEW o \in Orders, MayBeLive(o)
        PROVE  memory[ServiceOf[o]][o] \in KnownAs(o) /\ Loaded(file)[o] \in KnownAs(o)
    <2>1. Sent(o) /\ HasIntent(file, o) /\ memory[ServiceOf[o]][o] # "none"
      BY <1>1 DEF IInv, IntentWritten, Remembered, Sent
    <2>2. file \in Seq(Record) /\ \A i \in 1..Len(file) : file[i] \in Record
      BY <1>1 DEF IInv, TypeOK, JournalTypeOK
    <2>3. Loaded(file)[o] # "none"
      BY <1>1, <2>1, <2>2, IntentIsRead DEF TornIsLast
    <2>4. ASSUME NEW i \in 1..Len(file), file[i].order = o
          PROVE  file[i].state \in KnownAs(o)
      <3>1. file[i].state \in PlacementState
        BY <2>2 DEF Record
      <3>2. file[i].state = "Rejected" => answer[o] = "error"
        BY <1>1, <2>4 DEF IInv, RecordsRight, Rejectable
      <3>3. QED
        BY <3>1, <3>2 DEF PlacementState, KnownAs
    <2>5. Loaded(file)[o] \in KnownAs(o)
      BY <2>2, <2>3, <2>4, LoadedIsWritten
    <2>6. ServiceOf[o] \in Services
      BY ServicesAssumption
    <2>7. memory[ServiceOf[o]][o] \in KnownAs(o)
      BY <1>1, <2>1, <2>4, <2>6 DEF IInv, WriteAhead
    <2>8. QED
      BY <2>5, <2>7
  <1>2. IInv => LiveIsKnownUnlessTorn
    BY <1>1 DEF LiveIsKnownUnlessTorn, LiveIsKnown
  <1>3. QED
    BY <1>2, Invariance, PTL

----------------------------------------------------------------------------
(* The journal is a ledger (OrderLedger).                                  *)

\* A set's greatest index is known when it is seen.
LEMMA MaxIs ==
    ASSUME NEW S \in SUBSET Nat, NEW m \in S, \A i \in S : i <= m
    PROVE  Max(S) = m
  <1>1. m \in S /\ \A y \in S : m >= y
    OBVIOUS
  <1>2. \A x \in S : (\A y \in S : x >= y) => x = m
    OBVIOUS
  <1>3. QED
    BY <1>1, <1>2 DEF Max

\* What a restart reads after one more record: a whole file is legible to its end, so
\* the record counts for its order unless next to nothing of it was written, or it is
\* an update without an intent.
LEMMA ReadWhole ==
    ASSUME NEW f \in Seq(Record), \A i \in 1..Len(f) : f[i].cut = "whole",
           NEW g \in Seq(Record), Len(g) = Len(f) + 1, \A i \in 1..Len(f) : g[i] = f[i],
           NEW r \in Record, g[Len(f) + 1] = r, NEW o \in Orders
    PROVE  Loaded(g)[o] = IF /\ r.order = o /\ r.cut # "early"
                             /\ r.op = "R" \/ Loaded(f)[o] # "none"
                          THEN r.state ELSE Loaded(f)[o]
  <1> DEFINE n == Len(f)
  <1>1. n \in Nat /\ Len(g) = n + 1 /\ 1..Len(g) = (1..n) \cup {n + 1}
    OBVIOUS
  <1>2. \A i \in 1..n : f[i] \in Record /\ g[i] = f[i]
    OBVIOUS
  <1>3. \A i \in 1..n : Readable(f, i) /\ Readable(g, i)
    <2>1. ASSUME NEW i \in 1..n PROVE i = 1 \/ i - 1 \in 1..n
      BY <1>1
    <2>2. QED
      BY <1>2, <2>1 DEF Readable
  <1>4. Readable(g, n + 1) <=> r.cut # "early"
    <2>1. n + 1 = 1 \/ g[(n + 1) - 1].cut = "whole"
      BY <1>1, <1>2
    <2>2. r.cut \in Cuts
      BY DEF Record
    <2>3. QED
      BY <1>1, <2>1, <2>2 DEF Readable, Cuts
  <1>5. /\ RecordsOf(f, o) = {i \in 1..n : f[i].order = o}
        /\ RecordsOf(g, o) = RecordsOf(f, o)
               \cup IF r.order = o /\ r.cut # "early" THEN {n + 1} ELSE {}
    BY <1>1, <1>2, <1>3, <1>4 DEF RecordsOf
  <1>6. /\ Loaded(f)[o] # "none" <=> \E i \in RecordsOf(f, o) : f[i].op = "R"
        /\ RecordsOf(f, o) # {} => Max(RecordsOf(f, o)) \in RecordsOf(f, o)
    <2>1. RecordsOf(f, o) # {} => Max(RecordsOf(f, o)) \in RecordsOf(f, o)
      BY <1>1, <1>5, HasMax
    <2>2. \A i \in RecordsOf(f, o) : f[i].state # "none"
      BY <1>2, <1>5 DEF Record, PlacementState
    <2>3. QED
      BY <2>1, <2>2 DEF Loaded
  <1> HIDE DEF n
  <1>7. CASE r.order = o /\ r.cut # "early"
    <2>1. RecordsOf(g, o) = RecordsOf(f, o) \cup {n + 1}
      BY <1>5, <1>7
    <2>2. Max(RecordsOf(g, o)) = n + 1
      <3>1. RecordsOf(g, o) \in SUBSET Nat /\ \A i \in RecordsOf(g, o) : i <= n + 1
        BY <1>1, <1>5, <2>1
      <3>2. QED
        BY <2>1, <3>1, MaxIs
    <2>3. g[n + 1] = r
      BY DEF n
    <2>4. (\E i \in RecordsOf(g, o) : g[i].op = "R")
              <=> r.op = "R" \/ \E i \in RecordsOf(f, o) : f[i].op = "R"
      BY <1>2, <1>5, <2>1, <2>3
    <2>5. QED
      BY <1>6, <1>7, <2>2, <2>3, <2>4 DEF Loaded
  <1>8. CASE ~(r.order = o /\ r.cut # "early")
    <2>1. RecordsOf(g, o) = RecordsOf(f, o)
      BY <1>5, <1>8
    <2>2. \A i \in RecordsOf(f, o) : g[i] = f[i]
      BY <1>2, <1>5
    <2>3. QED
      BY <1>6, <1>8, <2>1, <2>2 DEF Loaded
  <1>9. QED
    BY <1>7, <1>8

\* What the ledger says of an order that the invariant knows.
LEMMA LedgerFacts ==
    ASSUME IInv, TornIsLast, NEW o \in Orders
    PROVE  /\ Loaded(file)[o] \in PlacementState \cup {"none"}
           /\ Loaded(file)[o] = "none" => ~Sent(o)
           /\ Loaded(file)[o] = "Accepted" => venue[o] = "live"
           /\ Loaded(file)[o] = "Rejected" => stage[o] = "done" /\ Rejectable(o)
  <1>1. file \in Seq(Record)
    BY DEF IInv, TypeOK, JournalTypeOK
  <1>2. Loaded(file)[o] \in PlacementState \cup {"none"}
    BY <1>1, LoadedType
  <1>3. Loaded(file)[o] = "none" => ~Sent(o)
    BY <1>1, IntentIsRead DEF IInv, IntentWritten, TornIsLast
  <1>4. ASSUME Loaded(file)[o] # "none"
        PROVE  \E i \in 1..Len(file) : file[i].order = o /\ file[i].state = Loaded(file)[o]
    BY <1>1, <1>4, LoadedIsWritten
  <1>5. QED
    BY <1>2, <1>3, <1>4 DEF IInv, RecordsRight, RejectedIsDone

\* A step writes one entry of the ledger or none, and moves it as a ledger's entry moves.
LEMMA LedgerStep ==
    ASSUME IInv, [Next]_vars, TornIsLast, TornIsLast'
    PROVE  \/ Loaded(file)' = Loaded(file)
           \/ \E o \in Orders : \/ Ledger!Enter(o) \/ Ledger!Doubt(o)
                                \/ Ledger!Accept(o) \/ Ledger!Reject(o)
  <1>1. TypeOK /\ Placed /\ file \in Seq(Record) /\ Len(file) \in Nat
    BY DEF IInv, TypeOK, JournalTypeOK
  <1>2. CASE file' = file
    BY <1>2 DEF Loaded, RecordsOf, Readable
  <1>3. ASSUME NEW r \in Record, Sourced(r), Adds(r), file' # file
        PROVE  \/ Loaded(file)' = Loaded(file)
               \/ \E o \in Orders : \/ Ledger!Enter(o) \/ Ledger!Doubt(o)
                                    \/ Ledger!Accept(o) \/ Ledger!Reject(o)
    <2>1. PICK cut \in Cuts : file'[Len(file) + 1] = [r EXCEPT !.cut = cut]
      BY <1>3 DEF Adds
    <2> DEFINE q == [r EXCEPT !.cut = cut]
    <2>2. q \in Record /\ q.op = r.op /\ q.order = r.order /\ q.state = r.state
      BY DEF Record
    <2>3. /\ file' \in Seq(Record) /\ Len(file') = Len(file) + 1
          /\ \A i \in 1..Len(file) : file'[i] = file[i]
      BY <1>3 DEF Adds
    <2>4. \A i \in 1..Len(file) : file[i].cut = "whole"
      <3>1. ASSUME NEW i \in 1..Len(file), file[i].cut # "whole" PROVE FALSE
        <4>1. i \in 1..Len(file') /\ file'[i].cut # "whole" /\ i # Len(file')
          BY <1>1, <2>3, <3>1
        <4>2. QED
          BY <4>1 DEF TornIsLast
      <3>2. QED
        BY <3>1
    <2>5. file'[Len(file) + 1] = q
      BY <2>1
    <2> HIDE DEF q
    <2> DEFINE o == r.order
    <2>6. o \in Orders
      BY DEF Record
    <2>7. \A p \in Orders :
             Loaded(file')[p] = IF /\ q.order = p /\ q.cut # "early"
                                   /\ q.op = "R" \/ Loaded(file)[p] # "none"
                                THEN q.state ELSE Loaded(file)[p]
      BY <1>1, <2>2, <2>3, <2>4, <2>5, ReadWhole
    <2>8. /\ Loaded(file)' = Loaded(file') /\ DOMAIN Loaded(file) = Orders
          /\ Loaded(file) = [p \in Orders |-> Loaded(file)[p]]
          /\ Loaded(file') = [p \in Orders |-> Loaded(file')[p]]
      BY DEF Loaded, RecordsOf, Readable
    <2>9. \/ Loaded(file') = Loaded(file)
          \/ /\ Loaded(file') = [Loaded(file) EXCEPT ![o] = r.state]
             /\ r.op = "R" \/ Loaded(file)[o] # "none"
      BY <2>2, <2>6, <2>7, <2>8
    <2>10. CASE /\ Loaded(file') = [Loaded(file) EXCEPT ![o] = r.state]
                /\ r.op = "R" \/ Loaded(file)[o] # "none"
                /\ r.state # Loaded(file)[o]
      <3>1. /\ Loaded(file)[o] \in PlacementState \cup {"none"}
            /\ Loaded(file)[o] = "none" => ~Sent(o)
            /\ Loaded(file)[o] = "Accepted" => venue[o] = "live"
            /\ Loaded(file)[o] = "Rejected" => stage[o] = "done" /\ Rejectable(o)
        BY <2>6, LedgerFacts
      <3>2. CASE r.op = "R" /\ r.state = "UnknownPendingReconcile" /\ stage[o] = "intent"
        <4>1. o \notin transit /\ venue[o] = "none"
          BY <1>1, <2>6, <3>2 DEF Placed, Before
        <4>2. Loaded(file)[o] = "none" /\ Standing(o) = "unsent"
          BY <2>10, <3>1, <3>2, <4>1 DEF PlacementState, Standing
        <4>3. Ledger!Enter(o)
          BY <2>6, <2>8, <2>10, <3>2, <4>2 DEF Ledger!Enter
        <4>4. QED
          BY <2>6, <4>3
      <3>3. CASE r.op = "U" /\ r.state = "Accepted" /\ venue[o] = "live"
        <4>1. /\ Standing(o) = "live"
              /\ \/ Loaded(file)[o] = "UnknownPendingReconcile"
                 \/ Loaded(file)[o] = "Rejected" /\ answer[o] = "error"
          BY <2>10, <3>1, <3>3 DEF PlacementState, MayBeLive, Standing, Rejectable
        <4>2. Ledger!Accept(o)
          BY <2>6, <2>8, <2>10, <3>3, <4>1 DEF Ledger!Accept
        <4>3. QED
          BY <2>6, <4>2
      <3>4. CASE r.op = "U" /\ stage[o] = "answered" /\ r.state = StateFor(answer[o])
        <4>1. /\ r.state \in PlacementState
              /\ r.state = "Accepted" => venue[o] = "live"
              /\ r.state = "Rejected" => Rejectable(o)
              /\ r.state = "UnknownPendingReconcile" => answer[o] # "error"
          BY <1>1, <2>6, <3>4, AnswerIsRight
        <4>2. Loaded(file)[o] \in {"UnknownPendingReconcile", "Accepted"}
          BY <2>10, <3>1, <3>4 DEF PlacementState
        <4>3. CASE r.state = "Accepted"
          BY <3>3, <3>4, <4>1, <4>3
        <4>4. CASE r.state = "Rejected"
          <5>1. \/ answer[o] = "error"
                \/ Loaded(file)[o] = "UnknownPendingReconcile" /\ Standing(o) = "dead"
            BY <3>1, <3>4, <4>1, <4>2, <4>4 DEF MayBeLive, Standing, Rejectable
          <5>2. Ledger!Reject(o)
            BY <2>6, <2>8, <2>10, <4>2, <4>4, <5>1 DEF Ledger!Reject
          <5>3. QED
            BY <2>6, <5>2
        <4>5. CASE r.state = "UnknownPendingReconcile"
          <5>1. Ledger!Doubt(o)
            BY <2>8, <2>10, <4>1, <4>2, <4>5 DEF Ledger!Doubt
          <5>2. QED
            BY <2>6, <5>1
        <4>6. QED
          BY <4>1, <4>3, <4>4, <4>5 DEF PlacementState
      <3>5. QED
        BY <1>3, <3>2, <3>3, <3>4 DEF Sourced
    <2>11. CASE /\ Loaded(file') = [Loaded(file) EXCEPT ![o] = r.state]
                /\ r.state = Loaded(file)[o]
      BY <2>8, <2>11
    <2>12. QED
      BY <2>8, <2>9, <2>10, <2>11
  <1>4. QED
    BY <1>1, <1>2, <1>3, JournalStep DEF JournalMoves, Restarted

\* A step takes every order where the ledger lets it go: only a placement whose intent
\* is in the file by then sends it off, and only a restart ends many at once.
LEMMA PlaceStep ==
    ASSUME IInv, [Next]_vars, NEW o \in Orders
    PROVE  \/ Standing(o)' = Standing(o)
           \/ Standing(o) = "unsent" /\ Standing(o)' = "open" /\ Sent(o)' /\ ~Sent(o)
           \/ Standing(o) = "open" /\ Standing(o)' = "live"
           \/ Standing(o) \in {"unsent", "open"} /\ Standing(o)' = "dead"
  <1> USE DEF Standing, GoTo
  <1>1. /\ stage \in [Orders -> Stages] /\ transit \subseteq Orders
        /\ venue \in [Orders -> {"none", "live", "refused"}]
        /\ o \in transit => venue[o] = "none"
        /\ stage[o] \in Before => o \notin transit /\ venue[o] = "none"
    BY DEF IInv, TypeOK, Placed
  <1>2. CASE \E p \in Orders : Place(p) \/ CopyPending(p) \/ Reconciled(p)
    BY <1>1, <1>2 DEF Place, CopyPending, Reconciled, venueVars
  <1>3. CASE \E p \in Orders : QueryPending(p) \/ SearchHistory(p)
    BY <1>3 DEF QueryPending, SearchHistory, placementVars, venueVars
  <1>4. ASSUME NEW p \in Orders, WriteIntent(p)
        PROVE  \/ Standing(o)' = Standing(o)
               \/ Standing(o) = "unsent" /\ Standing(o)' = "open" /\ Sent(o)' /\ ~Sent(o)
               \/ Standing(o) = "unsent" /\ Standing(o)' = "dead"
    <2>1. /\ stage[p] = "intent" /\ venue' = venue
          /\ \/ stage' = [stage EXCEPT ![p] = "sent"] /\ transit' = transit \cup {p}
             \/ stage' = [stage EXCEPT ![p] = "done"] /\ transit' = transit
      BY <1>4 DEF WriteIntent
    <2>2. CASE o # p
      BY <1>1, <2>1, <2>2
    <2>3. CASE o = p
      <3>1. Standing(o) = "unsent" /\ ~Sent(o)
        BY <1>1, <2>1, <2>3 DEF Before, Sent, MayBeLive
      <3>2. \/ Standing(o)' = "open" /\ Sent(o)'
            \/ Standing(o)' = "dead"
        BY <1>1, <2>1, <2>3 DEF Before, Sent, MayBeLive
      <3>3. QED
        BY <3>1, <3>2
    <2>4. QED
      BY <2>2, <2>3
  <1>5. ASSUME NEW p \in Orders, Answered(p) \/ NotAnswered(p) \/ WriteAnswer(p)
        PROVE  \/ Standing(o)' = Standing(o)
               \/ Standing(o) = "open" /\ Standing(o)' = "dead"
    <2>1. /\ venue' = venue /\ stage[p] \in {"sent", "answered"}
          /\ transit' = transit \/ transit' = transit \ {p}
          /\ \E s \in {"answered", "done"} : stage' = [stage EXCEPT ![p] = s]
      BY <1>5 DEF Answered, NotAnswered, WriteAnswer, Told, venueVars
    <2>2. CASE o # p
      BY <1>1, <2>1, <2>2
    <2>3. CASE o = p
      BY <1>1, <2>1, <2>3
    <2>4. QED
      BY <2>2, <2>3
  <1>6. ASSUME NEW p \in Orders, Arrive(p)
        PROVE  \/ Standing(o)' = Standing(o)
               \/ Standing(o) = "open" /\ Standing(o)' \in {"live", "dead"}
    <2>1. /\ p \in transit /\ transit' = transit \ {p} /\ stage' = stage
          /\ \E done \in {"live", "refused"} : venue' = [venue EXCEPT ![p] = done]
      BY <1>6 DEF Arrive, placementVars
    <2>2. CASE o # p
      BY <1>1, <2>1, <2>2
    <2>3. CASE o = p
      BY <1>1, <2>1, <2>3 DEF Before
    <2>4. QED
      BY <2>2, <2>3
  <1>7. CASE Crash
    <2>1. /\ stage'[o] = IF stage[o] = "new" THEN "new" ELSE "done"
          /\ transit' = transit /\ venue' = venue
      BY <1>7 DEF Crash, venueVars
    <2>2. QED
      BY <1>1, <2>1
  <1>8. CASE UNCHANGED vars
    BY <1>8 DEF vars, placementVars, venueVars
  <1>9. QED
    BY <1>2, <1>3, <1>4, <1>5, <1>6, <1>7, <1>8 DEF Next

\* The intent of an order that is sent off is what the ledger says of it from then on.
LEMMA SentIsEntered ==
    ASSUME IInv, [Next]_vars, TornIsLast', NEW o \in Orders, Sent(o)', ~Sent(o)
    PROVE  Loaded(file)'[o] = "UnknownPendingReconcile"
  <1>1. TypeOK /\ Placed /\ file \in Seq(Record) /\ Len(file) \in Nat
    BY DEF IInv, TypeOK, JournalTypeOK
  <1>2. file' = Append(file, IntentOf(o))
    BY <1>1, SentStep
  <1>3. /\ IntentOf(o) \in Record /\ IntentOf(o).order = o /\ IntentOf(o).cut = "whole"
        /\ IntentOf(o).op = "R" /\ IntentOf(o).state = "UnknownPendingReconcile"
    BY RecordTypes DEF IntentOf, PlacementState
  <1>4. /\ file' \in Seq(Record) /\ Len(file') = Len(file) + 1
        /\ \A i \in 1..Len(file) : file'[i] = file[i]
        /\ file'[Len(file) + 1] = IntentOf(o)
    BY <1>1, <1>2, <1>3, Appended
  <1>5. ASSUME NEW i \in 1..Len(file), file[i].cut # "whole" PROVE FALSE
    <2>1. i \in 1..Len(file') /\ file'[i].cut # "whole" /\ i # Len(file')
      BY <1>1, <1>4, <1>5
    <2>2. QED
      BY <2>1 DEF TornIsLast
  <1>6. Loaded(file')[o] = "UnknownPendingReconcile"
    BY <1>1, <1>3, <1>4, <1>5, ReadWhole
  <1>7. Loaded(file)' = Loaded(file')
    BY DEF Loaded, RecordsOf, Readable
  <1>8. QED
    BY <1>6, <1>7

\* A placement is told once, after it was sent, of an error that is not clear.
LEMMA BlurStep ==
    ASSUME IInv, [Next]_vars, TornIsLast, NEW o \in Orders
    PROVE  /\ answer[o] = "error" => answer'[o] = "error"
           /\ answer[o] # "error" /\ answer'[o] = "error" => Ledger!Blur(o)
  <1> USE DEF TypeOK, GoTo
  <1>1. TypeOK /\ Placed
    BY DEF IInv
  <1>2. ASSUME NEW p \in Orders, Answered(p) \/ NotAnswered(p) \/ WriteAnswer(p)
        PROVE  answer'[o] = answer[o] \/ stage[o] = "sent"
    BY <1>1, <1>2 DEF Answered, NotAnswered, WriteAnswer, Told
  <1>3. answer'[o] = answer[o] \/ stage[o] = "sent"
    BY <1>2 DEF Next, vars, placementVars, Place, CopyPending, QueryPending,
       SearchHistory, Reconciled, WriteIntent, Arrive, Crash
  <1>4. stage[o] = "sent" => answer[o] = "none"
    BY <1>1 DEF Placed
  <1>5. ASSUME stage[o] = "sent" PROVE Ledger!Blur(o)
    <2>1. Standing(o) # "unsent" /\ Sent(o)
      BY <1>5 DEF Standing, Sent
    <2>2. Loaded(file)[o] \in {"UnknownPendingReconcile", "Accepted"}
      BY <1>5, <2>1, LedgerFacts DEF PlacementState
    <2>3. QED
      BY <2>1, <2>2 DEF Ledger!Blur
  <1>6. QED
    BY <1>3, <1>4, <1>5

\* The journal of the order services is a ledger as OrderLedger has it, for any number
\* of placements, failing and torn appends, lost answers and restarts: written before
\* an order is sent, not going back on what it has settled, and wrong about the venue
\* only where a server's error was taken for a rejection (order_journal.cpp:398-428,
\* normal_order_service.cpp:368-399, 969-1024, order_service_utils.h:92-108).
THEOREM ServicesKeepLedger == Spec => JournalIsLedger
  <1>1. Init => Ledger!LedgerInit
    <2> SUFFICES ASSUME Init PROVE Ledger!LedgerInit
      OBVIOUS
    <2>1. file = <<>> /\ Len(file) = 0
      BY DEF Init, JournalInit
    <2>2. TornIsLast /\ Loaded(file) = [o \in Orders |-> "none"]
      BY <2>1 DEF TornIsLast, Loaded, RecordsOf
    <2>3. /\ [o \in Orders |-> Standing(o)] = [o \in Orders |-> "unsent"]
          /\ {o \in Orders : answer[o] = "error"} = {}
      BY DEF Init, Standing
    <2>4. QED
      BY <2>2, <2>3 DEF Ledger!LedgerInit
  <1>2. IInv /\ [Next]_vars => [Ledger!LedgerNext]_Ledger!ledgerVars
    <2> SUFFICES ASSUME IInv, [Next]_vars, TornIsLast'
                 PROVE  Ledger!LedgerNext
      BY DEF Ledger!LedgerNext
    <2>1. TornIsLast
      BY TornStays DEF IInv
    <2>2. ASSUME NEW o \in Orders
          PROVE  Ledger!Send(o) \/ Ledger!Arrive(o) \/ Ledger!Die(o) \/ Ledger!Stay(o)
      BY PlaceStep, SentIsEntered
         DEF Ledger!Send, Ledger!Arrive, Ledger!Die, Ledger!Stay
    <2>3. QED
      BY <2>1, <2>2, BlurStep, LedgerStep DEF Ledger!LedgerNext
  <1>3. QED
    BY <1>1, <1>2, Invariance, PTL DEF Spec, JournalIsLedger, Ledger!LedgerSpec
=============================================================================
