---------------------------- MODULE OrderJournal ----------------------------
(***************************************************************************)
(* DurableOrderJournal (src/src/orders/order_journal.cpp): the file of     *)
(* placement records, and what each order service remembers of it.         *)
(*                                                                         *)
(* Both services of an Orders object open a journal on the same path       *)
(* (orders.cpp:3-6), each with a map and a mutex of its own.  A record is  *)
(* one line: R for an intent, U for a change of state.  Its text counts    *)
(* here only by how much of it reached the file: a write that was cut off  *)
(* leaves a line without its end, and the next record is written on to it. *)
(***************************************************************************)
EXTENDS Naturals, SequencesExt, FiniteSetsExt

CONSTANTS
    Orders,         \* the placements, by their correlation ids
    Torn,           \* a write may stop half way (a full disk, a crash)
    MaxIoFaults     \* bound: appends that fail

ASSUME JournalAssumption == Torn \in BOOLEAN /\ MaxIoFaults \in Nat

VARIABLES
    file,       \* the records, in the order they were appended
    memory,     \* m_entriesByCorrelationId of each service, by state
    ioFaults    \* counted against the bound

journalVars == <<file, memory, ioFaults>>

Services == {"normal", "algo"}
PlacementState == {"Accepted", "Rejected", "UnknownPendingReconcile"}

\* How a record got into the file: whole; too short to mean anything; long enough
\* unless another record follows on its line; or long enough in any case.
Cuts == {"whole", "early", "mid", "late"}
Record == [op : {"R", "U"}, order : Orders, state : PlacementState, cut : Cuts]

IntentOf(o) ==
    [op |-> "R", order |-> o, state |-> "UnknownPendingReconcile", cut |-> "whole"]
UpdateOf(o, state) == [op |-> "U", order |-> o, state |-> state, cut |-> "whole"]

JournalInit ==
    /\ file = <<>>
    /\ memory = [s \in Services |-> [o \in Orders |-> "none"]]
    /\ ioFaults = 0

----------------------------------------------------------------------------
(* loadFromFile.                                                           *)

\* A line is read by its first record, the others on it garble it.
Readable(records, i) ==
    /\ i = 1 \/ records[i - 1].cut = "whole"
    /\ \/ records[i].cut \in {"whole", "late"}
       \/ records[i].cut = "mid" /\ i = Len(records)

RecordsOf(records, o) ==
    {i \in 1..Len(records) : Readable(records, i) /\ records[i].order = o}

\* An update is passed over when its intent was not read.
Loaded(records) ==
    [o \in Orders |->
        IF \E i \in RecordsOf(records, o) : records[i].op = "R"
        THEN records[Max(RecordsOf(records, o))].state
        ELSE "none"]

----------------------------------------------------------------------------
(* appendDurably, recordIntent and updateState.                            *)

\* What an append that is not carried through may leave.
Partly(record) ==
    {file, Append(file, record)}
        \cup IF Torn THEN {Append(file, [record EXCEPT !.cut = cut]) : cut \in Cuts} ELSE {}

AppendRecord(record, saved) ==
    IF saved
    THEN file' = Append(file, record) /\ UNCHANGED ioFaults
    ELSE /\ ioFaults < MaxIoFaults /\ ioFaults' = ioFaults + 1
         /\ file' \in Partly(record)

RecordIntent(s, o, saved) ==
    /\ AppendRecord(IntentOf(o), saved)
    /\ memory' = IF saved
                 THEN [memory EXCEPT ![s][o] = "UnknownPendingReconcile"]
                 ELSE memory

\* The mistake of changing the map whether or not the record was saved.
UpdateStateUnsaved(s, o, state, saved) ==
    IF memory[s][o] = "none"
    THEN ~saved /\ UNCHANGED journalVars
    ELSE /\ AppendRecord(UpdateOf(o, state), saved)
         /\ memory' = [memory EXCEPT ![s][o] = state]

UpdateState(s, o, state, saved) ==
    IF memory[s][o] = "none"
    THEN ~saved /\ UNCHANGED journalVars
    ELSE /\ AppendRecord(UpdateOf(o, state), saved)
         /\ memory' = IF saved THEN [memory EXCEPT ![s][o] = state] ELSE memory

PendingReconcile(s) == {o \in Orders : memory[s][o] = "UnknownPendingReconcile"}

\* A restart: both services load what the file then holds.
Reload(records) ==
    /\ file' = records
    /\ memory' = [s \in Services |-> Loaded(records)]
    /\ UNCHANGED ioFaults

----------------------------------------------------------------------------
JournalTypeOK ==
    /\ file \in Seq(Record)
    /\ memory \in [Services -> [Orders -> PlacementState \cup {"none"}]]
    /\ ioFaults \in Nat

\* No record was written on to one that was cut off.
TornIsLast == \A i \in 1..Len(file) : file[i].cut # "whole" => i = Len(file)

\* order_journal.cpp:398-428: the map of a service is never ahead of the file, so
\* that what the process acts on survives it.
WriteAhead ==
    \A s \in Services, o \in Orders :
        memory[s][o] # "none"
            => \E i \in 1..Len(file) : file[i].order = o /\ file[i].state = memory[s][o]
=============================================================================
