--------------------------- MODULE OrderServices ---------------------------
(***************************************************************************)
(* Placements through NormalOrderService and AlgoOrderService              *)
(* (src/src/orders) with a durable journal.                                *)
(*                                                                         *)
(* A placement writes its intent, sends the request, and writes what the   *)
(* answer says: accepted, rejected, or in doubt.  An error of the venue's  *)
(* servers may tell nothing of what becomes of the order; one with a code  *)
(* of its own is taken for a rejection all the same.  The first placement  *)
(* of the normal service after a start asks the venue about every record   *)
(* that is still pending; the others go on meanwhile.  An update that      *)
(* cannot be written is let go.                                            *)
(***************************************************************************)
EXTENDS OrderJournal

CONSTANTS
    ServiceOf,      \* Orders::market, limit, closeByMarket; stopEntry, protection
    MaxMisses,      \* bound: requests and queries without an answer of the venue's own
    MaxCrashes      \* bound: restarts

ASSUME ServicesAssumption ==
    /\ ServiceOf \in [Orders -> Services]
    /\ {MaxMisses, MaxCrashes} \subseteq Nat

VARIABLES
    stage,          \* the coroutine of each placement
    answer,         \* what the placement is told, and was told before a restart
    reconciled,     \* m_pendingJournalReconciled
    todo,           \* what is left of the copy of the pending records
    missing,        \* of these, the ones an order query did not find
    transit,        \* requests on their way to the venue
    venue,          \* what the venue did with the order
    misses, crashes \* counted against the bounds

placementVars == <<stage, answer>>
reconcileVars == <<reconciled, todo, missing>>
venueVars == <<transit, venue>>
boundVars == <<misses, crashes>>
vars == <<journalVars, placementVars, reconcileVars, venueVars, boundVars>>

Stages == {"new", "copy", "reconcile", "intent", "sent", "answered", "done"}

\* "silence": no answer, one that cannot be read, -1007 or -1008, or a 5xx without a
\* code.  "error": a 5xx with another code (-1000, -1001, -1006), whose status fromHttp
\* drops.  "refused" is also a request that was aborted before it was sent.
Replies == {"accepted", "refused", "silence", "error"}

Init ==
    /\ JournalInit
    /\ stage = [o \in Orders |-> "new"]
    /\ answer = [o \in Orders |-> "none"]
    /\ reconciled = FALSE /\ todo = {} /\ missing = {}
    /\ transit = {} /\ venue = [o \in Orders |-> "none"]
    /\ misses = 0 /\ crashes = 0

GoTo(o, s) == stage' = [stage EXCEPT ![o] = s]

\* A request or a query that the venue itself does not answer.
Miss == misses < MaxMisses /\ misses' = misses + 1

\* market, limit, closeByMarket, batchNormal; stopEntry and protection do not reconcile.
Place(o) ==
    /\ stage[o] = "new"
    /\ IF ServiceOf[o] = "normal" /\ ~reconciled
       THEN reconciled' = TRUE /\ GoTo(o, "copy")
       ELSE UNCHANGED reconciled /\ GoTo(o, "intent")
    /\ UNCHANGED <<journalVars, answer, todo, missing, venueVars, boundVars>>

----------------------------------------------------------------------------
(* reconcilePendingJournalOnce, in the coroutine of the placement o.       *)

CopyPending(o) ==
    /\ stage[o] = "copy"
    /\ todo' = PendingReconcile("normal")
    /\ GoTo(o, "reconcile")
    /\ UNCHANGED <<journalVars, answer, reconciled, missing, venueVars, boundVars>>

\* The normal endpoints know the orders of the normal service.
Finds(p) == venue[p] = "live" /\ ServiceOf[p] = "normal"

\* The mistake of taking an order that is not found for one that is not there.
ConfirmUnfound(p) ==
    /\ \E saved \in BOOLEAN : UpdateState("normal", p, "Rejected", saved)
    /\ todo' = todo \ {p} /\ missing' = missing \ {p}

Confirm(p) ==
    /\ \E saved \in BOOLEAN : UpdateState("normal", p, "Accepted", saved)
    /\ todo' = todo \ {p} /\ missing' = missing \ {p}

\* The mistake of going on before the search for an order has ended.
PassOverTooSoon(p) ==
    /\ todo' = todo \ {p} /\ UNCHANGED missing
    /\ UNCHANGED journalVars

PassOver(p) ==
    /\ todo' = todo \ {p} /\ missing' = missing \ {p}
    /\ UNCHANGED journalVars

\* queryOrderByClientOrderId: -2013 is also what it says of an old order.
QueryPending(o) ==
    /\ stage[o] = "reconcile" /\ missing = {}
    /\ \E p \in todo :
        \/ Finds(p) /\ Confirm(p) /\ UNCHANGED misses
        \/ missing' = {p} /\ UNCHANGED <<journalVars, todo, misses>>
        \/ Miss /\ PassOver(p)
    /\ UNCHANGED <<placementVars, reconciled, venueVars, crashes>>

\* allOrders.
SearchHistory(o) ==
    /\ stage[o] = "reconcile"
    /\ \E p \in missing :
        \/ Finds(p) /\ Confirm(p) /\ UNCHANGED misses
        \/ ~Finds(p) /\ PassOver(p) /\ UNCHANGED misses
        \/ Miss /\ PassOver(p)
    /\ UNCHANGED <<placementVars, reconciled, venueVars, crashes>>

Reconciled(o) ==
    /\ stage[o] = "reconcile" /\ todo = {}
    /\ GoTo(o, "intent")
    /\ UNCHANGED <<journalVars, answer, reconcileVars, venueVars, boundVars>>

----------------------------------------------------------------------------
(* The placement.                                                          *)

\* The mistake of sending whether or not the intent was saved.
WriteIntentAnyway(o) ==
    /\ stage[o] = "intent"
    /\ \E saved \in BOOLEAN : RecordIntent(ServiceOf[o], o, saved)
    /\ GoTo(o, "sent") /\ transit' = transit \cup {o}
    /\ UNCHANGED <<answer, reconcileVars, venue, boundVars>>

\* Only a placement whose intent was saved is sent.
WriteIntent(o) ==
    /\ stage[o] = "intent"
    /\ \E saved \in BOOLEAN :
        /\ RecordIntent(ServiceOf[o], o, saved)
        /\ IF saved
           THEN GoTo(o, "sent") /\ transit' = transit \cup {o}
           ELSE GoTo(o, "done") /\ UNCHANGED transit
    /\ UNCHANGED <<answer, reconcileVars, venue, boundVars>>

Told(o, reply) ==
    GoTo(o, "answered") /\ answer' = [answer EXCEPT ![o] = reply]

\* The mistake of hoping for the best.
StateOfSilenceHopeful == "Accepted"

StateOfSilence == "UnknownPendingReconcile"

\* isAmbiguousPlacementError, of what fromHttp leaves of the answer: all that is not
\* silence or success is a rejection.
StateFor(reply) ==
    IF reply = "accepted" THEN "Accepted"
    ELSE IF reply = "silence" THEN StateOfSilence
    ELSE "Rejected"

\* The venue decides, and its answer comes back.
Answered(o) ==
    /\ stage[o] = "sent"
    /\ venue[o] # "none"
    /\ Told(o, IF venue[o] = "live" THEN "accepted" ELSE "refused")
    /\ UNCHANGED <<journalVars, reconcileVars, venueVars, boundVars>>

\* It times out or fails, on whatever side; or the request was aborted before it was sent.
NotAnswered(o) ==
    /\ stage[o] = "sent"
    /\ Miss
    /\ \/ \E reply \in {"silence", "error"} : Told(o, reply) /\ UNCHANGED transit
       \/ o \in transit /\ transit' = transit \ {o} /\ Told(o, "refused")
    /\ UNCHANGED <<journalVars, reconcileVars, venue, crashes>>

WriteAnswer(o) ==
    /\ stage[o] = "answered"
    /\ \E saved \in BOOLEAN : UpdateState(ServiceOf[o], o, StateFor(answer[o]), saved)
    /\ GoTo(o, "done")
    /\ UNCHANGED <<answer, reconcileVars, venueVars, boundVars>>

----------------------------------------------------------------------------
(* The venue, and the process.                                             *)

Arrive(o) ==
    /\ o \in transit
    /\ transit' = transit \ {o}
    /\ \E done \in {"live", "refused"} : venue' = [venue EXCEPT ![o] = done]
    /\ UNCHANGED <<journalVars, placementVars, reconcileVars, boundVars>>

\* The record a crash may cut off.
Writing ==
    {IntentOf(o) : o \in {p \in Orders : stage[p] = "intent"}}
        \cup {UpdateOf(o, StateFor(answer[o])) : o \in {p \in Orders : stage[p] = "answered"}}

\* The process dies and starts again.
Crash ==
    /\ crashes < MaxCrashes /\ crashes' = crashes + 1
    /\ \/ Reload(file)
       \/ \E record \in Writing : \E records \in Partly(record) : Reload(records)
    /\ stage' = [o \in Orders |-> IF stage[o] = "new" THEN "new" ELSE "done"]
    /\ reconciled' = FALSE /\ todo' = {} /\ missing' = {}
    /\ UNCHANGED <<answer, venueVars, misses>>

Next ==
    \/ \E o \in Orders :
        \/ Place(o) \/ CopyPending(o) \/ QueryPending(o) \/ SearchHistory(o) \/ Reconciled(o)
        \/ WriteIntent(o) \/ Answered(o) \/ NotAnswered(o) \/ WriteAnswer(o) \/ Arrive(o)
    \/ Crash

Spec == Init /\ [][Next]_vars

----------------------------------------------------------------------------
TypeOK ==
    /\ JournalTypeOK
    /\ stage \in [Orders -> Stages]
    /\ answer \in [Orders -> Replies \cup {"none"}]
    /\ reconciled \in BOOLEAN
    /\ todo \subseteq Orders /\ missing \subseteq todo
    /\ transit \subseteq Orders
    /\ venue \in [Orders -> {"none", "live", "refused"}]
    /\ {misses, crashes} \subseteq Nat

MayBeLive(o) == o \in transit \/ venue[o] = "live"

\* What may be on record of an order that the venue has, or may yet get.
KnownAs(o) ==
    {"UnknownPendingReconcile", "Accepted"}
        \cup IF answer[o] = "error" THEN {"Rejected"} ELSE {}

\* Neither the service that placed it nor a restart takes an order that the venue
\* has, or may yet get, for unheard of ("orphaned live orders", WR-7), nor for refused
\* unless a server's error was taken for that: the intent is written before the request
\* is sent, and stays pending in doubt (normal_order_service.cpp:368-384), as long as no
\* record follows a torn one.
LiveIsKnown ==
    \A o \in Orders : MayBeLive(o)
        => {memory[ServiceOf[o]][o], Loaded(file)[o]} \subseteq KnownAs(o)

LiveIsKnownUnlessTorn == TornIsLast => LiveIsKnown

\* What the journal calls accepted, by its placement or by the reconciler, the venue has.
AcceptedIsLive ==
    \A i \in 1..Len(file) : file[i].state = "Accepted" => venue[file[i].order] = "live"

\* Where an order stands, whoever knows of it.
Standing(o) ==
    IF venue[o] = "live" THEN "live"
    ELSE IF o \in transit THEN "open"
    ELSE IF stage[o] \in {"new", "copy", "reconcile", "intent"} THEN "unsent"
    ELSE "dead"

Ledger == INSTANCE OrderLedger WITH
    place <- [o \in Orders |-> Standing(o)], ledger <- Loaded(file),
    unclear <- {o \in Orders : answer[o] = "error"}, legible <- TornIsLast

\* The file is a ledger of the placements: written before they are sent, wrong about the
\* venue only where a server's error was taken for a rejection, and what it has settled
\* stays settled, over failing appends, lost answers, a reconciler that runs beside the
\* placements, and restarts (order_journal.cpp:398-428, normal_order_service.cpp:368-399,
\* 969-1024).
JournalIsLedger == Ledger!LedgerSpec
=============================================================================
