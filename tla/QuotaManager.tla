---------------------------- MODULE QuotaManager ----------------------------
(***************************************************************************)
(* The quota of Gemini requests that the analyzer's threads share, also    *)
(* across processes: a JSON file, rewritten as a whole under a lock file   *)
(* (src/tools/gemini_filter/quota_manager.py, cache_store.py).             *)
(*                                                                         *)
(* The lock is held by whoever created the file.  One that is older than   *)
(* thirty seconds is taken for left behind and removed; whoever leaves     *)
(* removes the file there is, which need not be the one he created.        *)
(* One Pacific day is modelled, with the quota enabled; the bucket of      *)
(* requests per minute only decides whether a reservation may be rejected. *)
(***************************************************************************)
EXTENDS Naturals

CONSTANTS
    Threads,        \* those who use the quota
    Models,
    DailyLimit      \* _scaled_limit(rpd), by model

ASSUME QuotaAssumption == Models # {} /\ DailyLimit \in [Models -> Nat]

VARIABLES
    lock,       \* state.lock: "free", "fresh", or "old" when a waiter would take it over
    stored,     \* state.json: rpd_used and whether cooldown_until is still ahead, by model
    access,     \* where each thread stands, for which model, and the state it has read
    granted,    \* reservations that were granted, by model
    aged        \* has a lock file ever become old?

quotaVars == <<lock, stored, access, granted, aged>>

ModelState == [used : Nat, cooling : BOOLEAN]
Unread == [m \in Models |-> [used |-> 0, cooling |-> FALSE]]

Inside == {"load", "save", "granted", "rejected", "cooled"}
AtDoor == {"enter", "takeover"}
Away == [at |-> "out", op |-> "none", model |-> CHOOSE m \in Models : TRUE, seen |-> Unread]

QuotaInit ==
    /\ lock = "free"
    /\ stored = Unread
    /\ access = [t \in Threads |-> Away]
    /\ granted = [m \in Models |-> 0]
    /\ aged = FALSE

----------------------------------------------------------------------------
(* file_lock.                                                              *)

MoveTo(t, at) == access' = [access EXCEPT ![t].at = at]

Approach(t, op, m) ==
    /\ access[t].at = "out"
    /\ access' = [access EXCEPT ![t] = [at |-> "enter", op |-> op, model |-> m, seen |-> Unread]]
    /\ UNCHANGED <<lock, stored, granted, aged>>

\* The mistake of opening the lock file without O_EXCL.
EnterAnyway(t) ==
    /\ access[t].at = "enter"
    /\ lock' = "fresh"
    /\ MoveTo(t, "load")
    /\ UNCHANGED <<stored, granted, aged>>

\* os.open(O_CREAT | O_EXCL).
Enter(t) ==
    /\ access[t].at = "enter" /\ lock = "free"
    /\ lock' = "fresh"
    /\ MoveTo(t, "load")
    /\ UNCHANGED <<stored, granted, aged>>

\* stat() finds a file that is old,
SeesOld(t) ==
    /\ access[t].at = "enter" /\ lock = "old"
    /\ MoveTo(t, "takeover")
    /\ UNCHANGED <<lock, stored, granted, aged>>

\* and unlink() removes the one that is there by then.
TakesOver(t) ==
    /\ access[t].at = "takeover"
    /\ lock' = "free"
    /\ MoveTo(t, "enter")
    /\ UNCHANGED <<stored, granted, aged>>

LockTimesOut(t) ==
    /\ access[t].at = "enter" /\ lock # "free"
    /\ access' = [access EXCEPT ![t] = Away]
    /\ UNCHANGED <<lock, stored, granted, aged>>

Leave(t) ==
    /\ access[t].at \in {"granted", "rejected", "cooled"}
    /\ lock' = "free"
    /\ access' = [access EXCEPT ![t] = Away]
    /\ UNCHANGED <<stored, granted, aged>>

----------------------------------------------------------------------------
(* What is done under the lock.                                            *)

Load(t) ==
    /\ access[t].at = "load"
    /\ access' = [access EXCEPT ![t].at = "save", ![t].seen = stored]
    /\ UNCHANGED <<lock, stored, granted, aged>>

\* The whole state is written as it was read, but for the model's own entry.
WriteState(t, modelState) == stored' = [access[t].seen EXCEPT ![access[t].model] = modelState]

Used(t) == access[t].seen[access[t].model].used
Cooling(t) == access[t].seen[access[t].model].cooling

Grant(t) ==
    /\ access[t].at = "save" /\ access[t].op = "reserve"
    /\ ~Cooling(t) /\ Used(t) + 1 <= DailyLimit[access[t].model]
    /\ WriteState(t, [used |-> Used(t) + 1, cooling |-> FALSE])
    /\ granted' = [granted EXCEPT ![access[t].model] = @ + 1]
    /\ access' = [access EXCEPT ![t].at = "granted", ![t].seen = Unread]
    /\ UNCHANGED <<lock, aged>>

\* The model cools down, its day is used up, or so is its minute.
Reject(t) ==
    /\ access[t].at = "save" /\ access[t].op = "reserve"
    /\ access' = [access EXCEPT ![t].at = "rejected", ![t].seen = Unread]
    /\ UNCHANGED <<lock, stored, granted, aged>>

CoolDown(t) ==
    /\ access[t].at = "save" /\ access[t].op = "cooldown"
    /\ WriteState(t, [used |-> Used(t), cooling |-> TRUE])
    /\ access' = [access EXCEPT ![t].at = "cooled", ![t].seen = Unread]
    /\ UNCHANGED <<lock, granted, aged>>

----------------------------------------------------------------------------
(* Time, and the end of the process: its lock file stays.                  *)

LockAges ==
    /\ lock = "fresh"
    /\ lock' = "old" /\ aged' = TRUE
    /\ UNCHANGED <<stored, access, granted>>

\* A cooldown_until passes, wherever it is written or has been read.
CoolingEnds(m) ==
    /\ stored[m].cooling
    /\ stored' = [stored EXCEPT ![m].cooling = FALSE]
    /\ access' = [t \in Threads |-> [access[t] EXCEPT !.seen[m].cooling = FALSE]]
    /\ UNCHANGED <<lock, granted, aged>>

ProcessEnds ==
    /\ access' = [t \in Threads |-> Away]
    /\ UNCHANGED <<lock, stored, granted, aged>>

QuotaStep(t) == Enter(t) \/ SeesOld(t) \/ TakesOver(t) \/ Load(t) \/ Grant(t) \/ Reject(t) \/ CoolDown(t)

QuotaNext ==
    \/ \E t \in Threads :
        \/ QuotaStep(t) \/ LockTimesOut(t) \/ Leave(t)
        \/ \E op \in {"reserve", "cooldown"}, m \in Models : Approach(t, op, m)
    \/ LockAges \/ ProcessEnds
    \/ \E m \in Models : CoolingEnds(m)

QuotaSpec == QuotaInit /\ [][QuotaNext]_quotaVars

----------------------------------------------------------------------------

QuotaTypeOK ==
    /\ lock \in {"free", "fresh", "old"}
    /\ stored \in [Models -> ModelState]
    /\ access \in [Threads -> [at : {"out"} \cup AtDoor \cup Inside,
                               op : {"none", "reserve", "cooldown"},
                               model : Models, seen : [Models -> ModelState]]]
    /\ granted \in [Models -> Nat]
    /\ aged \in BOOLEAN

\* As long as no lock file has become old (its holder slow, or killed inside), no model is
\* granted more requests in a day than its limit, whatever the threads and processes do.
QuotaKeptUntilLockAges == ~aged => \A m \in Models : granted[m] <= DailyLimit[m]
=============================================================================
