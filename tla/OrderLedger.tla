---------------------------- MODULE OrderLedger ----------------------------
(***************************************************************************)
(* What a start of the order services may rely on: of every placement that *)
(* was ever sent the ledger has an entry, made before the sending; an      *)
(* entry becomes Accepted only when the venue has the order, and Rejected  *)
(* only when it never will, after which it does not change any more; and   *)
(* no entry disappears.  Of the orders whose requests were answered with   *)
(* an error that does not tell what became of them the ledger may say      *)
(* Rejected although the venue has them, until they are found there.  A    *)
(* ledger that was written to after a write to it was cut off is not       *)
(* legible again, and promises nothing.                                    *)
(***************************************************************************)
CONSTANT Orders

VARIABLES
    place,      \* [Orders -> {"unsent", "open", "live", "dead"}]
    ledger,     \* [Orders -> PlacementState \cup {"none"}], as a start would read it
    unclear,    \* orders whose requests were answered with such an error
    legible     \* no write followed one that was cut off

ledgerVars == <<place, ledger, unclear, legible>>

LedgerInit ==
    /\ place = [o \in Orders |-> "unsent"]
    /\ ledger = [o \in Orders |-> "none"]
    /\ unclear = {}
    /\ legible = TRUE

\* Where an order goes: to the venue, or nowhere; a restart is the end of many.
Send(o) == place[o] = "unsent" /\ place'[o] = "open" /\ ledger'[o] = "UnknownPendingReconcile"
Arrive(o) == place[o] = "open" /\ place'[o] = "live"
Die(o) == place[o] \in {"unsent", "open"} /\ place'[o] = "dead"
Stay(o) == place'[o] = place[o]

\* Only an order that was sent, and is not settled as rejected, can become unclear.
Blur(o) == place[o] # "unsent" /\ ledger[o] \in {"UnknownPendingReconcile", "Accepted"}

\* One entry is written at a time.  An order that was found may come to be in doubt
\* again, when its own answer is lost after that.
Enter(o) ==
    /\ ledger[o] = "none" /\ place[o] = "unsent"
    /\ ledger' = [ledger EXCEPT ![o] = "UnknownPendingReconcile"]

Doubt(o) ==
    /\ ledger[o] = "Accepted" /\ o \notin unclear
    /\ ledger' = [ledger EXCEPT ![o] = "UnknownPendingReconcile"]

Accept(o) ==
    /\ place[o] = "live"
    /\ \/ ledger[o] = "UnknownPendingReconcile"
       \/ ledger[o] = "Rejected" /\ o \in unclear
    /\ ledger' = [ledger EXCEPT ![o] = "Accepted"]

Reject(o) ==
    /\ \/ ledger[o] = "UnknownPendingReconcile" /\ place[o] = "dead"
       \/ ledger[o] \in {"UnknownPendingReconcile", "Accepted"} /\ o \in unclear
    /\ ledger' = [ledger EXCEPT ![o] = "Rejected"]

LedgerNext ==
    \/ /\ legible /\ legible'
       /\ \A o \in Orders : Send(o) \/ Arrive(o) \/ Die(o) \/ Stay(o)
       /\ unclear \subseteq unclear' /\ \A o \in unclear' \ unclear : Blur(o)
       /\ \/ ledger' = ledger
          \/ \E o \in Orders : Enter(o) \/ Doubt(o) \/ Accept(o) \/ Reject(o)
    \/ ~legible'

LedgerSpec == LedgerInit /\ [][LedgerNext]_ledgerVars
=============================================================================
