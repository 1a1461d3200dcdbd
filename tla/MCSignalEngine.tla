-------------------------- MODULE MCSignalEngine --------------------------
(***************************************************************************)
(* Instances of SignalEngine for TLC, and what the repository says of the  *)
(* engine that the code does not keep.                                     *)
(***************************************************************************)
EXTENDS SignalEngine

MCProcs == {"opener", "monitor", "trailer"}

\* docs/comprehensive-reviews/archives/2026-05-16-engine-v1.0.md:321 "H1 fixed:
\* trailing-stop flow places replacement SL first and avoids naked-stop window";
\* 2026-05-21-engine-v2.0.md:108 "If `closeByMarket` fails, both protection orders
\* remain on the exchange [...] Position is never naked."  So: a tracked live
\* position that has a stop is not left without one by a request of the engine.
NeverNaked ==
    [][\A s \in Symbols :
        Committed(tracker, s) /\ Committed(tracker', s)
            /\ live[s] > 0 /\ live'[s] = live[s] /\ Stops(s) # {}
        => Stops(s)' # {}]_vars

\* src/engine/signal_engine.cpp:2333 "1) Remove tracked positions no longer live.":
\* the entry reconcileTrackedPositions removes is one whose position is gone.
ReconcileRemovesOnlyFlat ==
    [][\A s \in Symbols :
        Committed(tracker, s) /\ ~Has(tracker', s)
            /\ pc["monitor"] = "snapshot" /\ pc'["monitor"] \in {"reconcile", "sleep"}
        => live[s] = 0]_vars
=============================================================================
