-------------------------- MODULE MCOrderServices --------------------------
(***************************************************************************)
(* Instances of OrderServices for TLC, and what the repository says of the *)
(* journal that the code does not keep.                                    *)
(***************************************************************************)
EXTENDS OrderServices

CONSTANTS n1, n2, a1

MCOrders == {n1, n2, a1}
MCSymmetry == Permutations({n1, n2})
MCServiceOf == n1 :> "normal" @@ n2 :> "normal" @@ a1 :> "algo"

\* docs/comprehensive-reviews/2026-05-29-src-v1.1.md:129 "Every ambiguous network/5xx/
\* timeout placement records `UnknownPendingReconcile`", and
\* docs/archives/design/2026-05-12-orders-layer-v1.1.md:982 "`UnknownPendingReconcile`
\* applies to any post-write ambiguous outcome": no order that the venue has, or may yet
\* get, is on record as rejected.
NoneIsRejectedInDoubt ==
    \A o \in Orders : MayBeLive(o) => Loaded(file)[o] # "Rejected"
=============================================================================
