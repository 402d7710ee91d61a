--------------------------- MODULE ManifestService ---------------------------
(***************************************************************************)
(* transferManifestService                                                 *)
(* (backend/internal/service/transfer_manifest.go).                        *)
(*                                                                         *)
(* Create and Update only ask that the two parties exist; submission and   *)
(* dispatch ask that they are eligible, one read after the other and       *)
(* before the transaction that stores the new status.                      *)
(***************************************************************************)
EXTENDS LicenceServices

Dispatch == {"submitted", "in_transit"}

\* The parties a request is about: for a transition they are the stored ones.
Parties(q) == req[q].fields

-----------------------------------------------------------------------------

ManifestCreate(q) ==
    \E r \in Manifest : \E parties \in FieldsOf(r) :
        StartCreate(q, "generator", r, parties)

ManifestUpdate(q) ==
    \E r \in Manifest : \E parties \in FieldsOf(r) :
        /\ tbl[r].status = "draft"
        /\ StartWrite(q, "generator", "update", r, tbl[r].status, parties)

\* Without the graph a draft is dispatched, or a received manifest reopened.
ManifestTransitionAnywhere(q) ==
    \E r \in Manifest : \E target \in StatusOf(r) :
        StartWrite(q, IF target \in Dispatch THEN "generator" ELSE "write",
                   "transition", r, target, tbl[r].fields)

ManifestTransition(q) ==
    \E r \in Manifest : \E target \in StatusOf(r) :
        /\ CanTransition(TransferManifestTransitions, tbl[r].status, target)
        /\ StartWrite(q, IF target \in Dispatch THEN "generator" ELSE "write",
                      "transition", r, target, tbl[r].fields)

ManifestDelete(q) ==
    \E r \in Manifest :
        /\ tbl[r].status = "draft"
        /\ StartDelete(q, r)

-----------------------------------------------------------------------------
(* The reads of the linked parties. *)

GeneratorEligible(g) ==
    /\ Live(g)
    /\ tbl[g].status = "active"
    /\ Unexpired(tbl[g].fields)

CarrierEligible(c) ==
    /\ Live(c)
    /\ tbl[c].status = "verified"
    /\ Unexpired(tbl[c].fields)

ReadGenerator(q) ==
    /\ Proceed(q, "generator", "carrier")
    /\ IF req[q].op = "transition" THEN GeneratorEligible(Parties(q).gen)
                                   ELSE Live(Parties(q).gen)

\* Submission that only asks for an existing carrier, as a draft does.
ReadCarrierUnchecked(q) ==
    /\ Proceed(q, "carrier", "write")
    /\ Live(Parties(q).car)

ReadCarrier(q) ==
    /\ Proceed(q, "carrier", "write")
    /\ IF req[q].op = "transition" THEN CarrierEligible(Parties(q).car)
                                   ELSE Live(Parties(q).car)

ManifestStep(q) ==
    \/ ManifestCreate(q) \/ ManifestUpdate(q)
    \/ ManifestTransition(q) \/ ManifestDelete(q)
    \/ ReadGenerator(q) \/ ReadCarrier(q)
=============================================================================
