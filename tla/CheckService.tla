---------------------------- MODULE CheckService ----------------------------
(***************************************************************************)
(* complianceCheckService (backend/internal/service/compliance_check.go).  *)
(* Every operation but Delete reads the linked manifest, and decides on    *)
(* it, before the transaction that stores the check.                       *)
(***************************************************************************)
EXTENDS ManifestService

\* The statuses of a manifest that a check may pass.
Passable == {"submitted", "in_transit", "received"}

CheckCreate(q) ==
    \E r \in Check, m \in Manifest : StartCreate(q, "manifest", r, m)

\* Without the check of line 72 a decided check is moved to another manifest.
CheckUpdateAnyStatus(q) ==
    \E r \in Check, m \in Manifest :
        StartWrite(q, "manifest", "update", r, tbl[r].status, m)

CheckUpdate(q) ==
    \E r \in Check, m \in Manifest :
        /\ tbl[r].status = "pending"
        /\ StartWrite(q, "manifest", "update", r, tbl[r].status, m)

CheckTransition(q) ==
    \E r \in Check : \E target \in StatusOf(r) :
        /\ CanTransition(ComplianceCheckTransitions, tbl[r].status, target)
        /\ StartWrite(q, "manifest", "transition", r, target, tbl[r].fields)

CheckDelete(q) ==
    \E r \in Check :
        /\ tbl[r].status = "pending"
        /\ StartDelete(q, r)

\* A pass that only asks for an existing manifest, as a failure does.
ReadManifestUnchecked(q) ==
    /\ Proceed(q, "manifest", "write")
    /\ Live(req[q].fields)

ReadManifest(q) ==
    /\ Proceed(q, "manifest", "write")
    /\ Live(req[q].fields)
    /\ req[q].op = "transition" /\ req[q].status = "pass" =>
          tbl[req[q].fields].status \in Passable

CheckStep(q) ==
    \/ CheckCreate(q) \/ CheckUpdate(q) \/ CheckTransition(q)
    \/ CheckDelete(q) \/ ReadManifest(q)
=============================================================================
