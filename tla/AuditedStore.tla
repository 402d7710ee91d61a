---------------------------- MODULE AuditedStore ----------------------------
(***************************************************************************)
(* The generic repository (backend/internal/repository/base.go): one table *)
(* of rows per aggregate and the audit log that grows with them.           *)
(*                                                                         *)
(* Each of the three audited writes is one database transaction holding    *)
(* one conditional statement on the row and the insertion of the audit     *)
(* row.  The database makes it atomic, so it is one step here; when any    *)
(* part of it fails nothing is stored and the caller gets an error, which  *)
(* is the caller's step (ServiceRequests!Fail).                            *)
(***************************************************************************)
EXTENDS ComplianceDomain, Sequences

VARIABLES
    tbl,     \* the row of every record code
    trail    \* the audit entries of every record, oldest first

storeVars == <<tbl, trail>>

-----------------------------------------------------------------------------
(* Reads: soft-deleted rows are invisible to Get and FindByCode. *)

Live(r) == tbl[r].version > 0 /\ ~tbl[r].deleted

\* One audit row: the operation and the states it records around it.
Entry(action, before, after) ==
    [action |-> action, before |-> before, after |-> after]

AuditEntry(r) ==
    [action : {"create", "update", "transition", "delete"},
     before : StatusOf(r) \cup {""}, after : StatusOf(r) \cup {"deleted"}]

Log(r, entry) == trail' = [trail EXCEPT ![r] = Append(@, entry)]

-----------------------------------------------------------------------------
(* The unique index on code also covers soft-deleted rows. *)
CreateAudited(r, status, fields) ==
    /\ tbl[r].version = 0
    /\ tbl' = [tbl EXCEPT ![r] = [status |-> status, version |-> 1,
                                  deleted |-> FALSE, fields |-> fields]]
    /\ Log(r, Entry("create", "", status))

\* Without the version in the WHERE clause the last writer wins.
UpdateAuditedLastWins(r, expected, action, before, status, fields) ==
    /\ Live(r)
    /\ tbl' = [tbl EXCEPT ![r] = [status |-> status, version |-> expected + 1,
                                  deleted |-> FALSE, fields |-> fields]]
    /\ Log(r, Entry(action, before, status))

\* The audit row left out of the transaction and lost.
UpdateAuditedUnlogged(r, expected, action, before, status, fields) ==
    /\ Live(r)
    /\ tbl[r].version = expected
    /\ tbl' = [tbl EXCEPT ![r] = [status |-> status, version |-> expected + 1,
                                  deleted |-> FALSE, fields |-> fields]]
    /\ UNCHANGED trail

\* A transition that writes nothing but the status, to whatever row is there.
UpdateAuditedColumn(r, expected, action, before, status, fields) ==
    /\ Live(r)
    /\ tbl' = [tbl EXCEPT ![r] =
                 [status |-> status, version |-> @.version + 1, deleted |-> FALSE,
                  fields |-> IF action = "transition" THEN @.fields ELSE fields]]
    /\ Log(r, Entry(action, before, status))

\* UPDATE ... WHERE id = ? AND version = ? writes every column of the row the
\* service holds in memory, its status included.
UpdateAudited(r, expected, action, before, status, fields) ==
    /\ Live(r)
    /\ tbl[r].version = expected
    /\ tbl' = [tbl EXCEPT ![r] = [status |-> status, version |-> expected + 1,
                                  deleted |-> FALSE, fields |-> fields]]
    /\ Log(r, Entry(action, before, status))

\* The soft delete names the id only: neither the version nor the status that
\* the service looked at is part of the statement.
DeleteAudited(r, before) ==
    /\ Live(r)
    /\ tbl' = [tbl EXCEPT ![r].deleted = TRUE]
    /\ Log(r, Entry("delete", before, "deleted"))
=============================================================================
