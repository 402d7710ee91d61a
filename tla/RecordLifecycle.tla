--------------------------- MODULE RecordLifecycle ---------------------------
(***************************************************************************)
(* What the platform promises of every record, whatever the services do    *)
(* inside: a record is created in its initial status, is edited only while *)
(* it is still editable, moves along the edges of its status graph only,   *)
(* each accepted write gives it the next version, and a deleted record is  *)
(* never touched again.  README.md:43-44 of the repository.                *)
(***************************************************************************)
EXTENDS ComplianceDomain

CONSTANT Seeds   \* the rows found in the tables when the service starts

VARIABLE tbl

Exists(r) == tbl[r].version > 0 /\ ~tbl[r].deleted

Store(r, status, version, fields) ==
    tbl' = [tbl EXCEPT ![r] = [status |-> status, version |-> version,
                               deleted |-> FALSE, fields |-> fields]]

Create(r) ==
    /\ tbl[r].version = 0
    /\ \E fields \in FieldsOf(r) : Store(r, InitialStatus(r), 1, fields)

Edit(r) ==
    /\ Exists(r)
    /\ tbl[r].status \in Editable(r)
    /\ \E fields \in FieldsOf(r) :
          Store(r, tbl[r].status, tbl[r].version + 1, fields)

Move(r) ==
    /\ Exists(r)
    /\ \E to \in StatusOf(r) :
          /\ CanTransition(Graph(r), tbl[r].status, to)
          /\ Store(r, to, tbl[r].version + 1, tbl[r].fields)

Remove(r) ==
    /\ Exists(r)
    /\ tbl' = [tbl EXCEPT ![r].deleted = TRUE]

Init == tbl = Seeds

Next == \E r \in Record : Create(r) \/ Edit(r) \/ Move(r) \/ Remove(r)

Spec == Init /\ [][Next]_tbl
=============================================================================
