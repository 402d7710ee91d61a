---------------------------- MODULE AuditHistory ----------------------------
(***************************************************************************)
(* When the entries of the audit log are dated, and the order in which the *)
(* queries on the log return them (backend/internal/service/security.go,   *)
(* repository/security.go).                                                *)
(*                                                                         *)
(* newAuditLog takes created_at when the service is done deciding, before  *)
(* the transaction begins; the histories are sorted by created_at only.    *)
(* The variables observe the requests and restrict none of their steps.    *)
(***************************************************************************)
EXTENDS DispatchWitness

VARIABLES
    decided,   \* when each request in flight came to its write
    created    \* created_at of the entries of trail

hvars == <<tbl, trail, req, now, witnessed, decided, created>>

HistoryInit ==
    /\ WitnessInit
    /\ decided = [q \in Request |-> 0]
    /\ created = [r \in Record |-> <<>>]

AtWrite(job) == job # Idle /\ job.pc = "write"

Decide ==
    decided' = [q \in Request |->
                   IF ~AtWrite(req'[q]) THEN 0
                   ELSE IF AtWrite(req[q]) THEN decided[q]
                   ELSE now]

\* The date taken when the call arrives, before the row is read.
DateOnArrival(q) ==
    \E at \in 0 .. now :
        created' = [created EXCEPT ![req[q].rec] = Append(@, at)]

\* The entry of a committed write is dated between the last read of its
\* request and the commit.
Date(q) ==
    \E at \in decided[q] .. now :
        created' = [created EXCEPT ![req[q].rec] = Append(@, at)]

HistoryNext ==
    /\ WitnessNext
    /\ Decide
    /\ \/ \E q \in Request : CommitStep(q) /\ Date(q)
       \/ UNCHANGED <<trail, created>>

HistorySpec == HistoryInit /\ [][HistoryNext]_hvars

(* A history sorted by created_at, newest first, tells the writes of a record
   in the order in which they took effect, although each date is taken before
   its transaction and other requests commit in between
   (repository/security.go:92-103, service/security.go:98-109); entries of one
   instant may be told in any order.  It takes a version comparison at the write,
   so deletions, which have none, are left out: one may be dated before a
   write it follows. *)
Dated(r, i) == trail[r][i].action # "delete"

HistoryInOrder ==
    \A r \in Record : \A i, j \in 1 .. Len(created[r]) :
        i < j /\ Dated(r, i) /\ Dated(r, j) => created[r][i] <= created[r][j]

(* Deletions, which no version orders, still come after what they name: the date
   of a deletion is no earlier than that of an entry which reached the state the
   deletion records as the one before it (waste_generator.go:117-126), although
   that state comes from a read and may have been left again since. *)
DeletionsDated ==
    \A r \in Record : \A i \in 1 .. Len(trail[r]) :
        trail[r][i].action = "delete" =>
            \E j \in 0 .. i - 1 :
                /\ trail[r][i].before = Reached(r, j)
                /\ j > 0 => created[r][j] <= created[r][i]
=============================================================================
