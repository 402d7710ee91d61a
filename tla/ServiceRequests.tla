--------------------------- MODULE ServiceRequests ---------------------------
(***************************************************************************)
(* The life of a request in the service layer (backend/internal/service).  *)
(*                                                                         *)
(* Every operation of the four services has the same shape: it reads the   *)
(* row it is about with Get, decides on what it read, may read linked rows *)
(* with FindByCode, and then issues one audited write.  Each database call *)
(* is a step of its own, because the reads are not in the transaction of   *)
(* the write: any other request may commit between two of them.  A request *)
(* is served by one goroutine; the requests in flight share the database   *)
(* and the clock.                                                          *)
(***************************************************************************)
EXTENDS AuditedStore

CONSTANTS
    Request,     \* the requests that can be in flight at the same time
    Lookahead,   \* how far ahead of the row a client's expectedVersion may be
    VersionCap,  \* bound: no request is started on a row that has this version
    MaxTime,     \* bound: the last instant of the clock
    Seeds        \* the rows found in the tables when the service starts

\* Clients that send back the version of a row they have loaded have
\* Lookahead = 0; one that sends the next request before the reply to the
\* last one arrived counts on the version that reply will carry, Lookahead = 1.
\* The service itself takes any version from 1 on.
ASSUME LookaheadAssumption == Lookahead \in Nat

ASSUME VersionCapAssumption == VersionCap \in [Record -> Nat]

ASSUME MaxTimeAssumption == MaxTime \in Nat

ASSUME SeedsAssumption ==
    /\ DOMAIN Seeds = Record
    /\ \A r \in Record : Seeds[r] \in {NoRow} \cup StoredRow(r)

VARIABLES
    req,   \* what every request in flight has read and is about to write
    now    \* the clock the expiry dates are compared with

vars == <<tbl, trail, req, now>>

-----------------------------------------------------------------------------

Idle == [pc |-> "idle"]

\* pc names the next database call, op the operation; current is the row as
\* Get returned it, status and fields what the write will store.
Job(r) ==
    [pc : {"generator", "carrier", "manifest", "write"},
     op : {"create", "update", "transition", "delete"},
     rec : {r}, current : {NoRow} \cup StoredRow(r),
     status : StatusOf(r), fields : FieldsOf(r), expected : Nat]

NewJob(pc, op, r, current, status, fields, expected) ==
    [pc |-> pc, op |-> op, rec |-> r, current |-> current,
     status |-> status, fields |-> fields, expected |-> expected]

Start(q, job) ==
    /\ req[q] = Idle
    /\ tbl[job.rec].version < VersionCap[job.rec]
    /\ req' = [req EXCEPT ![q] = job]
    /\ UNCHANGED <<tbl, trail, now>>

\* Create reads no row of its own: a code that is taken shows at the insert.
StartCreate(q, pc, r, fields) ==
    Start(q, NewJob(pc, "create", r, NoRow, InitialStatus(r), fields, 0))

\* The versions a client may present: any it has seen, up to Lookahead more.
ClientVersion(r) == 1 .. tbl[r].version + Lookahead

\* Update and Transition: the version that is compared at the write is the
\* client's, not the one Get returned.
StartWrite(q, pc, op, r, status, fields) ==
    /\ Live(r)
    /\ \E expected \in ClientVersion(r) :
          /\ expected < VersionCap[r]
          /\ Start(q, NewJob(pc, op, r, tbl[r], status, fields, expected))

StartDelete(q, r) ==
    /\ Live(r)
    /\ Start(q, NewJob("write", "delete", r, tbl[r], tbl[r].status,
                       tbl[r].fields, 0))

\* A linked row was read and accepted: on to the next database call.
Proceed(q, pc, next) ==
    /\ req[q].pc = pc
    /\ req' = [req EXCEPT ![q].pc = next]
    /\ UNCHANGED <<tbl, trail, now>>

-----------------------------------------------------------------------------
(* The writes, and the two other ways in which a request ends. *)

Finish(q) ==
    /\ req' = [req EXCEPT ![q] = Idle]
    /\ UNCHANGED now

About(q, op) ==
    /\ req[q].pc = "write"
    /\ req[q].op = op

CommitCreate(q) ==
    /\ About(q, "create")
    /\ CreateAudited(req[q].rec, req[q].status, req[q].fields)
    /\ Finish(q)

\* An update records its status as both the state before and after it.
CommitUpdate(q) ==
    /\ About(q, "update")
    /\ UpdateAudited(req[q].rec, req[q].expected, "update",
                     req[q].current.status, req[q].status, req[q].fields)
    /\ Finish(q)

CommitTransition(q) ==
    /\ About(q, "transition")
    /\ UpdateAudited(req[q].rec, req[q].expected, "transition",
                     req[q].current.status, req[q].status, req[q].fields)
    /\ Finish(q)

CommitDelete(q) ==
    /\ About(q, "delete")
    /\ DeleteAudited(req[q].rec, req[q].current.status)
    /\ Finish(q)

\* A request ends without a trace whenever one of its reads is refused, its
\* write hits a version conflict, a taken code or a deleted row, the database
\* or the client goes away, or the process stops: the transaction rolls back.
Fail(q) ==
    /\ req[q] # Idle
    /\ Finish(q)
    /\ UNCHANGED storeVars

Tick ==
    /\ now < MaxTime
    /\ now' = now + 1
    /\ UNCHANGED <<tbl, trail, req>>

RequestsInit ==
    /\ tbl = Seeds
    /\ trail = [r \in Record |-> <<>>]
    /\ req = [q \in Request |-> Idle]
    /\ now = 0

CommitStep(q) ==
    CommitCreate(q) \/ CommitUpdate(q) \/ CommitTransition(q) \/ CommitDelete(q)
=============================================================================
