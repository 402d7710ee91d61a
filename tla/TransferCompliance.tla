-------------------------- MODULE TransferCompliance --------------------------
(***************************************************************************)
(* The backend as its users see it: the four services working on one       *)
(* database, any number of requests in flight, a clock against which       *)
(* permits and licences expire.                                            *)
(***************************************************************************)
EXTENDS CheckService

Beyond(r) == tbl[r].status \notin {"", "draft"}

\* Seeded manifests beyond draft name a seeded verified carrier, and a seeded
\* pass is about a seeded manifest beyond draft
\* (backend/internal/database/database.go, lines 183-241).
ASSUME SeedsConsistent ==
    /\ \A m \in Manifest : Seeds[m].status \notin {"", "draft"} =>
          Seeds[Seeds[m].fields.car].status = "verified"
    /\ \A c \in Check : Seeds[c].status = "pass" =>
          Seeds[Seeds[c].fields].status \notin {"", "draft"}

Init == RequestsInit

RequestStep(q) ==
    LicenceStep(q) \/ ManifestStep(q) \/ CheckStep(q) \/ CommitStep(q) \/ Fail(q)

Next == Tick \/ \E q \in Request : RequestStep(q)

\* No fairness: nothing runs in the background, and a request may always fail.
Spec == Init /\ [][Next]_vars

-----------------------------------------------------------------------------
(* Every variable keeps its type: rows are absent or well formed for their
   aggregate, and so is what each request carries. *)
TypeOK ==
    /\ DOMAIN tbl = Record
    /\ \A r \in Record : tbl[r] \in {NoRow} \cup StoredRow(r)
    /\ DOMAIN trail = Record
    /\ \A r \in Record : trail[r] \in Seq(AuditEntry(r))
    /\ DOMAIN req = Request
    /\ \A q \in Request :
          req[q] = Idle \/ \E r \in Record : req[q] \in Job(r)
    /\ now \in Nat

(* However requests interleave, every record goes through its lifecycle: the
   version comparison of base.go:96 has to make up for reads, guards and write
   being separate database calls.  Clients that send only versions they have
   loaded (Lookahead = 0). *)
Lifecycle == INSTANCE RecordLifecycle WITH tbl <- tbl, Seeds <- Seeds

ImplementsLifecycle == Lifecycle!Spec

(* A request in flight holds the stored row or an older version of it, and a
   held row of the stored version is the stored row: so a write that passes the
   version comparison was decided on what it replaces.  This is what makes the
   guards of the services, evaluated long before the write, count. *)
Current(job) ==
    LET row == tbl[job.rec] IN
    /\ job.op = "create" => job.status = InitialStatus(job.rec)
    /\ job.op # "create" =>
          /\ job.current.version \in 1 .. row.version
          /\ job.current.version = row.version =>
                job.current.status = row.status /\ job.current.fields = row.fields
    /\ job.op \in {"update", "transition"} =>
          job.expected \in 1 .. job.current.version + Lookahead
    /\ job.op = "update" =>
          /\ job.status = job.current.status
          /\ job.status \in Editable(job.rec)
    /\ job.op = "transition" =>
          /\ CanTransition(Graph(job.rec), job.current.status, job.status)
          /\ job.fields = job.current.fields
    /\ job.op = "delete" => job.current.status \in Editable(job.rec)

RequestsCurrent == \A q \in Request : req[q] # Idle => Current(req[q])

(* The audit log accounts for every version of a row and for its deletion,
   each entry takes up the state where the one before left it, and the last
   one ends in the state that is stored: base.go:66-119 writes row and entry
   together, but the before-state comes from a read made earlier.  The entry of
   a deletion is left out of the chain: its before-state may be stale. *)
Writes(row) == row.version + IF row.deleted THEN 1 ELSE 0

Reached(r, i) == IF i = 0 THEN Seeds[r].status ELSE trail[r][i].after

Accounted(r) ==
    LET t == trail[r] IN
    /\ Len(t) + Writes(Seeds[r]) = Writes(tbl[r])
    /\ IF Len(t) > 0 /\ tbl[r].deleted
       THEN t[Len(t)].action = "delete"
       ELSE Reached(r, Len(t)) = tbl[r].status

RecordReplays(r) ==
    /\ Accounted(r)
    /\ \A i \in 1 .. Len(trail[r]) :
          trail[r][i].action # "delete" => trail[r][i].before = Reached(r, i - 1)

TrailReplays == \A r \in Record : RecordReplays(r)

(* The log of a record, read on its own, shows no step against the rules
   (README.md:43-44, status.go): it begins with a creation or at a seed, edits
   stand where the record was editable, transitions follow the graph, and
   nothing stands after a deletion, which names an editable state that the
   record was once in, even when a decision came in between. *)
LegalEntry(r, i) ==
    LET e == trail[r][i]
        from == Reached(r, i - 1)
    IN
    \/ e.action = "create" /\ from = "" /\ e.after = InitialStatus(r)
    \/ e.action = "update" /\ from \in Editable(r) /\ e.after = from
    \/ e.action = "transition" /\ CanTransition(Graph(r), from, e.after)
    \/ /\ e.action = "delete" /\ e.after = "deleted" /\ i = Len(trail[r])
       /\ e.before \in Editable(r) /\ \E j \in 0 .. i - 1 : e.before = Reached(r, j)

TrailLegal == \A r \in Record : \A i \in 1 .. Len(trail[r]) : LegalEntry(r, i)

(* Nothing is decided twice: a submission, dispatch, receipt or decision that is
   sent again, because its reply was lost or by another user meanwhile, is not
   stored a second time (transfer_manifest.go:103-113, base.go:96). *)
Decision(r, i) == trail[r][i].action = "transition"

DecidedOnce ==
    \A r \in Manifest \cup Check : \A i, j \in 1 .. Len(trail[r]) :
        i # j /\ Decision(r, i) /\ Decision(r, j) =>
            trail[r][i].after # trail[r][j].after

(* The carrier named by a manifest that has left draft was verified by a
   reviewer at some time (transfer_manifest.go:160-166): re-pointing a
   submitted manifest, or a commit on a row other than the one whose parties
   were checked, would break it. *)
OnceVerified(c) ==
    \/ Seeds[c].status = "verified"
    \/ \E i \in 1 .. Len(trail[c]) : trail[c][i].after = "verified"

PartiesOnceApproved ==
    \A m \in Manifest : Beyond(m) => OnceVerified(tbl[m].fields.car)

(* A passed check is about a manifest that was submitted
   (compliance_check.go:112-118), even though the manifest is read before the
   decision is stored and the check may be edited in between. *)
PassedOnSubmitted ==
    \A c \in Check : tbl[c].status = "pass" => Beyond(tbl[c].fields)

-----------------------------------------------------------------------------
(* Statements of the repository that the code does not keep; each is checked
   by a run of its own that finds the behaviour breaking it. *)

(* README.md:44: a submitted manifest and a decided check cannot be deleted. *)
RetainedForCompliance ==
    \A r \in Manifest \cup Check :
        tbl[r].deleted /\ ~Seeds[r].deleted => tbl[r].status \in Editable(r)

(* README.md:43: a manifest only moves along draft, submitted, in_transit,
   received or to rejected; decisions never go back. *)
StatusFollowsGraph ==
    [][\A r \in Manifest \cup Check :
          tbl[r].version > 0 /\ tbl'[r].status # tbl[r].status =>
              CanTransition(Graph(r), tbl[r].status, tbl'[r].status)]_vars
=============================================================================
