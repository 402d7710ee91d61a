------------------------ MODULE ComplianceRules_proofs ------------------------
(***************************************************************************)
(* The audit log and the rules that relate records, proved on top of the   *)
(* optimistic lock (TransferCompliance_proofs).  Clients send versions     *)
(* they have loaded: Lookahead = 0.                                        *)
(***************************************************************************)
EXTENDS TransferCompliance_proofs

-----------------------------------------------------------------------------
(* The audit log. *)

\* The entry a request writes when it commits.
EntryOf(job) ==
    Entry(job.op, IF job.op = "create" THEN "" ELSE job.current.status,
          IF job.op = "delete" THEN "deleted" ELSE job.status)

\* A commit is one more entry and one more write of its row.
Logs(q, r) ==
    /\ EntryOf(req[q]) \in AuditEntry(r)
    /\ trail'[r] = Append(trail[r], EntryOf(req[q]))
    /\ tbl[r].deleted = FALSE
    /\ Writes(tbl'[r]) = Writes(tbl[r]) + 1
    /\ IF req[q].op = "delete"
       THEN tbl'[r].deleted = TRUE /\ tbl'[r].status = tbl[r].status
       ELSE tbl'[r].deleted = FALSE /\ tbl'[r].status = req[q].status

LEMMA WritesTyped ==
    ASSUME NEW row, row.version \in Nat
    PROVE  Writes(row) \in Nat
BY DEF Writes

LEMMA WritesOf ==
    ASSUME NEW row, row.version \in Nat
    PROVE  /\ row.deleted = FALSE => Writes(row) = row.version
           /\ row.deleted = TRUE => Writes(row) = row.version + 1
BY DEF Writes

LEMMA JobParts ==
    ASSUME NEW r, NEW job \in Job(r)
    PROVE  /\ job.op \in {"create", "update", "transition", "delete"}
           /\ job.status \in StatusOf(r)
           /\ job.current.status \in StatusOf(r) \cup {""}
<1>1. /\ job.op \in {"create", "update", "transition", "delete"}
      /\ job.status \in StatusOf(r)
      /\ job.current \in {NoRow} \cup StoredRow(r)
  BY DEF Job
<1>2. NoRow.status = ""
  BY DEF NoRow
<1>3. \A row \in StoredRow(r) : row.status \in StatusOf(r)
  BY DEF StoredRow
<1> QED BY <1>1, <1>2, <1>3

LEMMA EntryTyped ==
    ASSUME NEW r, NEW job \in Job(r)
    PROVE  EntryOf(job) \in AuditEntry(r)
<1> DEFINE before == IF job.op = "create" THEN "" ELSE job.current.status
           after == IF job.op = "delete" THEN "deleted" ELSE job.status
<1>1. /\ job.op \in {"create", "update", "transition", "delete"}
      /\ before \in StatusOf(r) \cup {""}
      /\ after \in StatusOf(r) \cup {"deleted"}
  BY JobParts
<1>2. EntryOf(job) = [action |-> job.op, before |-> before, after |-> after]
  BY DEF EntryOf, Entry
<1>3. \A op, x, y : /\ op \in {"create", "update", "transition", "delete"}
                   /\ x \in StatusOf(r) \cup {""}
                   /\ y \in StatusOf(r) \cup {"deleted"}
                   => [action |-> op, before |-> x, after |-> y] \in AuditEntry(r)
  BY DEF AuditEntry
<1> HIDE DEF before, after
<1> QED BY <1>1, <1>2, <1>3

LEMMA CreateLogs ==
    ASSUME TypeOK, NEW q \in Request, NEW r \in Record, r = req[q].rec,
           req[q] \in Job(r), CommitCreate(q)
    PROVE  Logs(q, r)
<1>1. req[q].op = "create" /\ CreateAudited(r, req[q].status, req[q].fields)
  BY DEF CommitCreate, About
<1>2. EntryOf(req[q]) = Entry("create", "", req[q].status)
  BY <1>1 DEF EntryOf
<1>3. EntryOf(req[q]) \in AuditEntry(r)
  BY EntryTyped
<1>4. trail'[r] = Append(trail[r], EntryOf(req[q]))
  BY <1>1, <1>2 DEF CreateAudited, Log, TypeOK
<1>5. tbl[r] = NoRow
  BY <1>1 DEF CreateAudited, TypeOK, StoredRow
<1>6. NoRow.deleted = FALSE /\ NoRow.version = 0
  BY DEF NoRow
<1>7. /\ tbl'[r].status = req[q].status /\ tbl'[r].deleted = FALSE
      /\ tbl'[r].version = 1
  BY <1>1 DEF CreateAudited, TypeOK
<1>8. Writes(tbl'[r]) = 1 /\ Writes(tbl[r]) = 0
  BY <1>5, <1>6, <1>7 DEF Writes
<1> QED BY <1>1, <1>3, <1>4, <1>5, <1>6, <1>7, <1>8 DEF Logs

LEMMA UpdateLogs ==
    ASSUME TypeOK, NEW q \in Request, NEW r \in Record, r = req[q].rec,
           req[q] \in Job(r), CommitUpdate(q) \/ CommitTransition(q)
    PROVE  Logs(q, r)
<1>1. /\ req[q].op \in {"update", "transition"}
      /\ UpdateAudited(r, req[q].expected, req[q].op, req[q].current.status,
                       req[q].status, req[q].fields)
  BY DEF CommitUpdate, CommitTransition, About
<1>2. EntryOf(req[q]) = Entry(req[q].op, req[q].current.status, req[q].status)
  BY <1>1 DEF EntryOf
<1>4. EntryOf(req[q]) \in AuditEntry(r)
  BY EntryTyped
<1>5. trail'[r] = Append(trail[r], EntryOf(req[q]))
  BY <1>1, <1>2 DEF UpdateAudited, Log, TypeOK
<1>6. /\ tbl[r].deleted = FALSE /\ tbl[r].version = req[q].expected
      /\ tbl[r].version \in Nat
  BY <1>1, LiveRowTyped DEF UpdateAudited, Live, StoredRow
<1>7. /\ tbl'[r].status = req[q].status /\ tbl'[r].deleted = FALSE
      /\ tbl'[r].version = req[q].expected + 1
  BY <1>1 DEF UpdateAudited, TypeOK
<1>8. Writes(tbl'[r]) = Writes(tbl[r]) + 1
  BY <1>6, <1>7 DEF Writes
<1> QED BY <1>1, <1>4, <1>5, <1>6, <1>7, <1>8 DEF Logs

LEMMA DeleteLogs ==
    ASSUME TypeOK, NEW q \in Request, NEW r \in Record, r = req[q].rec,
           req[q] \in Job(r), CommitDelete(q)
    PROVE  Logs(q, r)
<1>1. req[q].op = "delete" /\ DeleteAudited(r, req[q].current.status)
  BY DEF CommitDelete, About
<1>2. EntryOf(req[q]) = Entry("delete", req[q].current.status, "deleted")
  BY <1>1 DEF EntryOf
<1>4. EntryOf(req[q]) \in AuditEntry(r)
  BY EntryTyped
<1>5. trail'[r] = Append(trail[r], EntryOf(req[q]))
  BY <1>1, <1>2 DEF DeleteAudited, Log, TypeOK
<1>6. /\ tbl[r] \in StoredRow(r) /\ tbl[r].version \in Nat
      /\ tbl[r].deleted = FALSE
  BY <1>1, LiveRowTyped DEF DeleteAudited, StoredRow, Live
<1>7. tbl'[r] = [tbl[r] EXCEPT !.deleted = TRUE]
  BY <1>1 DEF DeleteAudited, TypeOK
<1>8. /\ tbl'[r].deleted = TRUE /\ tbl'[r].version = tbl[r].version
      /\ tbl'[r].status = tbl[r].status
  BY <1>6, <1>7 DEF StoredRow
<1>9. Writes(tbl'[r]) = Writes(tbl[r]) + 1
  <2>1. Writes(tbl'[r]) = tbl[r].version + 1 /\ Writes(tbl[r]) = tbl[r].version
    BY <1>6, <1>8, WritesOf
  <2> QED BY <2>1
<1> QED BY <1>1, <1>4, <1>5, <1>6, <1>8, <1>9 DEF Logs

LEMMA CommitLogs ==
    ASSUME TypeOK, NEW q \in Request, CommitStep(q), NEW r, r = req[q].rec
    PROVE  /\ r \in Record /\ req[q] # Idle /\ req[q] \in Job(r)
           /\ Logs(q, r)
<1>1. r \in Record /\ req[q] # Idle /\ req[q] \in Job(r)
  BY CommitTyped, JobTyped
<1> QED BY <1>1, CreateLogs, UpdateLogs, DeleteLogs DEF CommitStep

\* What was in the log stays where it is.
LEMMA LogGrows ==
    ASSUME TypeOK, NEW r \in Record, NEW e, trail'[r] = Append(trail[r], e),
           NEW n, n = Len(trail[r])
    PROVE  /\ n \in Nat /\ Len(trail'[r]) = n + 1
           /\ 1 .. n + 1 = 1 .. n \cup {n + 1}
           /\ trail'[r][n + 1] = e
           /\ \A i \in 1 .. n : trail'[r][i] = trail[r][i]
           /\ \A i \in 0 .. n : Reached(r, i)' = Reached(r, i)
           /\ Reached(r, n + 1)' = e.after
<1>1. trail[r] \in Seq(AuditEntry(r)) /\ n \in Nat
  BY DEF TypeOK
<1>2. /\ Len(trail'[r]) = n + 1 /\ trail'[r][n + 1] = e
      /\ \A i \in 1 .. n : trail'[r][i] = trail[r][i]
  BY <1>1
<1>3. \A i \in 0 .. n : i # 0 => i \in 1 .. n
  BY <1>1
<1>4. n + 1 # 0 /\ 1 .. n + 1 = 1 .. n \cup {n + 1}
  BY <1>1
<1> QED BY <1>1, <1>2, <1>3, <1>4 DEF Reached

\* The steps that are no commits leave the store alone.
LEMMA StoreSteps ==
    ASSUME TypeOK, [Next]_vars
    PROVE  UNCHANGED <<tbl, trail>> \/ \E q \in Request : CommitStep(q)
BY StepKinds, ProceedTyped DEF vars, Tick, StartSound, Start, Fail, storeVars

LEMMA TrailGrows ==
    ASSUME TypeOK, [Next]_vars, NEW r \in Record
    PROVE  trail'[r] = trail[r] \/ \E e : trail'[r] = Append(trail[r], e)
<1>1. ASSUME NEW q \in Request, CommitStep(q), r # req[q].rec
      PROVE  trail'[r] = trail[r]
  BY <1>1, CommitTyped
<1>2. ASSUME NEW q \in Request, CommitStep(q), r = req[q].rec
      PROVE  \E e : trail'[r] = Append(trail[r], e)
  BY <1>2, CommitLogs DEF Logs
<1> QED BY <1>1, <1>2, StoreSteps

-----------------------------------------------------------------------------
(* Row and log go together, whatever versions the clients send. *)

LogAccounts == \A r \in Record : Accounted(r)

LEMMA CommitAccounts ==
    ASSUME TypeOK, NEW q \in Request, CommitStep(q), NEW r, r = req[q].rec,
           Accounted(r)
    PROVE  Accounted(r)'
<1>0. PICK n, e : n = Len(trail[r]) /\ e = EntryOf(req[q])
  OBVIOUS
<1>1. r \in Record /\ Logs(q, r)
  BY CommitLogs
<1>2. trail'[r] = Append(trail[r], e)
  BY <1>0, <1>1 DEF Logs
<1>3. /\ n \in Nat /\ Len(trail'[r]) = n + 1 /\ trail'[r][n + 1] = e
      /\ Reached(r, n + 1)' = e.after
  BY <1>0, <1>1, <1>2, LogGrows DEF Reached
<1>4. IF tbl'[r].deleted THEN e.action = "delete" ELSE e.after = tbl'[r].status
  BY <1>0, <1>1 DEF Logs, EntryOf, Entry
<1>5. Len(trail'[r]) + Writes(Seeds[r]) = Writes(tbl'[r])
  <2>1. Writes(Seeds[r]) \in Nat /\ Writes(tbl[r]) \in Nat
    BY <1>1, SeedsAssumption, RowVersion, VersionTyped, WritesTyped
  <2>2. /\ n + Writes(Seeds[r]) = Writes(tbl[r])
        /\ Writes(tbl'[r]) = Writes(tbl[r]) + 1
    BY <1>0, <1>1 DEF Accounted, Logs
  <2> QED BY <1>3, <2>1, <2>2
<1>6. Reached(r, Len(trail[r]))' = e.after
  BY <1>3 DEF Reached
<1>7. Len(trail'[r]) > 0 /\ trail'[r][Len(trail'[r])] = e
  BY <1>3
<1>8. IF Len(trail'[r]) > 0 /\ tbl'[r].deleted
      THEN trail'[r][Len(trail'[r])].action = "delete"
      ELSE Reached(r, Len(trail[r]))' = tbl'[r].status
  BY <1>4, <1>6, <1>7
<1> QED BY <1>5, <1>8 DEF Accounted

LEMMA AccountsStep ==
    ASSUME TypeOK, LogAccounts, [Next]_vars
    PROVE  LogAccounts'
<1>1. \A r \in Record : tbl'[r] = tbl[r] /\ trail'[r] = trail[r] => Accounted(r)'
  BY DEF LogAccounts, Accounted, Reached
<1>2. ASSUME NEW q \in Request, CommitStep(q) PROVE LogAccounts'
  BY <1>1, <1>2, CommitTyped, CommitLogs, CommitAccounts DEF LogAccounts
<1> QED BY <1>1, <1>2, StoreSteps DEF LogAccounts

LEMMA AccountsInit == Init => LogAccounts
<1> SUFFICES ASSUME Init, NEW r \in Record PROVE Accounted(r)
  BY DEF LogAccounts
<1>1. trail[r] = <<>> /\ tbl[r] = Seeds[r]
  BY DEF Init, RequestsInit
<1>2. Writes(Seeds[r]) \in Nat
  BY SeedsAssumption, RowVersion, WritesTyped
<1> QED BY <1>1, <1>2 DEF Accounted, Reached

(* A write of a row and its audit entry appear together or not at all, and the
   log ends where the row stands, even for clients that guess versions ahead
   (base.go:66-119). *)
THEOREM AuditAccounts == Spec => []LogAccounts
<1>1. Init => TypeOK /\ LogAccounts
  BY TypeInit, AccountsInit
<1>2. TypeOK /\ LogAccounts /\ [Next]_vars => (TypeOK /\ LogAccounts)'
  BY TypeStep, AccountsStep
<1>3. TypeOK /\ LogAccounts => LogAccounts
  OBVIOUS
<1> QED BY <1>1, <1>2, <1>3, PTL DEF Spec

-----------------------------------------------------------------------------
(* The entries chain.  From here on clients send versions they have loaded. *)

\* What the request of a commit knows of the row it replaces.
LEMMA CommitDecidedOnStored ==
    ASSUME Lookahead = 0, TypeOK, RequestsCurrent, NEW q \in Request,
           CommitStep(q), NEW r, r = req[q].rec
    PROVE  LET job == req[q] IN
           /\ job.op \in {"create", "update", "transition", "delete"}
           /\ job.op = "create" =>
                 tbl[r].status = "" /\ job.status = InitialStatus(r)
           /\ job.op \in {"update", "transition"} =>
                 job.current.status = tbl[r].status
           /\ job.op = "update" =>
                 job.status = tbl[r].status /\ job.status \in Editable(r)
           /\ job.op = "transition" =>
                 CanTransition(Graph(r), tbl[r].status, job.status)
           /\ job.op = "delete" => job.current.status \in Editable(r)
<1> DEFINE job == req[q]
<1>1. r \in Record /\ job # Idle /\ job \in Job(r) /\ Current(job)
  BY CommitLogs DEF RequestsCurrent
<1>2. job.op \in {"create", "update", "transition", "delete"}
  BY <1>1 DEF Job
<1>3. ASSUME job.op = "create" PROVE tbl[r].status = ""
  <2>1. CreateAudited(r, job.status, job.fields)
    BY <1>3 DEF CommitStep, CommitCreate, CommitUpdate, CommitTransition,
                CommitDelete, About
  <2>2. tbl[r] = NoRow
    BY <1>1, <2>1 DEF CreateAudited, TypeOK, StoredRow
  <2>3. NoRow.status = ""
    BY DEF NoRow
  <2> QED BY <2>2, <2>3
<1>4. ASSUME job.op \in {"update", "transition"}
      PROVE  job.current.status = tbl[r].status
  <2>1. CommitUpdate(q) \/ CommitTransition(q)
    BY <1>4 DEF CommitStep, CommitCreate, CommitDelete, About
  <2> QED BY <2>1, WriteDecidedOnStored
<1> QED BY <1>1, <1>2, <1>3, <1>4 DEF Current

LEMMA CommitReplays ==
    ASSUME Lookahead = 0, TypeOK, RequestsCurrent, NEW q \in Request,
           CommitStep(q), NEW r, r = req[q].rec, RecordReplays(r)
    PROVE  RecordReplays(r)'
<1>0. PICK n, e : n = Len(trail[r]) /\ e = EntryOf(req[q])
  OBVIOUS
<1>1. r \in Record /\ Logs(q, r) /\ Accounted(r)
  BY CommitLogs DEF RecordReplays
<1>2. Accounted(r)'
  BY <1>1, CommitAccounts
<1>3. /\ n \in Nat /\ Len(trail'[r]) = n + 1 /\ 1 .. n + 1 = 1 .. n \cup {n + 1}
      /\ trail'[r][n + 1] = e /\ \A i \in 1 .. n : trail'[r][i] = trail[r][i]
      /\ \A i \in 0 .. n : Reached(r, i)' = Reached(r, i)
  <2>1. trail'[r] = Append(trail[r], e)
    BY <1>0, <1>1 DEF Logs
  <2> QED BY <1>0, <1>1, <2>1, LogGrows DEF Reached
<1>4. Reached(r, n) = tbl[r].status
  BY <1>0, <1>1 DEF Accounted, Logs
<1>5. e.action # "delete" => e.before = tbl[r].status
  BY <1>0, CommitDecidedOnStored DEF EntryOf, Entry
<1>6. ASSUME NEW i \in 1 .. n + 1, trail'[r][i].action # "delete"
      PROVE  trail'[r][i].before = Reached(r, i - 1)'
  <2>1. i - 1 \in 0 .. n
    BY <1>3
  <2>2. CASE i = n + 1
    BY <1>3, <1>4, <1>5, <1>6, <2>1, <2>2
  <2>3. CASE i \in 1 .. n
    <3>1. trail[r][i].before = Reached(r, i - 1)
      BY <1>0, <1>3, <1>6, <2>3 DEF RecordReplays
    <3> QED BY <1>3, <2>1, <2>3, <3>1
  <2> QED BY <1>3, <2>2, <2>3
<1> QED BY <1>2, <1>3, <1>6 DEF RecordReplays

LEMMA ReplaysStep ==
    ASSUME Lookahead = 0, TypeOK, RequestsCurrent, TrailReplays, [Next]_vars
    PROVE  TrailReplays'
<1>1. \A r \in Record :
          tbl'[r] = tbl[r] /\ trail'[r] = trail[r] => RecordReplays(r)'
  BY DEF TrailReplays, RecordReplays, Accounted, Reached
<1>2. ASSUME NEW q \in Request, CommitStep(q) PROVE TrailReplays'
  BY <1>1, <1>2, CommitTyped, CommitLogs, CommitReplays DEF TrailReplays
<1> QED BY <1>1, <1>2, StoreSteps DEF TrailReplays

LEMMA ReplaysInit == Init => TrailReplays
BY AccountsInit
   DEF Init, RequestsInit, LogAccounts, TrailReplays, RecordReplays

(* The audit log accounts for every version and every deletion, and ends in
   the stored state, however requests interleave. *)
THEOREM AuditComplete ==
    ASSUME Lookahead = 0
    PROVE  Spec => []TrailReplays
<1>1. Init => TrailReplays
  BY ReplaysInit
<1>2. TypeOK /\ RequestsCurrent /\ TrailReplays /\ [Next]_vars => TrailReplays'
  BY ReplaysStep
<1> QED BY <1>1, <1>2, RequestsStayCurrent, PTL DEF Spec

-----------------------------------------------------------------------------
(* The log on its own. *)

\* The log, or the seed it begins at, says that the record was once in this
\* status.
Past(r, status) == \E j \in 0 .. Len(trail[r]) : status = Reached(r, j)

\* What a request holds was stored once, and the log remembers it.
HeldLogged ==
    \A q \in Request :
        req[q] # Idle /\ req[q].op # "create" =>
            Past(req[q].rec, req[q].current.status)

LEMMA PastStays ==
    ASSUME TypeOK, [Next]_vars, NEW r \in Record, NEW status, Past(r, status)
    PROVE  Past(r, status)'
<1>1. PICK n, j : /\ n = Len(trail[r]) /\ j \in 0 .. n
                  /\ status = Reached(r, j)
  BY DEF Past
<1>2. CASE trail'[r] = trail[r]
  BY <1>2 DEF Past, Reached
<1>3. ASSUME NEW e, trail'[r] = Append(trail[r], e)
      PROVE  Past(r, status)'
  <2>1. /\ n \in Nat /\ Len(trail'[r]) = n + 1
        /\ status = Reached(r, j)'
    BY <1>1, <1>3, LogGrows DEF Reached
  <2>2. j \in 0 .. n + 1
    BY <1>1, <2>1
  <2> QED BY <2>1, <2>2 DEF Past
<1> QED BY <1>2, <1>3, TrailGrows

LEMMA HeldStep ==
    ASSUME TypeOK, LogAccounts, HeldLogged, [Next]_vars
    PROVE  HeldLogged'
<1> SUFFICES ASSUME NEW q \in Request, req'[q] # Idle, req'[q].op # "create"
             PROVE  Past(req[q].rec, req[q].current.status)'
  BY DEF HeldLogged
<1>1. PICK r, s : r = req'[q].rec /\ s = req'[q].current.status
  OBVIOUS
<1>2. CASE /\ req[q] # Idle
           /\ req'[q] = req[q] \/ req'[q] = [req[q] EXCEPT !.pc = req'[q].pc]
  <2>1. req[q] \in Job(req[q].rec) /\ req[q].rec \in Record
    BY <1>2, JobTyped
  <2>2. /\ req[q].rec = r /\ req[q].current.status = s
        /\ req[q].op # "create"
    BY <1>1, <1>2, <2>1 DEF Job
  <2>3. Past(r, s) /\ r \in Record
    BY <1>2, <2>1, <2>2 DEF HeldLogged
  <2>4. Past(r, s)'
    BY <2>3, PastStays
  <2> QED BY <1>1, <2>4 DEF Past
<1>3. ASSUME NEW x \in Record, NEW job \in Job(x), Sound(job), Start(q, job),
             req'[q] = job
      PROVE  Past(req[q].rec, req[q].current.status)'
  <2>1. r = x /\ job.op # "create" /\ trail' = trail
    BY <1>1, <1>3 DEF Job, Start
  <2>2. s = tbl[r].status /\ Live(r)
    BY <1>1, <1>3, <2>1 DEF Sound, Job
  <2>3. Accounted(r) /\ trail[r] \in Seq(AuditEntry(r))
    BY <2>1 DEF LogAccounts, TypeOK
  <2>4. Len(trail[r]) \in 0 .. Len(trail[r]) /\ s = Reached(r, Len(trail[r]))
    BY <2>2, <2>3 DEF Accounted, Live
  <2> QED BY <1>1, <2>1, <2>4 DEF Past, Reached
<1> QED BY <1>2, <1>3, RequestSteps

\* No row is in the state that only the log gives a deleted record.
LEMMA NeverDeletedStatus ==
    ASSUME TypeOK, NEW r \in Record
    PROVE  tbl[r].status # "deleted"
<1>1. NoRow.status = ""
  BY DEF NoRow
<1>2. \A row \in StoredRow(r) : row.status \in StatusOf(r)
  BY DEF StoredRow
<1>3. "deleted" \notin StatusOf(r)
  BY DEF StatusOf
<1> QED BY <1>1, <1>2, <1>3 DEF TypeOK

LEMMA CommitLegal ==
    ASSUME Lookahead = 0, TypeOK, RequestsCurrent, LogAccounts, HeldLogged,
           NEW q \in Request, CommitStep(q), NEW r, r = req[q].rec,
           \A i \in 1 .. Len(trail[r]) : LegalEntry(r, i)
    PROVE  \A i \in 1 .. Len(trail'[r]) : LegalEntry(r, i)'
<1>0. PICK n, e : n = Len(trail[r]) /\ e = EntryOf(req[q])
  OBVIOUS
<1>1. r \in Record /\ req[q] # Idle /\ Logs(q, r) /\ Accounted(r)
  BY CommitLogs DEF LogAccounts
<1>2. /\ n \in Nat /\ Len(trail'[r]) = n + 1 /\ 1 .. n + 1 = 1 .. n \cup {n + 1}
      /\ trail'[r][n + 1] = e /\ \A i \in 1 .. n : trail'[r][i] = trail[r][i]
      /\ \A i \in 0 .. n : Reached(r, i)' = Reached(r, i)
  <2>1. trail'[r] = Append(trail[r], e)
    BY <1>0, <1>1 DEF Logs
  <2>2. /\ n \in Nat /\ Len(trail'[r]) = n + 1 /\ 1 .. n + 1 = 1 .. n \cup {n + 1}
        /\ trail'[r][n + 1] = e /\ \A i \in 1 .. n : trail'[r][i] = trail[r][i]
    BY <1>0, <1>1, <2>1, LogGrows DEF Reached
  <2>3. \A i \in 0 .. n : i # 0 => i \in 1 .. n
    BY <2>2
  <2>4. \A i \in 0 .. n : Reached(r, i)' = Reached(r, i)
    BY <2>2, <2>3 DEF Reached
  <2> QED BY <2>2, <2>4
<1>3. Reached(r, n) = tbl[r].status
  BY <1>0, <1>1 DEF Accounted, Logs
<1>4. ASSUME NEW i \in 1 .. n PROVE LegalEntry(r, i)'
  <2>1. LegalEntry(r, i) /\ i - 1 \in 0 .. n /\ i # 0
    BY <1>0, <1>2
  <2>2. trail[r][i].after = "deleted" => i # Len(trail[r])
    BY <1>0, <1>1, <1>3, <2>1, NeverDeletedStatus DEF Reached
  <2>3. trail'[r][i] = trail[r][i] /\ Reached(r, i - 1)' = Reached(r, i - 1)
    BY <1>2, <2>1
  <2> QED BY <2>1, <2>2, <2>3 DEF LegalEntry
<1>5. LegalEntry(r, n + 1)'
  <2>1. (n + 1) - 1 = n /\ n \in 0 .. n
    BY <1>2
  <2>2. trail'[r][n + 1] = e /\ Reached(r, (n + 1) - 1)' = tbl[r].status
    BY <1>2, <1>3, <2>1
  <2>3. CASE req[q].op \in {"create", "update", "transition"}
    <3>1. e.action = req[q].op /\ e.after = req[q].status
      BY <1>0, <2>3 DEF EntryOf, Entry
    <3>2. \/ /\ e.action = "create" /\ tbl[r].status = ""
             /\ e.after = InitialStatus(r)
          \/ /\ e.action = "update" /\ tbl[r].status \in Editable(r)
             /\ e.after = tbl[r].status
          \/ /\ e.action = "transition"
             /\ CanTransition(Graph(r), tbl[r].status, e.after)
      BY <2>3, <3>1, CommitDecidedOnStored
    <3> QED BY <2>2, <3>2 DEF LegalEntry
  <2>4. CASE req[q].op = "delete"
    <3>1. /\ e.action = "delete" /\ e.after = "deleted"
          /\ e.before = req[q].current.status
      BY <1>0, <2>4 DEF EntryOf, Entry
    <3>2. e.before \in Editable(r)
      BY <2>4, <3>1, CommitDecidedOnStored
    <3>3. PICK j \in 0 .. n : e.before = Reached(r, j)
      BY <1>0, <1>1, <2>4, <3>1 DEF HeldLogged, Past
    <3>4. j \in 0 .. (n + 1) - 1 /\ e.before = Reached(r, j)'
      BY <1>2, <2>1, <3>3
    <3> QED BY <1>2, <2>2, <3>1, <3>2, <3>4 DEF LegalEntry
  <2> QED BY <2>3, <2>4, CommitDecidedOnStored
<1> QED BY <1>2, <1>4, <1>5

LEMMA LegalStep ==
    ASSUME Lookahead = 0, TypeOK, RequestsCurrent, LogAccounts, HeldLogged,
           TrailLegal, [Next]_vars
    PROVE  TrailLegal'
<1>1. ASSUME NEW r \in Record, trail'[r] = trail[r]
      PROVE  \A i \in 1 .. Len(trail'[r]) : LegalEntry(r, i)'
  <2> SUFFICES ASSUME NEW i \in 1 .. Len(trail[r]) PROVE LegalEntry(r, i)'
    BY <1>1
  <2>1. LegalEntry(r, i)
    BY DEF TrailLegal
  <2>2. \A j : Reached(r, j)' = Reached(r, j)
    BY <1>1 DEF Reached
  <2> QED BY <1>1, <2>1, <2>2 DEF LegalEntry
<1>2. ASSUME NEW q \in Request, CommitStep(q) PROVE TrailLegal'
  BY <1>1, <1>2, CommitTyped, CommitLogs, CommitLegal DEF TrailLegal
<1> QED BY <1>1, <1>2, StoreSteps DEF TrailLegal

\* The invariant that carries the legality of the log.
LegalInv ==
    TypeOK /\ RequestsCurrent /\ LogAccounts /\ HeldLogged /\ TrailLegal

LEMMA LegalInvariant ==
    ASSUME Lookahead = 0
    PROVE  Spec => []LegalInv
<1>1. Init => LegalInv
  BY TypeInit, AccountsInit
     DEF Init, RequestsInit, LegalInv, RequestsCurrent, HeldLogged, TrailLegal
<1>2. LegalInv /\ [Next]_vars => LegalInv'
  BY TypeStep, CurrentStep, AccountsStep, HeldStep, LegalStep DEF LegalInv
<1> QED BY <1>1, <1>2, PTL DEF Spec

(* The log of a record shows no step against the rules, its deletion included,
   however requests interleave (README.md:43-44). *)
THEOREM TrailIsLegal ==
    ASSUME Lookahead = 0
    PROVE  Spec => []TrailLegal
<1>1. LegalInv => TrailLegal
  BY DEF LegalInv
<1> QED BY <1>1, LegalInvariant, PTL

(* No step of a shipment is skipped in the log: right before a dispatch stands
   its submission, right before a receipt its dispatch, and in between nobody
   edited, rejected or resubmitted the manifest (README.md:43). *)
NoStepSkipped(m) ==
    \A i \in 2 .. Len(trail[m]) :
        LET last == trail[m][i - 1] IN
        /\ trail[m][i].after = "in_transit" =>
              last.action = "transition" /\ last.after = "submitted"
        /\ trail[m][i].after = "received" =>
              last.action = "transition" /\ last.after = "in_transit"

LEMMA LegalSteps ==
    ASSUME TypeOK, TrailLegal, NEW m \in Manifest
    PROVE  NoStepSkipped(m)
<1> SUFFICES ASSUME NEW i \in 2 .. Len(trail[m]),
                    trail[m][i].after \in {"in_transit", "received"}
             PROVE  /\ trail[m][i - 1].action = "transition"
                    /\ trail[m][i].after = "in_transit" =>
                          trail[m][i - 1].after = "submitted"
                    /\ trail[m][i].after = "received" =>
                          trail[m][i - 1].after = "in_transit"
  BY DEF NoStepSkipped
<1>1. /\ m \in Record /\ Graph(m) = TransferManifestTransitions
      /\ InitialStatus(m) = "draft" /\ Editable(m) = {"draft"}
  BY RecordAssumption DEF Record, Graph, InitialStatus, Editable
<1>2. /\ Len(trail[m]) \in Nat
      /\ i \in 1 .. Len(trail[m]) /\ i - 1 \in 1 .. Len(trail[m]) /\ i - 1 # 0
  BY <1>1 DEF TypeOK
<1>3. LegalEntry(m, i) /\ LegalEntry(m, i - 1)
  BY <1>1, <1>2 DEF TrailLegal
<1>4. /\ trail[m][i].after = "in_transit" => Reached(m, i - 1) = "submitted"
      /\ trail[m][i].after = "received" => Reached(m, i - 1) = "in_transit"
  BY <1>1, <1>3 DEF LegalEntry, CanTransition, TransferManifestTransitions
<1>5. Reached(m, i - 1) = trail[m][i - 1].after
  BY <1>2 DEF Reached
<1>6. trail[m][i - 1].after \notin {"draft", "deleted"}
  BY <1>4, <1>5
<1>7. trail[m][i - 1].action = "transition"
  BY <1>1, <1>3, <1>6 DEF LegalEntry
<1> QED BY <1>4, <1>5, <1>7

(* The log of every manifest shows its submission before its dispatch and its
   dispatch before its receipt, however requests interleave. *)
THEOREM ShipmentsComplete ==
    ASSUME Lookahead = 0
    PROVE  Spec => [](\A m \in Manifest : NoStepSkipped(m))
<1>1. LegalInv => \A m \in Manifest : NoStepSkipped(m)
  BY LegalSteps DEF LegalInv
<1> QED BY <1>1, LegalInvariant, PTL

(* A received or rejected manifest, a passed or escalated check stays what it
   is, also when it was seeded so: nothing follows in its log, but for a
   deletion that was decided before (README.md:43-44). *)
Final == {"received", "rejected", "pass", "escalated"}

FinalStays(r) ==
    \A i \in 1 .. Len(trail[r]) :
        Reached(r, i - 1) \in Final => trail[r][i].action = "delete"

LEMMA LegalFinal ==
    ASSUME TypeOK, TrailLegal, NEW r \in Manifest \cup Check
    PROVE  FinalStays(r)
<1> SUFFICES ASSUME NEW i \in 1 .. Len(trail[r]), Reached(r, i - 1) \in Final
             PROVE  trail[r][i].action = "delete"
  BY DEF FinalStays
<1>1. r \in Record
  BY DEF Record
<1>2. LegalEntry(r, i)
  BY <1>1 DEF TrailLegal
<1>3. \A from \in Final : \A to :
          from # "" /\ from \notin Editable(r) /\ ~CanTransition(Graph(r), from, to)
  <2>1. CASE r \in Manifest
    <3>1. Graph(r) = TransferManifestTransitions /\ Editable(r) = {"draft"}
      BY <2>1, RecordAssumption DEF Graph, Editable
    <3> QED BY <3>1 DEF Final, CanTransition, TransferManifestTransitions
  <2>2. CASE r \in Check
    <3>1. Graph(r) = ComplianceCheckTransitions /\ Editable(r) = {"pending"}
      BY <2>2, RecordAssumption DEF Graph, Editable
    <3> QED BY <3>1 DEF Final, CanTransition, ComplianceCheckTransitions
  <2> QED BY <2>1, <2>2
<1> QED BY <1>2, <1>3 DEF LegalEntry

(* No decision is taken back, whatever else is in flight when it commits. *)
THEOREM DecisionsAreFinal ==
    ASSUME Lookahead = 0
    PROVE  Spec => [](\A r \in Manifest \cup Check : FinalStays(r))
<1>1. LegalInv => \A r \in Manifest \cup Check : FinalStays(r)
  BY LegalFinal DEF LegalInv
<1> QED BY <1>1, LegalInvariant, PTL

-----------------------------------------------------------------------------
(* Decisions only go forward. *)

Rank(status) ==
    IF status \in {"submitted", "pass", "fail"} THEN 1
    ELSE IF status \in {"in_transit", "escalated"} THEN 2
    ELSE IF status \in {"received", "rejected"} THEN 3
    ELSE 0

\* What was decided of a record lies behind where it stands.
Ranked(r) ==
    \A i \in 1 .. Len(trail[r]) :
        Decision(r, i) => Rank(trail[r][i].after) <= Rank(tbl[r].status)

NotTwice(r) ==
    \A i, j \in 1 .. Len(trail[r]) :
        i # j /\ Decision(r, i) /\ Decision(r, j) =>
            trail[r][i].after # trail[r][j].after

Decided == \A r \in Manifest \cup Check : Ranked(r) /\ NotTwice(r)

LEMMA RankZero ==
    Rank("") = 0 /\ Rank("draft") = 0 /\ Rank("pending") = 0
BY DEF Rank

LEMMA RankOrder ==
    /\ \A x : Rank(x) <= Rank(x)
    /\ \A x, y : Rank(x) < Rank(y) => Rank(x) <= Rank(y)
    /\ \A x, y, z : Rank(x) <= Rank(y) /\ Rank(y) <= Rank(z) => Rank(x) <= Rank(z)
    /\ \A x, y, z : Rank(x) <= Rank(y) /\ Rank(y) < Rank(z) => x # z
BY DEF Rank

LEMMA RankGrows ==
    ASSUME NEW r \in Manifest \cup Check, NEW from, NEW to,
           CanTransition(Graph(r), from, to)
    PROVE  Rank(from) < Rank(to)
<1>1. CASE r \in Manifest
  <2>1. <<from, to>> \in TransferManifestTransitions
    BY <1>1, RecordAssumption DEF CanTransition, Graph
  <2> QED BY <2>1 DEF TransferManifestTransitions, Rank
<1>2. CASE r \in Check
  <2>1. <<from, to>> \in ComplianceCheckTransitions
    BY <1>2, RecordAssumption DEF CanTransition, Graph
  <2> QED BY <2>1 DEF ComplianceCheckTransitions, Rank
<1> QED BY <1>1, <1>2

LEMMA CommitDecides ==
    ASSUME Lookahead = 0, TypeOK, RequestsCurrent, NEW q \in Request,
           CommitStep(q), NEW r, r = req[q].rec, r \in Manifest \cup Check,
           Ranked(r), NotTwice(r)
    PROVE  Ranked(r)' /\ NotTwice(r)'
<1>0. PICK n, e, old, new : /\ n = Len(trail[r]) /\ e = EntryOf(req[q])
                            /\ old = tbl[r].status /\ new = tbl'[r].status
  OBVIOUS
<1>1. r \in Record /\ Logs(q, r)
  BY CommitLogs
<1>2. /\ n \in Nat /\ Len(trail'[r]) = n + 1 /\ 1 .. n + 1 = 1 .. n \cup {n + 1}
      /\ trail'[r][n + 1] = e /\ \A i \in 1 .. n : trail'[r][i] = trail[r][i]
  <2>1. trail'[r] = Append(trail[r], e)
    BY <1>0, <1>1 DEF Logs
  <2> QED BY <1>0, <1>1, <2>1, LogGrows
<1>3. /\ Rank(old) <= Rank(new)
      /\ e.action = "transition" => Rank(old) < Rank(new) /\ e.after = new
  <2>1. InitialStatus(r) \in {"draft", "pending"}
    BY RecordAssumption DEF InitialStatus
  <2>2. CASE req[q].op = "create"
    <3>1. old = "" /\ new \in {"draft", "pending"} /\ e.action = "create"
      BY <1>0, <1>1, <2>1, <2>2, CommitDecidedOnStored DEF Logs, EntryOf, Entry
    <3>2. Rank(old) = Rank(new)
      BY <3>1, RankZero
    <3> QED BY <3>1, <3>2, RankOrder
  <2>3. CASE req[q].op \in {"update", "delete"}
    <3>1. new = old /\ e.action # "transition"
      BY <1>0, <1>1, <2>3, CommitDecidedOnStored DEF Logs, EntryOf, Entry
    <3> QED BY <3>1, RankOrder
  <2>4. CASE req[q].op = "transition"
    <3>1. new = req[q].status /\ e.after = req[q].status
      BY <1>0, <1>1, <2>4 DEF Logs, EntryOf, Entry
    <3>2. Rank(old) < Rank(new)
      BY <1>0, <2>4, <3>1, CommitDecidedOnStored, RankGrows
    <3> QED BY <3>1, <3>2, RankOrder
  <2> QED BY <2>2, <2>3, <2>4, CommitDecidedOnStored
<1>4. \A i \in 1 .. n : trail[r][i].action = "transition" =>
                            Rank(trail[r][i].after) <= Rank(old)
  BY <1>0 DEF Ranked, Decision
<1>5. Ranked(r)'
  <2> SUFFICES ASSUME NEW i \in 1 .. n + 1, trail'[r][i].action = "transition"
               PROVE  Rank(trail'[r][i].after) <= Rank(new)
    BY <1>0, <1>2 DEF Ranked, Decision, Rank
  <2>1. CASE i = n + 1
    BY <1>2, <1>3, <2>1, RankOrder
  <2>2. CASE i \in 1 .. n
    <3>1. Rank(trail'[r][i].after) <= Rank(old)
      BY <1>2, <1>4, <2>2
    <3> QED BY <1>3, <3>1, RankOrder
  <2> QED BY <1>2, <2>1, <2>2
<1>6. NotTwice(r)'
  <2>1. ASSUME NEW i \in 1 .. n, trail'[r][i].action = "transition",
               e.action = "transition"
        PROVE  trail'[r][i].after # e.after
    <3>1. Rank(trail'[r][i].after) <= Rank(old) /\ Rank(old) < Rank(e.after)
      BY <1>2, <1>3, <1>4, <2>1
    <3> QED BY <3>1, RankOrder
  <2>2. \A i, j \in 1 .. n :
            /\ i # j /\ trail'[r][i].action = "transition"
            /\ trail'[r][j].action = "transition"
            => trail'[r][i].after # trail'[r][j].after
    <3>1. \A i, j \in 1 .. n :
              /\ i # j /\ trail[r][i].action = "transition"
              /\ trail[r][j].action = "transition"
              => trail[r][i].after # trail[r][j].after
      BY <1>0 DEF NotTwice, Decision
    <3>2. ASSUME NEW i \in 1 .. n, NEW j \in 1 .. n, i # j,
                 trail'[r][i].action = "transition",
                 trail'[r][j].action = "transition"
          PROVE  trail'[r][i].after # trail'[r][j].after
      <4>1. trail'[r][i] = trail[r][i] /\ trail'[r][j] = trail[r][j]
        BY <1>2
      <4> QED BY <3>1, <3>2, <4>1
    <3> QED BY <3>2
  <2>3. \A i, j \in 1 .. n + 1 :
            /\ i # j /\ trail'[r][i].action = "transition"
            /\ trail'[r][j].action = "transition"
            => trail'[r][i].after # trail'[r][j].after
    BY <1>2, <2>1, <2>2
  <2> QED BY <1>2, <2>3 DEF NotTwice, Decision
<1> QED BY <1>5, <1>6

LEMMA DecidedStep ==
    ASSUME Lookahead = 0, TypeOK, RequestsCurrent, Decided, [Next]_vars
    PROVE  Decided'
<1>0. \A r \in Manifest \cup Check : r \in Record
  BY DEF Record
<1>1. ASSUME NEW r \in Manifest \cup Check, tbl'[r] = tbl[r], trail'[r] = trail[r]
      PROVE  Ranked(r)' /\ NotTwice(r)'
  BY <1>1 DEF Decided, Ranked, NotTwice, Decision, Rank
<1>2. ASSUME NEW q \in Request, CommitStep(q) PROVE Decided'
  BY <1>0, <1>1, <1>2, CommitTyped, CommitDecides DEF Decided
<1> QED BY <1>1, <1>2, StoreSteps DEF Decided

(* No transition of a manifest or a check takes effect twice, however often and
   by however many users it is sent (transfer_manifest.go:103-113, base.go:96). *)
THEOREM DecidesOnce ==
    ASSUME Lookahead = 0
    PROVE  Spec => []DecidedOnce
<1>1. Init => Decided
  BY DEF Init, RequestsInit, Decided, Ranked, NotTwice, Record
<1>2. TypeOK /\ RequestsCurrent /\ Decided /\ [Next]_vars => Decided'
  BY DecidedStep
<1>3. Decided => DecidedOnce
  BY DEF Decided, NotTwice, DecidedOnce
<1> QED BY <1>1, <1>2, <1>3, RequestsStayCurrent, PTL DEF Spec

-----------------------------------------------------------------------------
(* Approvals are remembered: an entry of the audit log is never lost, and a
   carrier that is verified has an entry, or a seed, that says so. *)

LEMMA OnceVerifiedStays ==
    ASSUME TypeOK, [Next]_vars, NEW c \in Carrier, OnceVerified(c)
    PROVE  OnceVerified(c)'
<1>1. c \in Record
  BY DEF Record
<1>2. CASE Seeds[c].status = "verified"
  BY <1>2 DEF OnceVerified
<1>3. ASSUME NEW i \in 1 .. Len(trail[c]), trail[c][i].after = "verified"
      PROVE  OnceVerified(c)'
  <2>1. CASE trail'[c] = trail[c]
    BY <1>3, <2>1 DEF OnceVerified
  <2>2. ASSUME NEW e, trail'[c] = Append(trail[c], e)
        PROVE  OnceVerified(c)'
    <3>1. trail[c] \in Seq(AuditEntry(c))
      BY <1>1 DEF TypeOK
    <3>2. i \in 1 .. Len(trail'[c]) /\ trail'[c][i] = trail[c][i]
      BY <1>3, <2>2, <3>1
    <3> QED BY <1>3, <3>2 DEF OnceVerified
  <2> QED BY <1>1, <2>1, <2>2, TrailGrows
<1> QED BY <1>2, <1>3 DEF OnceVerified

LEMMA VerifiedIsOnceVerified ==
    ASSUME TypeOK, TrailReplays, NEW c \in Carrier,
           Live(c), tbl[c].status = "verified"
    PROVE  OnceVerified(c)
<1>1. c \in Record /\ RecordReplays(c)
  BY DEF Record, TrailReplays
<1>2. trail[c] \in Seq(AuditEntry(c)) /\ Len(trail[c]) \in Nat
  BY <1>1 DEF TypeOK
<1>3. Reached(c, Len(trail[c])) = "verified"
  BY <1>1 DEF RecordReplays, Accounted, Live
<1>4. CASE Len(trail[c]) = 0
  BY <1>3, <1>4 DEF Reached, OnceVerified
<1>5. CASE Len(trail[c]) # 0
  <2>1. Len(trail[c]) \in 1 .. Len(trail[c])
    BY <1>2, <1>5
  <2> QED BY <1>3, <1>5, <2>1 DEF Reached, OnceVerified
<1> QED BY <1>4, <1>5

-----------------------------------------------------------------------------
(* By the refinement, what has left its editable status is settled. *)

LEMMA BeyondStays ==
    ASSUME [Lifecycle!Next]_tbl, TypeOK, NEW m \in Manifest, Beyond(m)
    PROVE  Beyond(m)' /\ tbl'[m].fields = tbl[m].fields
<1>0. /\ m \in Record /\ Editable(m) = {"draft"}
      /\ Graph(m) = TransferManifestTransitions
      /\ tbl[m].status \notin {"", "draft"}
  BY RecordAssumption DEF Record, Editable, Graph, Beyond
<1>1. CASE tbl'[m] = tbl[m]
  BY <1>1 DEF Beyond
<1>2. ASSUME tbl'[m] # tbl[m], NEW r \in Record, Lifecycle!Create(r)
      PROVE  FALSE
  <2>1. r = m
    BY <1>0, <1>2 DEF Lifecycle!Create, Lifecycle!Store, TypeOK
  <2>2. tbl[m].version = 0
    BY <1>2, <2>1 DEF Lifecycle!Create
  <2>3. tbl[m] = NoRow
    BY <1>0, <2>2 DEF TypeOK, StoredRow
  <2>4. NoRow.status = ""
    BY DEF NoRow
  <2> QED BY <1>0, <2>3, <2>4
<1>3. ASSUME tbl'[m] # tbl[m], NEW r \in Record, Lifecycle!Edit(r)
      PROVE  FALSE
  <2>1. r = m
    BY <1>0, <1>3 DEF Lifecycle!Edit, Lifecycle!Store, TypeOK
  <2> QED BY <1>0, <1>3, <2>1, SameDomain DEF Lifecycle!Edit
<1>4. ASSUME tbl'[m] # tbl[m], NEW r \in Record, Lifecycle!Move(r)
      PROVE  Beyond(m)' /\ tbl'[m].fields = tbl[m].fields
  <2>1. r = m
    BY <1>0, <1>4 DEF Lifecycle!Move, Lifecycle!Store, TypeOK
  <2>2. PICK to \in StatusOf(m) :
            /\ <<tbl[m].status, to>> \in TransferManifestTransitions
            /\ Lifecycle!Store(m, to, tbl[m].version + 1, tbl[m].fields)
    BY <1>0, <1>4, <2>1, SameDomain DEF Lifecycle!Move, CanTransition
  <2>3. to \notin {"", "draft"}
    BY <2>2 DEF TransferManifestTransitions
  <2>4. tbl'[m].status = to /\ tbl'[m].fields = tbl[m].fields
    BY <1>0, <2>2 DEF Lifecycle!Store, TypeOK
  <2> QED BY <2>3, <2>4 DEF Beyond
<1>5. ASSUME NEW r \in Record, Lifecycle!Remove(r)
      PROVE  Beyond(m)' /\ tbl'[m].fields = tbl[m].fields
  <2>1. tbl[m] \in StoredRow(m)
    <3>1. NoRow.status = ""
      BY DEF NoRow
    <3> QED BY <1>0, <3>1 DEF TypeOK
  <2>2. tbl'[m] = tbl[m] \/ tbl'[m] = [tbl[m] EXCEPT !.deleted = TRUE]
    BY <1>0, <1>5 DEF Lifecycle!Remove, TypeOK
  <2> QED BY <2>1, <2>2 DEF StoredRow, Beyond
<1> QED BY <1>1, <1>2, <1>3, <1>4, <1>5, SameDomain DEF Lifecycle!Next

LEMMA PassedStays ==
    ASSUME [Lifecycle!Next]_tbl, TypeOK, NEW c \in Check, tbl[c].status = "pass"
    PROVE  tbl'[c].fields = tbl[c].fields
<1>0. /\ c \in Record /\ Editable(c) = {"pending"}
      /\ Graph(c) = ComplianceCheckTransitions
  BY RecordAssumption DEF Record, Editable, Graph
<1>1. tbl[c] \in StoredRow(c) /\ tbl[c].version # 0
  <2>1. NoRow.status = ""
    BY DEF NoRow
  <2>2. tbl[c] \in StoredRow(c)
    BY <1>0, <2>1 DEF TypeOK
  <2> QED BY <2>2 DEF StoredRow
<1>2. ASSUME NEW r \in Record,
             Lifecycle!Create(r) \/ Lifecycle!Edit(r) \/ Lifecycle!Move(r)
      PROVE  tbl'[c] = tbl[c]
  <2>1. r # c
    <3>1. ~Lifecycle!Create(c)
      BY <1>1 DEF Lifecycle!Create
    <3>2. ~Lifecycle!Edit(c)
      BY <1>0, SameDomain DEF Lifecycle!Edit
    <3>3. \A to : ~CanTransition(Graph(c), tbl[c].status, to)
      BY <1>0 DEF CanTransition, ComplianceCheckTransitions
    <3>4. ~Lifecycle!Move(c)
      BY <3>3, SameDomain DEF Lifecycle!Move
    <3> QED BY <1>2, <3>1, <3>2, <3>4
  <2> QED BY <1>0, <1>2, <2>1
          DEF Lifecycle!Create, Lifecycle!Edit, Lifecycle!Move, Lifecycle!Store,
              TypeOK
<1>3. ASSUME NEW r \in Record, Lifecycle!Remove(r)
      PROVE  tbl'[c].fields = tbl[c].fields
  <2>1. tbl'[c] = tbl[c] \/ tbl'[c] = [tbl[c] EXCEPT !.deleted = TRUE]
    BY <1>0, <1>3 DEF Lifecycle!Remove, TypeOK
  <2> QED BY <1>1, <2>1 DEF StoredRow
<1> QED BY <1>2, <1>3, SameDomain DEF Lifecycle!Next

-----------------------------------------------------------------------------
(* What the reads of linked rows leave behind in a request. *)

\* A dispatch reaches its write through the read of its carrier.
DispatchChecked ==
    \A q \in Request :
        /\ req[q] # Idle /\ req[q].op = "transition"
        /\ req[q].rec \in Manifest /\ req[q].status \in Dispatch
        => /\ req[q].pc \in {"generator", "carrier", "write"}
           /\ req[q].pc = "write" => OnceVerified(req[q].fields.car)

\* A decision reaches its write through the read of its manifest.
PassChecked ==
    \A q \in Request :
        /\ req[q] # Idle /\ req[q].op = "transition" /\ req[q].rec \in Check
        => /\ req[q].pc \in {"manifest", "write"}
           /\ req[q].pc = "write" /\ req[q].status = "pass" =>
                 Beyond(req[q].fields)

LEMMA ManifestJobFields ==
    ASSUME NEW m \in Manifest, NEW job \in Job(m)
    PROVE  job.fields.gen \in Generator /\ job.fields.car \in Carrier
BY RecordAssumption DEF Job, FieldsOf

LEMMA CheckJobFields ==
    ASSUME NEW c \in Check, NEW job \in Job(c)
    PROVE  job.fields \in Manifest
BY RecordAssumption DEF Job, FieldsOf

LEMMA DispatchCheckedStep ==
    ASSUME TypeOK, TrailReplays, DispatchChecked, [Next]_vars
    PROVE  DispatchChecked'
<1> SUFFICES ASSUME NEW q \in Request, req'[q] # Idle,
                    req'[q].op = "transition", req'[q].rec \in Manifest,
                    req'[q].status \in Dispatch
             PROVE  /\ req'[q].pc \in {"generator", "carrier", "write"}
                    /\ req'[q].pc = "write" => OnceVerified(req[q].fields.car)'
  BY DEF DispatchChecked
<1>1. CASE req[q] # Idle /\ req'[q] = req[q]
  <2>1. /\ req[q].pc \in {"generator", "carrier", "write"}
        /\ req[q].pc = "write" => OnceVerified(req[q].fields.car)
    BY <1>1 DEF DispatchChecked
  <2>2. req[q].fields.car \in Carrier
    BY <1>1, JobTyped, ManifestJobFields
  <2>3. \A c \in Carrier : OnceVerified(c) => OnceVerified(c)'
    BY OnceVerifiedStays
  <2> QED BY <1>1, <2>1, <2>2, <2>3 DEF OnceVerified
<1>2. CASE /\ req[q] # Idle /\ req'[q] = [req[q] EXCEPT !.pc = req'[q].pc]
           /\ ProceedStep(q)
  <2>1. req[q] \in Job(req[q].rec)
    BY <1>2, JobTyped
  <2>2. /\ req'[q].op = req[q].op /\ req'[q].rec = req[q].rec
        /\ req'[q].status = req[q].status /\ req'[q].fields = req[q].fields
    BY <1>2, <2>1 DEF Job
  <2>3. req[q].pc \in {"generator", "carrier", "write"}
    BY <1>2, <2>2 DEF DispatchChecked
  <2>4. CASE ReadGenerator(q)
    BY <1>2, <2>4 DEF ReadGenerator, Proceed, TypeOK
  <2>5. CASE ReadCarrier(q)
    <3>1. req'[q].pc = "write" /\ UNCHANGED <<tbl, trail>>
      BY <2>5, <2>1 DEF ReadCarrier, Proceed, TypeOK, Job
    <3>2. CarrierEligible(req[q].fields.car)
      BY <2>2, <2>5 DEF ReadCarrier, Parties
    <3>3. req[q].fields.car \in Carrier
      BY <2>1, <2>2, ManifestJobFields
    <3>4. OnceVerified(req[q].fields.car)
      BY <3>2, <3>3, VerifiedIsOnceVerified DEF CarrierEligible
    <3> QED BY <2>2, <3>1, <3>4 DEF OnceVerified
  <2>6. CASE ReadManifest(q)
    BY <2>3, <2>6 DEF ReadManifest, Proceed
  <2> QED BY <1>2, <2>4, <2>5, <2>6 DEF ProceedStep
<1>3. ASSUME NEW r \in Record, NEW job \in Job(r), Sound(job), req'[q] = job
      PROVE  req'[q].pc = "generator"
  BY <1>3 DEF Sound, Job
<1> QED BY <1>1, <1>2, <1>3, RequestSteps

LEMMA PassCheckedStep ==
    ASSUME TypeOK, PassChecked, [Next]_vars, [Lifecycle!Next]_tbl
    PROVE  PassChecked'
<1> SUFFICES ASSUME NEW q \in Request, req'[q] # Idle,
                    req'[q].op = "transition", req'[q].rec \in Check
             PROVE  /\ req'[q].pc \in {"manifest", "write"}
                    /\ req'[q].pc = "write" /\ req'[q].status = "pass" =>
                          Beyond(req[q].fields)'
  BY DEF PassChecked
<1>1. CASE req[q] # Idle /\ req'[q] = req[q]
  <2>1. /\ req[q].pc \in {"manifest", "write"}
        /\ req[q].pc = "write" /\ req[q].status = "pass" =>
              Beyond(req[q].fields)
    BY <1>1 DEF PassChecked
  <2>2. req[q].fields \in Manifest
    BY <1>1, JobTyped, CheckJobFields
  <2>3. \A m \in Manifest : Beyond(m) => Beyond(m)'
    BY BeyondStays
  <2> QED BY <1>1, <2>1, <2>2, <2>3 DEF Beyond
<1>2. CASE /\ req[q] # Idle /\ req'[q] = [req[q] EXCEPT !.pc = req'[q].pc]
           /\ ProceedStep(q)
  <2>1. req[q] \in Job(req[q].rec)
    BY <1>2, JobTyped
  <2>2. /\ req'[q].op = req[q].op /\ req'[q].rec = req[q].rec
        /\ req'[q].status = req[q].status /\ req'[q].fields = req[q].fields
    BY <1>2, <2>1 DEF Job
  <2>3. req[q].pc \in {"manifest", "write"}
    BY <1>2, <2>2 DEF PassChecked
  <2>4. ReadManifest(q)
    BY <1>2, <2>3 DEF ProceedStep, ReadGenerator, ReadCarrier, Proceed
  <2>5. req'[q].pc = "write" /\ UNCHANGED tbl
    BY <2>1, <2>4 DEF ReadManifest, Proceed, TypeOK, Job
  <2>6. req[q].status = "pass" => Beyond(req[q].fields)
    BY <2>2, <2>4 DEF ReadManifest, Passable, Beyond
  <2> QED BY <2>2, <2>5, <2>6 DEF Beyond
<1>3. ASSUME NEW r \in Record, NEW job \in Job(r), Sound(job), req'[q] = job
      PROVE  req'[q].pc = "manifest"
  BY <1>3 DEF Sound, Job
<1> QED BY <1>1, <1>2, <1>3, RequestSteps

-----------------------------------------------------------------------------
(* The rules between records. *)

\* A status other than the initial one is only entered by a transition that
\* was decided on the stored row.
LEMMA NewStatus ==
    ASSUME Lookahead = 0, TypeOK, RequestsCurrent, [Next]_vars,
           NEW r \in Record, tbl'[r].status # tbl[r].status,
           tbl'[r].status # InitialStatus(r)
    PROVE  \E q \in Request :
              /\ req[q] # Idle /\ req[q] \in Job(r) /\ req[q].rec = r
              /\ req[q].op = "transition" /\ req[q].pc = "write"
              /\ CanTransition(Graph(r), tbl[r].status, req[q].status)
              /\ tbl'[r].status = req[q].status
              /\ tbl'[r].fields = req[q].fields
<1>1. PICK q \in Request : CommitStep(q)
  BY StoreSteps
<1>2. req[q].rec = r /\ req[q] # Idle /\ req[q] \in Job(r) /\ Current(req[q])
  BY <1>1, CommitTyped, JobTyped DEF RequestsCurrent
<1>3. ~CommitCreate(q)
  <2> SUFFICES ASSUME CommitCreate(q) PROVE FALSE
    OBVIOUS
  <2>1. tbl'[r].status = req[q].status
    BY <1>2 DEF CommitCreate, CreateAudited, TypeOK
  <2>2. req[q].status = InitialStatus(r)
    BY <1>2 DEF CommitCreate, About, Current
  <2> QED BY <2>1, <2>2
<1>4. ~CommitUpdate(q)
  <2> SUFFICES ASSUME CommitUpdate(q) PROVE FALSE
    OBVIOUS
  <2>1. req[q].current.status = tbl[r].status /\ tbl'[r].status = req[q].status
    BY <1>2, WriteDecidedOnStored DEF TypeOK
  <2>2. req[q].status = req[q].current.status
    BY <1>2 DEF CommitUpdate, About, Current
  <2> QED BY <2>1, <2>2
<1>5. ~CommitDelete(q)
  <2> SUFFICES ASSUME CommitDelete(q) PROVE FALSE
    OBVIOUS
  <2>1. tbl[r] \in StoredRow(r)
    BY <1>2, LiveRowTyped DEF CommitDelete, DeleteAudited
  <2>2. tbl'[r] = [tbl[r] EXCEPT !.deleted = TRUE]
    BY <1>2 DEF CommitDelete, DeleteAudited, TypeOK
  <2> QED BY <2>1, <2>2 DEF StoredRow
<1>6. CommitTransition(q)
  BY <1>1, <1>3, <1>4, <1>5 DEF CommitStep
<1>7. /\ req[q].current.status = tbl[r].status
      /\ tbl'[r].status = req[q].status /\ tbl'[r].fields = req[q].fields
  BY <1>2, <1>6, WriteDecidedOnStored DEF TypeOK
<1> QED BY <1>2, <1>6, <1>7 DEF CommitTransition, About, Current

LEMMA PartiesStep ==
    ASSUME Lookahead = 0, TypeOK, RequestsCurrent, TrailReplays,
           DispatchChecked, PartiesOnceApproved, [Next]_vars
    PROVE  PartiesOnceApproved'
<1> SUFFICES ASSUME NEW m \in Manifest, Beyond(m)'
             PROVE  OnceVerified(tbl[m].fields.car)'
  BY DEF PartiesOnceApproved
<1>1. /\ m \in Record /\ Graph(m) = TransferManifestTransitions
      /\ InitialStatus(m) = "draft"
      /\ FieldsOf(m) = [gen : Generator, car : Carrier]
  BY RecordAssumption DEF Record, Graph, InitialStatus, FieldsOf
<1>2. \A c \in Carrier : OnceVerified(c) => OnceVerified(c)'
  BY OnceVerifiedStays
<1>3. CASE Beyond(m)
  <2>1. tbl'[m].fields = tbl[m].fields
    BY <1>3, BeyondStays, StepRefines
  <2>2. OnceVerified(tbl[m].fields.car)
    BY <1>3 DEF PartiesOnceApproved
  <2>3. tbl[m].fields.car \in Carrier
    <3>1. NoRow.status = ""
      BY DEF NoRow
    <3>2. tbl[m] \in StoredRow(m)
      BY <1>1, <1>3, <3>1 DEF TypeOK, Beyond
    <3> QED BY <1>1, <3>2 DEF StoredRow
  <2> QED BY <1>2, <2>1, <2>2, <2>3 DEF OnceVerified
<1>4. CASE ~Beyond(m)
  <2>1. PICK q \in Request :
            /\ req[q] # Idle /\ req[q] \in Job(m) /\ req[q].rec = m
            /\ req[q].op = "transition" /\ req[q].pc = "write"
            /\ CanTransition(Graph(m), tbl[m].status, req[q].status)
            /\ tbl'[m].status = req[q].status
            /\ tbl'[m].fields = req[q].fields
    BY <1>1, <1>4, NewStatus DEF Beyond
  <2>2. req[q].status \in Dispatch
    BY <1>1, <1>4, <2>1
       DEF Beyond, CanTransition, TransferManifestTransitions, Dispatch
  <2>3. OnceVerified(req[q].fields.car)
    BY <2>1, <2>2 DEF DispatchChecked
  <2>4. req[q].fields.car \in Carrier
    BY <2>1, ManifestJobFields
  <2> QED BY <1>2, <2>1, <2>3, <2>4 DEF OnceVerified
<1> QED BY <1>3, <1>4

LEMMA PassStep ==
    ASSUME Lookahead = 0, TypeOK, RequestsCurrent, PassChecked,
           PassedOnSubmitted, [Next]_vars
    PROVE  PassedOnSubmitted'
<1> SUFFICES ASSUME NEW c \in Check, tbl'[c].status = "pass"
             PROVE  Beyond(tbl[c].fields)'
  BY DEF PassedOnSubmitted
<1>1. /\ c \in Record /\ InitialStatus(c) = "pending" /\ FieldsOf(c) = Manifest
  BY RecordAssumption DEF Record, InitialStatus, FieldsOf
<1>2. \A m \in Manifest : Beyond(m) => Beyond(m)'
  BY BeyondStays, StepRefines
<1>3. CASE tbl[c].status = "pass"
  <2>1. tbl'[c].fields = tbl[c].fields
    BY <1>1, <1>3, PassedStays, StepRefines
  <2>2. Beyond(tbl[c].fields)
    BY <1>3 DEF PassedOnSubmitted
  <2>3. tbl[c].fields \in Manifest
    <3>1. NoRow.status = ""
      BY DEF NoRow
    <3>2. tbl[c] \in StoredRow(c)
      BY <1>1, <1>3, <3>1 DEF TypeOK
    <3> QED BY <1>1, <3>2 DEF StoredRow
  <2> QED BY <1>2, <2>1, <2>2, <2>3 DEF Beyond
<1>4. CASE tbl[c].status # "pass"
  <2>1. PICK q \in Request :
            /\ req[q] # Idle /\ req[q] \in Job(c) /\ req[q].rec = c
            /\ req[q].op = "transition" /\ req[q].pc = "write"
            /\ tbl'[c].status = req[q].status
            /\ tbl'[c].fields = req[q].fields
    BY <1>1, <1>4, NewStatus
  <2>2. Beyond(req[q].fields)
    BY <2>1 DEF PassChecked
  <2>3. req[q].fields \in Manifest
    BY <2>1, CheckJobFields
  <2> QED BY <1>2, <2>1, <2>2, <2>3 DEF Beyond
<1> QED BY <1>3, <1>4

LEMMA RulesInit ==
    Init => DispatchChecked /\ PassChecked /\ PartiesOnceApproved
                /\ PassedOnSubmitted
BY SeedsConsistent
   DEF Init, RequestsInit, DispatchChecked, PassChecked, PartiesOnceApproved,
       PassedOnSubmitted, Beyond, OnceVerified

\* The invariant that carries both rules.
RulesInv ==
    /\ TypeOK /\ RequestsCurrent /\ TrailReplays
    /\ DispatchChecked /\ PassChecked
    /\ PartiesOnceApproved /\ PassedOnSubmitted

(* A manifest that has left draft names a carrier that a reviewer verified, and
   a passed check is about a manifest that was submitted, however requests
   interleave. *)
THEOREM RulesHold ==
    ASSUME Lookahead = 0
    PROVE  Spec => [](PartiesOnceApproved /\ PassedOnSubmitted)
<1>1. Init => RulesInv
  BY TypeInit, ReplaysInit, RulesInit
     DEF RulesInv, RequestsCurrent, Init, RequestsInit
<1>2. RulesInv /\ [Next]_vars => RulesInv'
  BY TypeStep, CurrentStep, ReplaysStep, StepRefines, DispatchCheckedStep,
     PassCheckedStep, PartiesStep, PassStep DEF RulesInv
<1>3. RulesInv => PartiesOnceApproved /\ PassedOnSubmitted
  BY DEF RulesInv
<1> QED BY <1>1, <1>2, <1>3, PTL DEF Spec

(* Every check that passed is about a manifest that was submitted, whichever
   manifest it named before and however the read of the manifest and the
   decision interleave with other requests (compliance_check.go:112-127). *)
THEOREM PassesAreOnSubmitted ==
    ASSUME Lookahead = 0
    PROVE  Spec => []PassedOnSubmitted
<1>1. PartiesOnceApproved /\ PassedOnSubmitted => PassedOnSubmitted
  OBVIOUS
<1> QED BY <1>1, RulesHold, PTL
=============================================================================
