---------------------- MODULE TransferCompliance_proofs ----------------------
(***************************************************************************)
(* Proofs about TransferCompliance, for every set of records, requests,    *)
(* seeds and expiry dates and every value of the bounds.                   *)
(*                                                                         *)
(* The operations only differ in the request they put in flight; what they *)
(* have in common is said once (Sound), and a step of the system is then   *)
(* one of nine kinds (StepKinds).                                          *)
(***************************************************************************)
EXTENDS TransferCompliance, TLAPS

\* What the operations establish of a request when it is put in flight.
Sound(job) ==
    LET r == job.rec IN
    /\ job.op = "create" => job.current = NoRow /\ job.status = InitialStatus(r)
    /\ job.op # "create" => Live(r) /\ job.current = tbl[r]
    /\ job.op \in {"update", "transition"} => job.expected \in ClientVersion(r)
    /\ job.op = "update" =>
          job.status = tbl[r].status /\ tbl[r].status \in Editable(r)
    /\ job.op = "transition" =>
          CanTransition(Graph(r), tbl[r].status, job.status)
              /\ job.fields = tbl[r].fields
    /\ job.op = "delete" => tbl[r].status \in Editable(r)
    /\ job.op = "transition" /\ r \in Manifest /\ job.status \in Dispatch =>
          job.pc = "generator"
    /\ job.op = "transition" /\ r \in Check => job.pc = "manifest"

StartSound(q) ==
    \E r \in Record : \E job \in Job(r) : Sound(job) /\ Start(q, job)

ProceedStep(q) ==
    \/ ReadGenerator(q) \/ ReadCarrier(q) \/ ReadManifest(q)

-----------------------------------------------------------------------------
(* Lemmas about the domain. *)

LEMMA LiveRowTyped ==
    ASSUME TypeOK, NEW r \in Record, Live(r)
    PROVE  /\ tbl[r] \in StoredRow(r)
           /\ tbl[r].version \in Nat \ {0}
           /\ tbl[r].status \in StatusOf(r)
           /\ tbl[r].fields \in FieldsOf(r)
<1>1. tbl[r] \in {NoRow} \cup StoredRow(r)
  BY DEF TypeOK
<1>2. tbl[r] # NoRow
  <2>1. NoRow.version = 0
    BY DEF NoRow
  <2> QED BY <2>1 DEF Live
<1>3. tbl[r] \in StoredRow(r)
  BY <1>1, <1>2
<1> QED BY <1>3 DEF StoredRow

LEMMA NextVersion ==
    ASSUME NEW n \in Nat
    PROVE  n + 1 \in Nat \ {0}
OBVIOUS

LEMMA InitialStatusTyped ==
    ASSUME NEW r \in Record
    PROVE  InitialStatus(r) \in StatusOf(r)
BY RecordAssumption DEF InitialStatus, StatusOf, Record

-----------------------------------------------------------------------------
(* Every operation puts a sound request in flight. *)

LEMMA CreateSound ==
    ASSUME NEW q, NEW r \in Record, NEW fields \in FieldsOf(r),
           NEW pc \in {"generator", "carrier", "manifest", "write"},
           StartCreate(q, pc, r, fields)
    PROVE  StartSound(q)
<1> DEFINE job == NewJob(pc, "create", r, NoRow, InitialStatus(r), fields, 0)
<1>1. job \in Job(r)
  BY InitialStatusTyped DEF NewJob, Job
<1>2. Sound(job)
  BY DEF Sound, NewJob
<1>3. Start(q, job)
  BY DEF StartCreate
<1> QED BY <1>1, <1>2, <1>3 DEF StartSound

LEMMA WriteSound ==
    ASSUME TypeOK, NEW q, NEW r \in Record,
           NEW op \in {"update", "transition"},
           NEW status \in StatusOf(r), NEW fields \in FieldsOf(r),
           NEW pc \in {"generator", "carrier", "manifest", "write"},
           op = "update" =>
               status = tbl[r].status /\ tbl[r].status \in Editable(r),
           op = "transition" =>
               CanTransition(Graph(r), tbl[r].status, status)
                   /\ fields = tbl[r].fields,
           op = "transition" /\ r \in Manifest /\ status \in Dispatch =>
               pc = "generator",
           op = "transition" /\ r \in Check => pc = "manifest",
           StartWrite(q, pc, op, r, status, fields)
    PROVE  StartSound(q)
<1>1. Live(r)
  BY DEF StartWrite
<1>2. PICK expected \in ClientVersion(r) :
          Start(q, NewJob(pc, op, r, tbl[r], status, fields, expected))
  BY DEF StartWrite
<1> DEFINE job == NewJob(pc, op, r, tbl[r], status, fields, expected)
<1>3. job \in Job(r)
  <2>1. expected \in Nat
    BY LiveRowTyped, <1>1, LookaheadAssumption DEF ClientVersion
  <2> QED BY <2>1, LiveRowTyped, <1>1 DEF NewJob, Job
<1>4. Sound(job)
  BY <1>1 DEF Sound, NewJob
<1> QED BY <1>2, <1>3, <1>4 DEF StartSound

LEMMA DeleteSound ==
    ASSUME TypeOK, NEW q, NEW r \in Record, tbl[r].status \in Editable(r),
           StartDelete(q, r)
    PROVE  StartSound(q)
<1>1. Live(r)
  BY DEF StartDelete
<1> DEFINE job == NewJob("write", "delete", r, tbl[r], tbl[r].status,
                         tbl[r].fields, 0)
<1>2. job \in Job(r)
  BY LiveRowTyped, <1>1 DEF NewJob, Job
<1>3. Sound(job)
  BY <1>1 DEF Sound, NewJob
<1>4. Start(q, job)
  BY DEF StartDelete
<1> QED BY <1>2, <1>3, <1>4 DEF StartSound

LEMMA GeneratorSound ==
    ASSUME TypeOK, NEW q,
           \/ GeneratorCreate(q) \/ GeneratorUpdate(q)
           \/ GeneratorTransition(q) \/ GeneratorDelete(q)
    PROVE  StartSound(q)
<1>0. \A r \in Generator : /\ r \in Record /\ r \notin Manifest /\ r \notin Check
                          /\ FieldsOf(r) = Expiry
                          /\ Graph(r) = WasteGeneratorTransitions
                          /\ Editable(r) = StatusOf(r)
  BY RecordAssumption DEF Record, FieldsOf, Graph, Editable
<1>1. CASE GeneratorCreate(q)
  BY <1>0, <1>1, CreateSound DEF GeneratorCreate
<1>2. CASE GeneratorUpdate(q)
  <2>1. PICK r \in Generator, expiry \in Expiry :
            StartWrite(q, "write", "update", r, tbl[r].status, expiry)
    BY <1>2 DEF GeneratorUpdate
  <2>2. tbl[r].status \in StatusOf(r)
    BY <2>1, <1>0, LiveRowTyped DEF StartWrite
  <2> QED BY <2>1, <2>2, <1>0, WriteSound
<1>3. CASE GeneratorTransition(q)
  <2>1. PICK r \in Generator : \E target \in StatusOf(r) :
            /\ CanTransition(WasteGeneratorTransitions, tbl[r].status, target)
            /\ StartWrite(q, "write", "transition", r, target, tbl[r].fields)
    BY <1>3 DEF GeneratorTransition
  <2>2. tbl[r].fields \in FieldsOf(r)
    BY <2>1, <1>0, LiveRowTyped DEF StartWrite
  <2> QED BY <2>1, <2>2, <1>0, WriteSound
<1>4. CASE GeneratorDelete(q)
  <2>1. PICK r \in Generator : StartDelete(q, r)
    BY <1>4 DEF GeneratorDelete
  <2>2. tbl[r].status \in StatusOf(r)
    BY <2>1, <1>0, LiveRowTyped DEF StartDelete
  <2> QED BY <2>1, <2>2, <1>0, DeleteSound
<1> QED BY <1>1, <1>2, <1>3, <1>4

LEMMA CarrierSound ==
    ASSUME TypeOK, NEW q,
           \/ CarrierCreate(q) \/ CarrierUpdate(q)
           \/ CarrierTransition(q) \/ CarrierDelete(q)
    PROVE  StartSound(q)
<1>0. \A r \in Carrier : /\ r \in Record /\ r \notin Manifest /\ r \notin Check
                        /\ FieldsOf(r) = Expiry
                        /\ Graph(r) = CarrierProfileTransitions
                        /\ Editable(r) = StatusOf(r)
  BY RecordAssumption DEF Record, FieldsOf, Graph, Editable
<1>1. CASE CarrierCreate(q)
  BY <1>0, <1>1, CreateSound DEF CarrierCreate
<1>2. CASE CarrierUpdate(q)
  <2>1. PICK r \in Carrier, expiry \in Expiry :
            StartWrite(q, "write", "update", r, tbl[r].status, expiry)
    BY <1>2 DEF CarrierUpdate
  <2>2. tbl[r].status \in StatusOf(r)
    BY <2>1, <1>0, LiveRowTyped DEF StartWrite
  <2> QED BY <2>1, <2>2, <1>0, WriteSound
<1>3. CASE CarrierTransition(q)
  <2>1. PICK r \in Carrier : \E target \in StatusOf(r) :
            /\ CanTransition(CarrierProfileTransitions, tbl[r].status, target)
            /\ StartWrite(q, "write", "transition", r, target, tbl[r].fields)
    BY <1>3 DEF CarrierTransition
  <2>2. tbl[r].fields \in FieldsOf(r)
    BY <2>1, <1>0, LiveRowTyped DEF StartWrite
  <2> QED BY <2>1, <2>2, <1>0, WriteSound
<1>4. CASE CarrierDelete(q)
  <2>1. PICK r \in Carrier : StartDelete(q, r)
    BY <1>4 DEF CarrierDelete
  <2>2. tbl[r].status \in StatusOf(r)
    BY <2>1, <1>0, LiveRowTyped DEF StartDelete
  <2> QED BY <2>1, <2>2, <1>0, DeleteSound
<1> QED BY <1>1, <1>2, <1>3, <1>4

LEMMA ManifestSound ==
    ASSUME TypeOK, NEW q,
           \/ ManifestCreate(q) \/ ManifestUpdate(q)
           \/ ManifestTransition(q) \/ ManifestDelete(q)
    PROVE  StartSound(q)
<1>0. \A r \in Manifest : /\ r \in Record /\ r \notin Check
                         /\ Graph(r) = TransferManifestTransitions
                         /\ Editable(r) = {"draft"}
  BY RecordAssumption DEF Record, Graph, Editable
<1>1. CASE ManifestCreate(q)
  BY <1>0, <1>1, CreateSound DEF ManifestCreate
<1>2. CASE ManifestUpdate(q)
  <2>1. PICK r \in Manifest : \E parties \in FieldsOf(r) :
            /\ tbl[r].status = "draft"
            /\ StartWrite(q, "generator", "update", r, tbl[r].status, parties)
    BY <1>2 DEF ManifestUpdate
  <2>2. tbl[r].status \in StatusOf(r)
    BY <2>1, <1>0, LiveRowTyped DEF StartWrite
  <2> QED BY <2>1, <2>2, <1>0, WriteSound
<1>3. CASE ManifestTransition(q)
  <2>0. PICK r \in Manifest : \E target \in StatusOf(r) :
            /\ CanTransition(TransferManifestTransitions, tbl[r].status, target)
            /\ StartWrite(q, IF target \in Dispatch THEN "generator" ELSE "write",
                          "transition", r, target, tbl[r].fields)
    BY <1>3 DEF ManifestTransition
  <2>1. PICK target \in StatusOf(r) :
            /\ CanTransition(TransferManifestTransitions, tbl[r].status, target)
            /\ StartWrite(q, IF target \in Dispatch THEN "generator" ELSE "write",
                          "transition", r, target, tbl[r].fields)
    BY <2>0
  <2>2. tbl[r].fields \in FieldsOf(r)
    BY <2>1, <1>0, LiveRowTyped DEF StartWrite
  <2>3. CASE target \in Dispatch
    BY <2>1, <2>2, <2>3, <1>0, WriteSound
  <2>4. CASE target \notin Dispatch
    BY <2>1, <2>2, <2>4, <1>0, WriteSound
  <2> QED BY <2>3, <2>4
<1>4. CASE ManifestDelete(q)
  BY <1>4, <1>0, DeleteSound DEF ManifestDelete
<1> QED BY <1>1, <1>2, <1>3, <1>4

LEMMA CheckSound ==
    ASSUME TypeOK, NEW q,
           CheckCreate(q) \/ CheckUpdate(q) \/ CheckTransition(q) \/ CheckDelete(q)
    PROVE  StartSound(q)
<1>0. \A r \in Check : /\ r \in Record /\ r \notin Manifest
                      /\ FieldsOf(r) = Manifest
                      /\ Graph(r) = ComplianceCheckTransitions
                      /\ Editable(r) = {"pending"}
  BY RecordAssumption DEF Record, FieldsOf, Graph, Editable
<1>1. CASE CheckCreate(q)
  BY <1>0, <1>1, CreateSound DEF CheckCreate
<1>2. CASE CheckUpdate(q)
  <2>1. PICK r \in Check, m \in Manifest :
            /\ tbl[r].status = "pending"
            /\ StartWrite(q, "manifest", "update", r, tbl[r].status, m)
    BY <1>2 DEF CheckUpdate
  <2>2. tbl[r].status \in StatusOf(r)
    BY <2>1, <1>0, LiveRowTyped DEF StartWrite
  <2> QED BY <2>1, <2>2, <1>0, WriteSound
<1>3. CASE CheckTransition(q)
  <2>0. PICK r \in Check : \E target \in StatusOf(r) :
            /\ CanTransition(ComplianceCheckTransitions, tbl[r].status, target)
            /\ StartWrite(q, "manifest", "transition", r, target, tbl[r].fields)
    BY <1>3 DEF CheckTransition
  <2>1. PICK target \in StatusOf(r) :
            /\ CanTransition(ComplianceCheckTransitions, tbl[r].status, target)
            /\ StartWrite(q, "manifest", "transition", r, target, tbl[r].fields)
    BY <2>0
  <2>2. tbl[r].fields \in FieldsOf(r)
    BY <2>1, <1>0, LiveRowTyped DEF StartWrite
  <2> QED BY <2>1, <2>2, <1>0, WriteSound
<1>4. CASE CheckDelete(q)
  BY <1>4, <1>0, DeleteSound DEF CheckDelete
<1> QED BY <1>1, <1>2, <1>3, <1>4

LEMMA StepKinds ==
    ASSUME TypeOK, [Next]_vars
    PROVE  \/ UNCHANGED vars
           \/ Tick
           \/ \E q \in Request : \/ StartSound(q) \/ ProceedStep(q)
                                \/ CommitStep(q) \/ Fail(q)
BY GeneratorSound, CarrierSound, ManifestSound, CheckSound
   DEF Next, RequestStep, LicenceStep, ManifestStep, CheckStep, ProceedStep

-----------------------------------------------------------------------------
(* Type correctness. *)

LEMMA JobTyped ==
    ASSUME TypeOK, NEW q \in Request, req[q] # Idle
    PROVE  req[q].rec \in Record /\ req[q] \in Job(req[q].rec)
<1>1. PICK r \in Record : req[q] \in Job(r)
  BY DEF TypeOK
<1>2. req[q].rec = r
  BY <1>1 DEF Job
<1> QED BY <1>1, <1>2

LEMMA AppendTyped ==
    ASSUME NEW S, NEW s \in Seq(S), NEW e \in S
    PROVE  Append(s, e) \in Seq(S)
OBVIOUS

\* What the store holds of one record is well typed.
StoreTyped(r) ==
    tbl[r] \in {NoRow} \cup StoredRow(r) /\ trail[r] \in Seq(AuditEntry(r))

LEMMA CreateTyped ==
    ASSUME TypeOK, NEW r \in Record, NEW status \in StatusOf(r),
           NEW fields \in FieldsOf(r), CreateAudited(r, status, fields)
    PROVE  StoreTyped(r)'
<1>1. Entry("create", "", status) \in AuditEntry(r)
  BY DEF Entry, AuditEntry
<1>2. [status |-> status, version |-> 1, deleted |-> FALSE, fields |-> fields]
          \in StoredRow(r)
  BY DEF StoredRow
<1>3. trail'[r] = Append(trail[r], Entry("create", "", status))
  BY DEF TypeOK, CreateAudited, Log
<1>4. trail'[r] \in Seq(AuditEntry(r))
  <2>1. trail[r] \in Seq(AuditEntry(r))
    BY DEF TypeOK
  <2> QED BY <1>1, <1>3, <2>1, AppendTyped
<1> QED BY <1>2, <1>4 DEF TypeOK, CreateAudited, StoreTyped

LEMMA UpdateTyped ==
    ASSUME TypeOK, NEW r \in Record, NEW expected \in Nat,
           NEW action \in {"update", "transition"},
           NEW before \in StatusOf(r) \cup {""},
           NEW status \in StatusOf(r), NEW fields \in FieldsOf(r),
           UpdateAudited(r, expected, action, before, status, fields)
    PROVE  StoreTyped(r)'
<1>1. Entry(action, before, status) \in AuditEntry(r)
  BY DEF Entry, AuditEntry
<1>2. [status |-> status, version |-> expected + 1, deleted |-> FALSE,
       fields |-> fields] \in StoredRow(r)
  <2>1. expected + 1 \in Nat \ {0}
    BY NextVersion
  <2> QED BY <2>1 DEF StoredRow
<1>3. trail'[r] = Append(trail[r], Entry(action, before, status))
  BY DEF TypeOK, UpdateAudited, Log
<1>4. trail'[r] \in Seq(AuditEntry(r))
  <2>1. trail[r] \in Seq(AuditEntry(r))
    BY DEF TypeOK
  <2> QED BY <1>1, <1>3, <2>1, AppendTyped
<1> QED BY <1>2, <1>4 DEF TypeOK, UpdateAudited, StoreTyped

LEMMA DeleteTyped ==
    ASSUME TypeOK, NEW r \in Record, NEW before \in StatusOf(r) \cup {""},
           DeleteAudited(r, before)
    PROVE  StoreTyped(r)'
<1>1. Entry("delete", before, "deleted") \in AuditEntry(r)
  BY DEF Entry, AuditEntry
<1>2. tbl[r] \in StoredRow(r)
  BY LiveRowTyped DEF DeleteAudited
<1>3. tbl'[r] \in StoredRow(r)
  BY <1>2 DEF TypeOK, DeleteAudited, StoredRow
<1>4. trail'[r] = Append(trail[r], Entry("delete", before, "deleted"))
  BY DEF TypeOK, DeleteAudited, Log
<1>5. trail'[r] \in Seq(AuditEntry(r))
  <2>1. trail[r] \in Seq(AuditEntry(r))
    BY DEF TypeOK
  <2> QED BY <1>1, <1>4, <2>1, AppendTyped
<1> QED BY <1>3, <1>5 DEF StoreTyped

\* A commit changes the store for the record of its request only.
LEMMA CommitTyped ==
    ASSUME TypeOK, NEW q \in Request, CommitStep(q), NEW r, r = req[q].rec
    PROVE  /\ req[q] # Idle
           /\ StoreTyped(r)'
           /\ \A x \in Record \ {r} : tbl'[x] = tbl[x] /\ trail'[x] = trail[x]
           /\ DOMAIN tbl' = Record /\ DOMAIN trail' = Record
           /\ req' = [req EXCEPT ![q] = Idle] /\ UNCHANGED now
<1>1. req[q] # Idle
  BY DEF CommitStep, CommitCreate, CommitUpdate, CommitTransition, CommitDelete,
         About, Idle
<1>2. r \in Record /\ req[q] \in Job(r)
  BY <1>1, JobTyped
<1>3. /\ req[q].status \in StatusOf(r) /\ req[q].fields \in FieldsOf(r)
      /\ req[q].expected \in Nat
      /\ req[q].current \in {NoRow} \cup StoredRow(r)
  BY <1>2 DEF Job
<1>4. req[q].current.status \in StatusOf(r) \cup {""}
  <2>1. CASE req[q].current = NoRow
    <3>1. NoRow.status = ""
      BY DEF NoRow
    <3> QED BY <2>1, <3>1
  <2>2. CASE req[q].current \in StoredRow(r)
    BY <2>2 DEF StoredRow
  <2> QED BY <1>3, <2>1, <2>2
<1>5. CASE CommitCreate(q)
  <2>1. StoreTyped(r)'
    BY <1>2, <1>3, <1>5, CreateTyped DEF CommitCreate
  <2> QED BY <1>1, <2>1, <1>5 DEF CommitCreate, CreateAudited, Log, TypeOK, Finish
<1>6. CASE CommitUpdate(q)
  <2>1. StoreTyped(r)'
    BY <1>2, <1>3, <1>4, <1>6, UpdateTyped DEF CommitUpdate
  <2> QED BY <1>1, <2>1, <1>6 DEF CommitUpdate, UpdateAudited, Log, TypeOK, Finish
<1>7. CASE CommitTransition(q)
  <2>1. StoreTyped(r)'
    BY <1>2, <1>3, <1>4, <1>7, UpdateTyped DEF CommitTransition
  <2> QED BY <1>1, <2>1, <1>7
          DEF CommitTransition, UpdateAudited, Log, TypeOK, Finish
<1>8. CASE CommitDelete(q)
  <2>1. StoreTyped(r)'
    BY <1>2, <1>4, <1>8, DeleteTyped DEF CommitDelete
  <2> QED BY <1>1, <2>1, <1>8 DEF CommitDelete, DeleteAudited, Log, TypeOK, Finish
<1> QED BY <1>5, <1>6, <1>7, <1>8 DEF CommitStep

\* The reads of linked rows move the program counter of one request.
LEMMA ProceedTyped ==
    ASSUME TypeOK, NEW q \in Request, ProceedStep(q)
    PROVE  /\ req[q] # Idle
           /\ UNCHANGED <<tbl, trail, now>>
           /\ req' = [req EXCEPT ![q] = [req[q] EXCEPT !.pc = req'[q].pc]]
           /\ req'[q] \in Job(req[q].rec)
<1>1. PICK pc \in {"generator", "carrier", "manifest"},
           next \in {"carrier", "write"} : Proceed(q, pc, next)
  BY DEF ProceedStep, ReadGenerator, ReadCarrier, ReadManifest
<1>2. req[q] # Idle
  BY <1>1 DEF Proceed, Idle
<1>3. req[q] \in Job(req[q].rec)
  BY <1>2, JobTyped
<1>4. req' = [req EXCEPT ![q] = [req[q] EXCEPT !.pc = next]]
  BY <1>1 DEF Proceed
<1>5. req'[q] = [req[q] EXCEPT !.pc = next]
  BY <1>4 DEF TypeOK
<1>6. req'[q].pc = next /\ req'[q] \in Job(req[q].rec)
  BY <1>3, <1>5 DEF Job
<1> QED BY <1>1, <1>2, <1>4, <1>6 DEF Proceed

LEMMA TypeStep ==
    ASSUME TypeOK, [Next]_vars
    PROVE  TypeOK'
<1>1. CASE UNCHANGED vars
  BY <1>1 DEF vars, TypeOK
<1>2. CASE Tick
  BY <1>2 DEF Tick, TypeOK
<1>3. ASSUME NEW q \in Request, StartSound(q)
      PROVE  TypeOK'
  BY <1>3 DEF StartSound, Start, TypeOK
<1>4. ASSUME NEW q \in Request, ProceedStep(q)
      PROVE  TypeOK'
  <2>1. req[q].rec \in Record
    BY <1>4, ProceedTyped, JobTyped
  <2> QED BY <1>4, <2>1, ProceedTyped DEF TypeOK
<1>5. ASSUME NEW q \in Request, CommitStep(q)
      PROVE  TypeOK'
  <2> DEFINE r == req[q].rec
  <2>1. /\ \A x \in Record : x = r => StoreTyped(x)'
        /\ \A x \in Record \ {r} : tbl'[x] = tbl[x] /\ trail'[x] = trail[x]
        /\ DOMAIN tbl' = Record /\ DOMAIN trail' = Record
        /\ req' = [req EXCEPT ![q] = Idle] /\ UNCHANGED now
    BY <1>5, CommitTyped
  <2>2. \A x \in Record : StoreTyped(x)'
    BY <2>1 DEF TypeOK, StoreTyped
  <2> QED BY <2>1, <2>2 DEF TypeOK, StoreTyped
<1>6. ASSUME NEW q \in Request, Fail(q)
      PROVE  TypeOK'
  BY <1>6 DEF Fail, Finish, storeVars, TypeOK
<1> QED BY <1>1, <1>2, <1>3, <1>4, <1>5, <1>6, StepKinds

LEMMA TypeInit == Init => TypeOK
BY SeedsAssumption DEF Init, RequestsInit, TypeOK

(* Rows, audit entries and requests in flight keep their types. *)
THEOREM TypeCorrect == Spec => []TypeOK
<1>1. Init => TypeOK
  BY TypeInit
<1>2. TypeOK /\ [Next]_vars => TypeOK'
  BY TypeStep
<1> QED BY <1>1, <1>2, PTL DEF Spec

-----------------------------------------------------------------------------
(* What requests hold.  A row only changes by getting a higher version or by
   being deleted as it is, so a held row that was stored stays older or equal. *)

Grown(r) ==
    /\ tbl[r].version \in Nat /\ tbl'[r].version \in Nat
    /\ tbl[r].version <= tbl'[r].version
    /\ tbl[r].version = tbl'[r].version =>
          tbl'[r].status = tbl[r].status /\ tbl'[r].fields = tbl[r].fields

LEMMA RowVersion ==
    ASSUME NEW r, NEW row \in {NoRow} \cup StoredRow(r)
    PROVE  row.version \in Nat
<1>1. CASE row = NoRow
  <2>1. NoRow.version = 0
    BY DEF NoRow
  <2> QED BY <1>1, <2>1
<1>2. CASE row \in StoredRow(r)
  BY <1>2 DEF StoredRow
<1> QED BY <1>1, <1>2

LEMMA VersionTyped ==
    ASSUME TypeOK, NEW r \in Record
    PROVE  tbl[r].version \in Nat
BY RowVersion DEF TypeOK

LEMMA SameRowGrown ==
    ASSUME TypeOK, NEW r \in Record, tbl'[r] = tbl[r]
    PROVE  Grown(r)
BY VersionTyped DEF Grown

LEMMA CommitGrown ==
    ASSUME TypeOK, NEW q \in Request, CommitStep(q), NEW r, r = req[q].rec
    PROVE  Grown(r)
<1>1. req[q] # Idle
  BY CommitTyped
<1>2. r \in Record /\ req[q] \in Job(r)
  BY <1>1, JobTyped
<1>3. tbl[r].version \in Nat
  BY <1>2, VersionTyped
<1>4. CASE CommitCreate(q)
  <2>1. tbl[r].version = 0 /\ tbl'[r].version = 1
    BY <1>2, <1>4 DEF CommitCreate, CreateAudited, TypeOK
  <2> QED BY <2>1 DEF Grown
<1>5. CASE CommitUpdate(q) \/ CommitTransition(q)
  <2>1. tbl'[r].version = tbl[r].version + 1
    BY <1>2, <1>5 DEF CommitUpdate, CommitTransition, UpdateAudited, TypeOK
  <2> QED BY <1>3, <2>1 DEF Grown
<1>6. CASE CommitDelete(q)
  <2>1. tbl[r] \in StoredRow(r)
    BY <1>2, <1>6, LiveRowTyped DEF CommitDelete, DeleteAudited
  <2>2. tbl'[r] = [tbl[r] EXCEPT !.deleted = TRUE]
    BY <1>2, <1>6 DEF CommitDelete, DeleteAudited, TypeOK
  <2>3. /\ tbl'[r].version = tbl[r].version
        /\ tbl'[r].status = tbl[r].status /\ tbl'[r].fields = tbl[r].fields
    BY <2>1, <2>2 DEF StoredRow
  <2> QED BY <1>3, <2>3 DEF Grown
<1> QED BY <1>4, <1>5, <1>6 DEF CommitStep

LEMMA RowsGrow ==
    ASSUME TypeOK, [Next]_vars
    PROVE  \A r \in Record : Grown(r)
<1>1. CASE UNCHANGED tbl
  BY <1>1, SameRowGrown
<1>2. CASE \E q \in Request : CommitStep(q)
  <2>1. PICK q \in Request : CommitStep(q)
    BY <1>2
  <2>2. Grown(req[q].rec)
    BY <2>1, CommitGrown
  <2>3. \A r \in Record \ {req[q].rec} : tbl'[r] = tbl[r]
    BY <2>1, CommitTyped
  <2> QED BY <2>2, <2>3, SameRowGrown
<1>3. UNCHANGED tbl \/ \E q \in Request : CommitStep(q)
  BY StepKinds, ProceedTyped
     DEF vars, Tick, StartSound, Start, Fail, storeVars
<1> QED BY <1>1, <1>2, <1>3

LEMMA CurrentKept ==
    ASSUME NEW job, Current(job), Grown(job.rec), job.op # "create" =>
               job.current.version \in Nat
    PROVE  Current(job)'
<1>1. job.op # "create" =>
          /\ job.current.version \in 1 .. tbl'[job.rec].version
          /\ job.current.version = tbl'[job.rec].version =>
                /\ job.current.status = tbl'[job.rec].status
                /\ job.current.fields = tbl'[job.rec].fields
  BY DEF Current, Grown
<1> QED BY <1>1 DEF Current

LEMMA SoundCurrent ==
    ASSUME TypeOK, NEW q \in Request, NEW r \in Record, NEW job \in Job(r),
           Sound(job), Start(q, job)
    PROVE  Current(job)'
<1>1. job.rec = r /\ tbl' = tbl
  BY DEF Job, Start
<1>2. job.op # "create" =>
          /\ job.current = tbl[r] /\ tbl[r].version \in Nat \ {0}
          /\ job.current.version \in 1 .. tbl[r].version
  <2> SUFFICES ASSUME job.op # "create"
               PROVE  /\ job.current = tbl[r] /\ tbl[r].version \in Nat \ {0}
                      /\ job.current.version \in 1 .. tbl[r].version
    OBVIOUS
  <2>1. Live(r) /\ job.current = tbl[r]
    BY <1>1 DEF Sound
  <2>2. tbl[r].version \in Nat \ {0}
    BY <2>1, LiveRowTyped
  <2> QED BY <2>1, <2>2
<1>3. Current(job)
  BY <1>1, <1>2 DEF Sound, Current, ClientVersion
<1> QED BY <1>1, <1>3 DEF Current

\* A step leaves each request as it is, ends it, moves its program counter or
\* puts it in flight.
LEMMA RequestSteps ==
    ASSUME TypeOK, [Next]_vars, NEW p \in Request, req'[p] # Idle
    PROVE  \/ req[p] # Idle /\ req'[p] = req[p]
           \/ req[p] # Idle /\ req'[p] = [req[p] EXCEPT !.pc = req'[p].pc]
                 /\ ProceedStep(p)
           \/ req[p] = Idle /\ \E r \in Record : \E job \in Job(r) :
                 Sound(job) /\ Start(p, job) /\ req'[p] = job
<1>1. CASE UNCHANGED vars \/ Tick
  BY <1>1 DEF vars, Tick
<1>2. ASSUME NEW q \in Request, StartSound(q)
      PROVE  \/ req[p] # Idle /\ req'[p] = req[p]
             \/ req[p] = Idle /\ \E r \in Record : \E job \in Job(r) :
                   Sound(job) /\ Start(p, job) /\ req'[p] = job
  <2>0. PICK r \in Record : \E job \in Job(r) : Sound(job) /\ Start(q, job)
    BY <1>2 DEF StartSound
  <2>1. PICK job \in Job(r) : Sound(job) /\ Start(q, job)
    BY <2>0
  <2>2. req[q] = Idle /\ req' = [req EXCEPT ![q] = job]
    BY <2>1 DEF Start
  <2>3. CASE p = q
    BY <2>1, <2>2, <2>3 DEF TypeOK
  <2>4. CASE p # q
    BY <2>2, <2>4 DEF TypeOK
  <2> QED BY <2>3, <2>4
<1>3. ASSUME NEW q \in Request, ProceedStep(q)
      PROVE  \/ req[p] # Idle /\ req'[p] = req[p]
             \/ req[p] # Idle /\ req'[p] = [req[p] EXCEPT !.pc = req'[p].pc]
                   /\ ProceedStep(p)
  <2>1. /\ req[q] # Idle
        /\ req' = [req EXCEPT ![q] = [req[q] EXCEPT !.pc = req'[q].pc]]
    BY <1>3, ProceedTyped
  <2>2. CASE p = q
    BY <1>3, <2>1, <2>2 DEF TypeOK
  <2>3. CASE p # q
    BY <2>1, <2>3 DEF TypeOK
  <2> QED BY <2>2, <2>3
<1>4. ASSUME NEW q \in Request, CommitStep(q) \/ Fail(q)
      PROVE  req[p] # Idle /\ req'[p] = req[p]
  <2>1. req' = [req EXCEPT ![q] = Idle]
    BY <1>4, CommitTyped DEF Fail, Finish
  <2> QED BY <2>1 DEF TypeOK
<1> QED BY <1>1, <1>2, <1>3, <1>4, StepKinds

LEMMA CurrentStep ==
    ASSUME TypeOK, RequestsCurrent, [Next]_vars
    PROVE  RequestsCurrent'
<1> SUFFICES ASSUME NEW p \in Request, req'[p] # Idle
             PROVE  Current(req[p])'
  BY DEF RequestsCurrent
<1>1. ASSUME req[p] # Idle, NEW job, job = req[p]
      PROVE  Current(job)'
  <2>1. Current(job) /\ job.rec \in Record /\ job \in Job(job.rec)
    BY <1>1, JobTyped DEF RequestsCurrent
  <2>2. Grown(job.rec)
    BY <2>1, RowsGrow
  <2>3. job.op # "create" => job.current.version \in Nat
    BY <2>1, VersionTyped DEF Current
  <2> QED BY <2>1, <2>2, <2>3, CurrentKept
<1>2. CASE req[p] # Idle /\ req'[p] = req[p]
  <2>1. \A x : x = req[p] => Current(x)'
    BY <1>1, <1>2
  <2> QED BY <1>2, <2>1 DEF Current
<1>3. CASE req[p] # Idle /\ req'[p] = [req[p] EXCEPT !.pc = req'[p].pc]
  <2>1. \A x : x = req[p] => Current(x)'
    BY <1>1, <1>3
  <2>2. req[p] \in Job(req[p].rec)
    BY <1>3, JobTyped
  <2>3. /\ req'[p].op = req[p].op /\ req'[p].rec = req[p].rec
        /\ req'[p].current = req[p].current /\ req'[p].status = req[p].status
        /\ req'[p].fields = req[p].fields /\ req'[p].expected = req[p].expected
    BY <1>3, <2>2 DEF Job
  <2> QED BY <2>1, <2>3 DEF Current
<1>4. ASSUME NEW r \in Record, NEW job \in Job(r),
             Sound(job), Start(p, job), req'[p] = job
      PROVE  Current(req[p])'
  <2>1. Current(job)'
    BY <1>4, SoundCurrent
  <2> QED BY <1>4, <2>1 DEF Current
<1> QED BY <1>2, <1>3, <1>4, RequestSteps

(* A write that passes the version comparison was decided on the row it
   replaces, or on an older one that Lookahead lets through. *)
THEOREM RequestsStayCurrent == Spec => [](TypeOK /\ RequestsCurrent)
<1>1. Init => TypeOK /\ RequestsCurrent
  BY TypeInit DEF Init, RequestsInit, RequestsCurrent
<1>2. TypeOK /\ RequestsCurrent /\ [Next]_vars => (TypeOK /\ RequestsCurrent)'
  BY TypeStep, CurrentStep
<1> QED BY <1>1, <1>2, PTL DEF Spec

-----------------------------------------------------------------------------
(* The refinement.  From here on clients send versions they have loaded. *)

LEMMA WriteDecidedOnStored ==
    ASSUME Lookahead = 0, TypeOK, RequestsCurrent, NEW q \in Request,
           CommitUpdate(q) \/ CommitTransition(q),
           NEW r, r = req[q].rec
    PROVE  /\ r \in Record /\ req[q] \in Job(r) /\ Live(r)
           /\ tbl[r].version = req[q].expected /\ tbl[r].version \in Nat \ {0}
           /\ req[q].current.status = tbl[r].status
           /\ req[q].current.fields = tbl[r].fields
           /\ tbl' = [tbl EXCEPT ![r] =
                         [status |-> req[q].status, version |-> tbl[r].version + 1,
                          deleted |-> FALSE, fields |-> req[q].fields]]
<1>1. req[q] # Idle /\ req[q].op \in {"update", "transition"}
  BY DEF CommitUpdate, CommitTransition, About, Idle
<1>2. r \in Record /\ req[q] \in Job(r) /\ Current(req[q])
  BY <1>1, JobTyped DEF RequestsCurrent
<1>3. /\ Live(r) /\ tbl[r].version = req[q].expected
      /\ tbl' = [tbl EXCEPT ![r] =
                    [status |-> req[q].status, version |-> req[q].expected + 1,
                     deleted |-> FALSE, fields |-> req[q].fields]]
  BY DEF CommitUpdate, CommitTransition, UpdateAudited
<1>4. tbl[r].version \in Nat \ {0}
  BY <1>2, <1>3, LiveRowTyped
<1>5. /\ req[q].current.version \in 1 .. tbl[r].version
      /\ req[q].expected \in 1 .. req[q].current.version
  BY <1>1, <1>2, <1>4 DEF Current
<1>6. req[q].current.version = tbl[r].version
  BY <1>3, <1>4, <1>5
<1> QED BY <1>1, <1>2, <1>3, <1>4, <1>6 DEF Current

\* The abstract specification brings its own copy of the domain.
LEMMA SameDomain ==
    /\ Lifecycle!Record = Record
    /\ \A r : /\ Lifecycle!StatusOf(r) = StatusOf(r)
              /\ Lifecycle!InitialStatus(r) = InitialStatus(r)
              /\ Lifecycle!FieldsOf(r) = FieldsOf(r)
              /\ Lifecycle!Editable(r) = Editable(r)
              /\ Lifecycle!Graph(r) = Graph(r)
    /\ \A graph, from, to :
          Lifecycle!CanTransition(graph, from, to) = CanTransition(graph, from, to)
<1>1. \A r : Lifecycle!StatusOf(r) = StatusOf(r)
  BY DEF Lifecycle!StatusOf, StatusOf
<1>2. \A r : Lifecycle!Graph(r) = Graph(r)
  BY DEF Lifecycle!Graph, Graph,
         Lifecycle!WasteGeneratorTransitions, WasteGeneratorTransitions,
         Lifecycle!CarrierProfileTransitions, CarrierProfileTransitions,
         Lifecycle!TransferManifestTransitions, TransferManifestTransitions,
         Lifecycle!ComplianceCheckTransitions, ComplianceCheckTransitions
<1>3. \A r : /\ Lifecycle!InitialStatus(r) = InitialStatus(r)
             /\ Lifecycle!FieldsOf(r) = FieldsOf(r)
             /\ Lifecycle!Editable(r) = Editable(r)
  BY <1>1 DEF Lifecycle!InitialStatus, InitialStatus, Lifecycle!FieldsOf, FieldsOf,
              Lifecycle!Editable, Editable
<1> QED BY <1>1, <1>2, <1>3 DEF Lifecycle!Record, Record,
           Lifecycle!CanTransition, CanTransition

LEMMA CommitRefines ==
    ASSUME Lookahead = 0, TypeOK, RequestsCurrent, NEW q \in Request,
           CommitStep(q)
    PROVE  Lifecycle!Next
<1> DEFINE r == req[q].rec
<1>1. req[q] # Idle /\ r \in Record /\ req[q] \in Job(r)
  BY CommitTyped, JobTyped
<1>2. /\ req[q].status \in StatusOf(r) /\ req[q].fields \in FieldsOf(r)
      /\ Current(req[q])
  BY <1>1 DEF Job, RequestsCurrent
<1>3. CASE CommitCreate(q)
  <2>1. Lifecycle!Create(r)
    BY <1>2, <1>3, SameDomain DEF CommitCreate, About, CreateAudited, Current,
                      Lifecycle!Create, Lifecycle!Store
  <2> QED BY <1>1, <2>1, SameDomain DEF Lifecycle!Next
<1>4. CASE CommitUpdate(q)
  <2>1. /\ Live(r)
        /\ req[q].current.status = tbl[r].status
        /\ req[q].current.fields = tbl[r].fields
        /\ tbl' = [tbl EXCEPT ![r] =
                      [status |-> req[q].status, version |-> tbl[r].version + 1,
                       deleted |-> FALSE, fields |-> req[q].fields]]
    BY <1>4, WriteDecidedOnStored
  <2>2. req[q].status = tbl[r].status /\ tbl[r].status \in Editable(r)
    BY <1>2, <1>4, <2>1 DEF CommitUpdate, About, Current
  <2>3. Lifecycle!Store(r, tbl[r].status, tbl[r].version + 1, req[q].fields)
    BY <2>1, <2>2 DEF Lifecycle!Store
  <2>4. Lifecycle!Edit(r)
    BY <1>2, <2>1, <2>2, <2>3, SameDomain DEF Live, Lifecycle!Edit, Lifecycle!Exists
  <2> QED BY <1>1, <2>4, SameDomain DEF Lifecycle!Next
<1>5. CASE CommitTransition(q)
  <2>1. /\ Live(r)
        /\ req[q].current.status = tbl[r].status
        /\ req[q].current.fields = tbl[r].fields
        /\ tbl' = [tbl EXCEPT ![r] =
                      [status |-> req[q].status, version |-> tbl[r].version + 1,
                       deleted |-> FALSE, fields |-> req[q].fields]]
    BY <1>5, WriteDecidedOnStored
  <2>2. /\ CanTransition(Graph(r), tbl[r].status, req[q].status)
        /\ req[q].fields = tbl[r].fields
    BY <1>2, <1>5, <2>1 DEF CommitTransition, About, Current
  <2>3. Lifecycle!Store(r, req[q].status, tbl[r].version + 1, tbl[r].fields)
    BY <2>1, <2>2 DEF Lifecycle!Store
  <2>4. Lifecycle!Move(r)
    BY <1>2, <2>1, <2>2, <2>3, SameDomain DEF Live, Lifecycle!Move, Lifecycle!Exists
  <2> QED BY <1>1, <2>4, SameDomain DEF Lifecycle!Next
<1>6. CASE CommitDelete(q)
  <2>1. Lifecycle!Remove(r)
    BY <1>6 DEF CommitDelete, DeleteAudited, Live,
                Lifecycle!Remove, Lifecycle!Exists
  <2> QED BY <1>1, <2>1, SameDomain DEF Lifecycle!Next
<1> QED BY <1>3, <1>4, <1>5, <1>6 DEF CommitStep

LEMMA StepRefines ==
    ASSUME Lookahead = 0, TypeOK, RequestsCurrent, [Next]_vars
    PROVE  [Lifecycle!Next]_tbl
<1>1. UNCHANGED tbl \/ \E q \in Request : CommitStep(q)
  BY StepKinds, ProceedTyped
     DEF vars, Tick, StartSound, Start, Fail, storeVars
<1> QED BY <1>1, CommitRefines

(* However requests interleave, every record goes through its lifecycle, as
   long as clients send versions they have loaded. *)
THEOREM Refinement ==
    ASSUME Lookahead = 0
    PROVE  Spec => ImplementsLifecycle
<1>1. Init => Lifecycle!Init
  BY DEF Init, RequestsInit, Lifecycle!Init
<1>2. TypeOK /\ RequestsCurrent /\ [Next]_vars => [Lifecycle!Next]_tbl
  BY StepRefines
<1> QED BY <1>1, <1>2, RequestsStayCurrent, PTL
        DEF Spec, ImplementsLifecycle, Lifecycle!Spec
=============================================================================
