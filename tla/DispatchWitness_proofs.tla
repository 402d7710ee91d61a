------------------------ MODULE DispatchWitness_proofs ------------------------
(***************************************************************************)
(* What re-verification guarantees, for any number of requests and records *)
(* and whichever versions the clients send: what a request was to verify   *)
(* held at an instant between its start and its commit.                    *)
(***************************************************************************)
EXTENDS DispatchWitness, TransferCompliance_proofs

\* What a transition has verified by the time it comes to its next call.
Verified(q) ==
    LET job == req[q] IN
    job # Idle /\ job.op = "transition" =>
        /\ job.rec \in Manifest /\ job.status \in Dispatch =>
              /\ job.pc \in {"generator", "carrier", "write"}
              /\ job.pc # "generator" => <<"party", job.fields.gen>> \in witnessed[q]
              /\ job.pc = "write" => <<"party", job.fields.car>> \in witnessed[q]
        /\ job.rec \in Check /\ job.status = "pass" =>
              /\ job.pc \in {"manifest", "write"}
              /\ job.pc = "write" => <<"checked", job.fields>> \in witnessed[q]
        /\ job.status \in {"active", "verified"} =>
              <<"licensed", job.rec, job.fields>> \in witnessed[q]

WitnessInv == TypeOK /\ \A q \in Request : Verified(q)

-----------------------------------------------------------------------------
(* A review starts on a row whose expiry date is ahead, and holds this date. *)

LEMMA ReviewStarts ==
    ASSUME TypeOK, NEW q \in Request, LicenceStep(q) \/ ManifestStep(q) \/ CheckStep(q),
           req[q] = Idle, req'[q].op = "transition",
           req'[q].status \in {"active", "verified"}
    PROVE  /\ req'[q].rec \in InForce
           /\ req'[q].fields = tbl[req'[q].rec].fields
           /\ UNCHANGED <<tbl, now>>
<1> DEFINE job == req'[q]
<1>1. ASSUME NEW pc, NEW op, NEW r, NEW status, NEW fields,
             StartWrite(q, pc, op, r, status, fields)
      PROVE  /\ job.op = op /\ job.rec = r /\ job.status = status
             /\ job.fields = fields
             /\ Live(r) /\ UNCHANGED <<tbl, now>>
  BY <1>1 DEF StartWrite, Start, NewJob, TypeOK
<1>2. ASSUME NEW pc, NEW r, NEW fields, StartCreate(q, pc, r, fields)
      PROVE  job.op = "create"
  BY <1>2 DEF StartCreate, Start, NewJob, TypeOK
<1>3. ASSUME NEW r, StartDelete(q, r)
      PROVE  job.op = "delete"
  BY <1>3 DEF StartDelete, Start, NewJob, TypeOK
<1>4. ~(\/ GeneratorCreate(q) \/ CarrierCreate(q) \/ ManifestCreate(q)
        \/ CheckCreate(q))
  BY <1>2 DEF GeneratorCreate, CarrierCreate, ManifestCreate, CheckCreate
<1>5. ~(\/ GeneratorDelete(q) \/ CarrierDelete(q) \/ ManifestDelete(q)
        \/ CheckDelete(q))
  BY <1>3 DEF GeneratorDelete, CarrierDelete, ManifestDelete, CheckDelete
<1>6. ~(\/ GeneratorUpdate(q) \/ CarrierUpdate(q) \/ ManifestUpdate(q)
        \/ CheckUpdate(q))
  BY <1>1 DEF GeneratorUpdate, CarrierUpdate, ManifestUpdate, CheckUpdate
<1>7. ~(ReadGenerator(q) \/ ReadCarrier(q) \/ ReadManifest(q))
  BY DEF ReadGenerator, ReadCarrier, ReadManifest, Proceed, Idle
<1>8. ~ManifestTransition(q)
  <2> SUFFICES ASSUME ManifestTransition(q) PROVE FALSE
    OBVIOUS
  <2>1. PICK r \in Manifest : job.status \in StatusOf(r)
    BY <1>1 DEF ManifestTransition
  <2>2. StatusOf(r) = {"draft", "submitted", "in_transit", "received", "rejected"}
    BY RecordAssumption DEF StatusOf
  <2> QED BY <2>1, <2>2
<1>9. ~CheckTransition(q)
  <2> SUFFICES ASSUME CheckTransition(q) PROVE FALSE
    OBVIOUS
  <2>1. PICK r \in Check : job.status \in StatusOf(r)
    BY <1>1 DEF CheckTransition
  <2>2. StatusOf(r) = {"pending", "pass", "fail", "escalated"}
    BY RecordAssumption DEF StatusOf
  <2> QED BY <2>1, <2>2
<1>10. CASE GeneratorTransition(q)
  <2>1. PICK r \in Generator : \E target \in StatusOf(r) :
            /\ target = "active" => Unexpired(tbl[r].fields)
            /\ StartWrite(q, "write", "transition", r, target, tbl[r].fields)
    BY <1>10 DEF GeneratorTransition
  <2>2. StatusOf(r) = {"active", "restricted", "suspended", "expired"}
    BY DEF StatusOf
  <2> QED BY <1>1, <2>1, <2>2 DEF InForce
<1>11. CASE CarrierTransition(q)
  <2>1. PICK r \in Carrier : \E target \in StatusOf(r) :
            /\ target = "verified" => Unexpired(tbl[r].fields)
            /\ StartWrite(q, "write", "transition", r, target, tbl[r].fields)
    BY <1>11 DEF CarrierTransition
  <2>2. StatusOf(r) = {"pending", "verified", "restricted", "expired"}
    BY RecordAssumption DEF StatusOf
  <2> QED BY <1>1, <2>1, <2>2 DEF InForce
<1> QED BY <1>4, <1>5, <1>6, <1>7, <1>8, <1>9, <1>10, <1>11
        DEF LicenceStep, ManifestStep, CheckStep

\* Only the steps of its own operations put a request in flight.
LEMMA OwnStart ==
    ASSUME TypeOK, [Next]_vars, NEW q \in Request, req[q] = Idle, req'[q] # Idle
    PROVE  LicenceStep(q) \/ ManifestStep(q) \/ CheckStep(q)
<1>1. PICK p \in Request : RequestStep(p)
  BY DEF Next, Tick, vars
<1>2. CASE CommitStep(p) \/ Fail(p)
  BY <1>2 DEF CommitStep, CommitCreate, CommitUpdate, CommitTransition,
              CommitDelete, Fail, Finish, TypeOK
<1>3. CASE LicenceStep(p) \/ ManifestStep(p) \/ CheckStep(p)
  <2>1. StartSound(p) \/ ProceedStep(p)
    BY <1>3, GeneratorSound, CarrierSound, ManifestSound, CheckSound
       DEF LicenceStep, ManifestStep, CheckStep, ProceedStep
  <2>2. \A x \in Request \ {p} : req'[x] = req[x]
    BY <2>1, ProceedTyped DEF StartSound, Start, TypeOK
  <2>3. q = p
    BY <2>2
  <2> QED BY <1>3, <2>3
<1> QED BY <1>1, <1>2, <1>3 DEF RequestStep

-----------------------------------------------------------------------------

LEMMA InForceStays ==
    ASSUME UNCHANGED <<tbl, now>>
    PROVE  Acceptable' = Acceptable
BY DEF Acceptable, Eligible, UnderWay, InForce, GeneratorEligible,
       CarrierEligible, Live, Unexpired

LEMMA VerifiedStep ==
    ASSUME WitnessInv, WitnessNext, NEW q \in Request
    PROVE  Verified(q)'
<1> SUFFICES ASSUME req'[q] # Idle, req'[q].op = "transition"
             PROVE  Verified(q)'
  BY DEF Verified
<1> DEFINE job == req'[q]
<1>1. [Next]_vars /\ TypeOK
  BY DEF WitnessNext, WitnessInv
<1>2. witnessed'[q] = witnessed[q] \cup Acceptable'
  BY DEF WitnessNext
<1>3. CASE req[q] # Idle /\ req'[q] = req[q]
  <2>1. Verified(q)
    BY DEF WitnessInv
  <2> QED BY <1>2, <1>3, <2>1 DEF Verified
<1>4. CASE /\ req[q] # Idle /\ req'[q] = [req[q] EXCEPT !.pc = req'[q].pc]
           /\ ProceedStep(q)
  <2>1. req[q] \in Job(req[q].rec) /\ req[q].rec \in Record
    BY <1>1, <1>4, JobTyped
  <2>2. /\ job.op = req[q].op /\ job.rec = req[q].rec
        /\ job.status = req[q].status /\ job.fields = req[q].fields
        /\ job \in Job(req[q].rec)
    BY <1>1, <1>4, <2>1, ProceedTyped DEF Job
  <2>3. UNCHANGED <<tbl, now>>
    BY <1>1, <1>4, ProceedTyped
  <2>4. Acceptable \subseteq witnessed'[q] /\ witnessed[q] \subseteq witnessed'[q]
    BY <1>2, <2>3, InForceStays
  <2>5. Verified(q)
    BY DEF WitnessInv
  <2>6. job.status \in {"active", "verified"} =>
            <<"licensed", job.rec, job.fields>> \in witnessed'[q]
    BY <1>4, <2>2, <2>4, <2>5 DEF Verified
  <2>7. ASSUME job.rec \in Manifest, job.status \in Dispatch
        PROVE  /\ job.pc \in {"generator", "carrier", "write"}
               /\ job.pc # "generator" => <<"party", job.fields.gen>> \in witnessed'[q]
               /\ job.pc = "write" => <<"party", job.fields.car>> \in witnessed'[q]
    <3>1. job.fields \in [gen : Generator, car : Carrier]
      BY <2>2, <2>7, RecordAssumption DEF Job, FieldsOf
    <3>2. /\ req[q].pc \in {"generator", "carrier", "write"}
          /\ req[q].pc # "generator" => <<"party", job.fields.gen>> \in witnessed'[q]
      BY <1>4, <2>2, <2>4, <2>5, <2>7 DEF Verified
    <3>3. CASE ReadGenerator(q)
      <4>1. job.pc = "carrier" /\ GeneratorEligible(job.fields.gen)
        BY <1>1, <2>1, <2>2, <3>3 DEF ReadGenerator, Proceed, Parties, TypeOK, Job
      <4>2. <<"party", job.fields.gen>> \in Acceptable
        BY <3>1, <4>1 DEF Acceptable, Eligible
      <4> QED BY <2>4, <4>1, <4>2
    <3>4. CASE ReadCarrier(q)
      <4>1. /\ req[q].pc = "carrier" /\ job.pc = "write"
            /\ CarrierEligible(job.fields.car)
        BY <1>1, <2>1, <2>2, <3>4 DEF ReadCarrier, Proceed, Parties, TypeOK, Job
      <4>2. <<"party", job.fields.car>> \in Acceptable
        BY <3>1, <4>1 DEF Acceptable, Eligible
      <4> QED BY <2>4, <3>2, <4>1, <4>2
    <3>5. ~ReadManifest(q)
      BY <3>2 DEF ReadManifest, Proceed
    <3> QED BY <1>4, <3>3, <3>4, <3>5 DEF ProceedStep
  <2>8. ASSUME job.rec \in Check, job.status = "pass"
        PROVE  /\ job.pc \in {"manifest", "write"}
               /\ job.pc = "write" => <<"checked", job.fields>> \in witnessed'[q]
    <3>1. job.fields \in Manifest
      BY <2>2, <2>8, RecordAssumption DEF Job, FieldsOf
    <3>2. req[q].pc \in {"manifest", "write"}
      BY <1>4, <2>2, <2>5, <2>8 DEF Verified
    <3>3. ReadManifest(q)
      BY <1>4, <3>2 DEF ProceedStep, ReadGenerator, ReadCarrier, Proceed
    <3>4. /\ job.pc = "write" /\ Live(job.fields)
          /\ tbl[job.fields].status \in Passable
      BY <1>1, <2>1, <2>2, <2>8, <3>3 DEF ReadManifest, Proceed, TypeOK, Job
    <3>5. <<"checked", job.fields>> \in Acceptable
      BY <3>1, <3>4 DEF Acceptable, UnderWay
    <3> QED BY <2>4, <3>4, <3>5
  <2> QED BY <2>6, <2>7, <2>8 DEF Verified
<1>5. ASSUME req[q] = Idle, NEW r \in Record, NEW start \in Job(r),
             Sound(start), Start(q, start), req'[q] = start
      PROVE  Verified(q)'
  <2>1. /\ job.rec \in Manifest /\ job.status \in Dispatch => job.pc = "generator"
        /\ job.rec \in Check => job.pc = "manifest"
    BY <1>5 DEF Sound
  <2>2. ASSUME job.status \in {"active", "verified"}
        PROVE  <<"licensed", job.rec, job.fields>> \in witnessed'[q]
    <3>1. /\ job.rec \in InForce /\ job.fields = tbl[job.rec].fields
          /\ UNCHANGED <<tbl, now>>
      BY <1>1, <1>5, <2>2, OwnStart, ReviewStarts
    <3>2. <<"licensed", job.rec, job.fields>> \in Acceptable
      BY <3>1 DEF Acceptable
    <3> QED BY <1>2, <3>1, <3>2, InForceStays
  <2> QED BY <2>1, <2>2 DEF Verified
<1> QED BY <1>1, <1>3, <1>4, <1>5, RequestSteps

LEMMA WitnessBegins == WitnessInit => WitnessInv
BY TypeInit DEF WitnessInit, WitnessInv, Verified, Init, RequestsInit

LEMMA WitnessStep ==
    ASSUME WitnessInv, [WitnessNext]_wvars
    PROVE  WitnessInv'
<1>1. CASE WitnessNext
  BY <1>1, TypeStep, VerifiedStep DEF WitnessNext, WitnessInv
<1>2. CASE UNCHANGED wvars
  <2>1. TypeOK'
    BY <1>2, TypeStep DEF wvars, vars, WitnessInv
  <2> QED BY <1>2, <2>1 DEF wvars, WitnessInv, Verified
<1> QED BY <1>1, <1>2

THEOREM WitnessInvariant == WitnessSpec => []WitnessInv
BY WitnessBegins, WitnessStep, PTL DEF WitnessSpec

-----------------------------------------------------------------------------

\* The row of a committed transition has the content that was verified.
LEMMA CommittedFields ==
    ASSUME TypeOK, NEW q \in Request, CommitTransition(q)
    PROVE  /\ req[q] # Idle /\ req[q].op = "transition" /\ req[q].pc = "write"
           /\ req[q].rec \in Record /\ req[q] \in Job(req[q].rec)
           /\ tbl'[req[q].rec].fields = req[q].fields
<1>1. req[q] # Idle /\ req[q].op = "transition" /\ req[q].pc = "write"
  BY DEF CommitTransition, About, Idle
<1>2. req[q].rec \in Record /\ req[q] \in Job(req[q].rec)
  BY <1>1, JobTyped
<1>3. tbl'[req[q].rec].fields = req[q].fields
  BY <1>2 DEF CommitTransition, UpdateAudited, TypeOK
<1> QED BY <1>1, <1>2, <1>3

(* A submission, a dispatch and a pass are stored only when each party, or the
   manifest, was acceptable at an instant while they were served
   (transfer_manifest.go:122-131, compliance_check.go:112-127). *)
THEOREM DecisionsHold == WitnessSpec => DecisionsWitnessed
<1>1. ASSUME WitnessInv, NEW q \in Request, CommitTransition(q)
      PROVE  /\ req[q].rec \in Manifest /\ req[q].status \in Dispatch =>
                   {"party"} \X {tbl'[req[q].rec].fields.gen, tbl'[req[q].rec].fields.car}
                       \subseteq witnessed[q]
             /\ req[q].rec \in Check /\ req[q].status = "pass" =>
                   <<"checked", tbl'[req[q].rec].fields>> \in witnessed[q]
  <2>1. /\ req[q] # Idle /\ req[q].op = "transition" /\ req[q].pc = "write"
        /\ tbl'[req[q].rec].fields = req[q].fields
    BY <1>1, CommittedFields DEF WitnessInv
  <2>2. Verified(q)
    BY <1>1 DEF WitnessInv
  <2>3. ASSUME req[q].rec \in Manifest, req[q].status \in Dispatch
        PROVE  /\ <<"party", req[q].fields.gen>> \in witnessed[q]
               /\ <<"party", req[q].fields.car>> \in witnessed[q]
    BY <2>1, <2>2, <2>3 DEF Verified
  <2>4. req[q].rec \in Check /\ req[q].status = "pass" =>
            <<"checked", req[q].fields>> \in witnessed[q]
    BY <2>1, <2>2 DEF Verified
  <2> QED BY <2>1, <2>3, <2>4
<1>2. WitnessInv /\ [WitnessNext]_wvars =>
          [\A q \in Request :
              LET job == req[q] IN
              CommitTransition(q) =>
                  /\ job.rec \in Manifest /\ job.status \in Dispatch =>
                        {"party"} \X {tbl'[job.rec].fields.gen, tbl'[job.rec].fields.car}
                            \subseteq witnessed[q]
                  /\ job.rec \in Check /\ job.status = "pass" =>
                        <<"checked", tbl'[job.rec].fields>> \in witnessed[q]]_wvars
  BY <1>1
<1> QED BY <1>2, WitnessInvariant, PTL DEF WitnessSpec, DecisionsWitnessed

(* A permit is activated and a licence verified only with the expiry date that
   was found ahead of the clock while the review was served: an edit that puts
   in another date meanwhile makes the review fail, or is overwritten if the
   client counted on it (waste_generator.go:104, carrier_profile.go:103,
   base.go:96). *)
THEOREM ReviewsHold == WitnessSpec => ReviewsWitnessed
<1>1. ASSUME WitnessInv, NEW q \in Request, CommitTransition(q),
             req[q].status \in {"active", "verified"}
      PROVE  <<"licensed", req[q].rec, tbl'[req[q].rec].fields>> \in witnessed[q]
  <2>1. /\ req[q] # Idle /\ req[q].op = "transition"
        /\ tbl'[req[q].rec].fields = req[q].fields
    BY <1>1, CommittedFields DEF WitnessInv
  <2>2. Verified(q)
    BY <1>1 DEF WitnessInv
  <2> QED BY <1>1, <2>1, <2>2 DEF Verified
<1>2. WitnessInv /\ [WitnessNext]_wvars =>
          [\A q \in Request :
              LET job == req[q] IN
              CommitTransition(q) /\ job.status \in {"active", "verified"} =>
                  <<"licensed", job.rec, tbl'[job.rec].fields>> \in witnessed[q]]_wvars
  BY <1>1
<1> QED BY <1>2, WitnessInvariant, PTL DEF WitnessSpec, ReviewsWitnessed

(* What is proved of Spec holds of the observed system that the runs check. *)
THEOREM WitnessObserves == WitnessSpec => Spec
<1>1. WitnessInit => Init
  BY DEF WitnessInit
<1>2. [WitnessNext]_wvars => [Next]_vars
  BY DEF WitnessNext, wvars, vars
<1> QED BY <1>1, <1>2, PTL DEF WitnessSpec, Spec
=============================================================================
