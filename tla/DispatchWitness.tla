--------------------------- MODULE DispatchWitness ---------------------------
(***************************************************************************)
(* What re-verification still guarantees although it is not part of the    *)
(* transaction: TransferCompliance with a history variable that notes, for *)
(* each request in flight, the records that were acceptable to it at some  *)
(* instant since it began, the licences with the expiry date they had.  It *)
(* observes every step and restricts none.                                 *)
(***************************************************************************)
EXTENDS TransferCompliance

VARIABLE witnessed

wvars == <<tbl, trail, req, now, witnessed>>

Eligible ==
    {g \in Generator : GeneratorEligible(g)} \cup {c \in Carrier : CarrierEligible(c)}

UnderWay == {m \in Manifest : Live(m) /\ tbl[m].status \in Passable}

InForce == {r \in Generator \cup Carrier : Live(r) /\ Unexpired(tbl[r].fields)}

\* The roles in which records are acceptable right now, a permit or licence
\* under the date it has.
Acceptable ==
    ({"party"} \X Eligible) \cup ({"checked"} \X UnderWay)
        \cup {<<"licensed", r, tbl[r].fields>> : r \in InForce}

WitnessInit == Init /\ witnessed = [q \in Request |-> {}]

WitnessNext ==
    /\ Next
    /\ witnessed' =
          [q \in Request |-> IF req'[q] = Idle THEN {}
                             ELSE witnessed[q] \cup Acceptable']

WitnessSpec == WitnessInit /\ [][WitnessNext]_wvars

(* A submission or dispatch that commits is one whose two parties, the ones
   the stored manifest names, were each eligible at some instant while the
   request was served; and a check that passes is one whose manifest was under
   way or received at such an instant (transfer_manifest.go:122-131,
   compliance_check.go:112-127).  Parties may be re-pointed, suspended and
   approved again by other requests between the reads and the write. *)
DecisionsWitnessed ==
    [][\A q \in Request :
          LET job == req[q] IN
          CommitTransition(q) =>
              /\ job.rec \in Manifest /\ job.status \in Dispatch =>
                    {"party"} \X {tbl'[job.rec].fields.gen, tbl'[job.rec].fields.car}
                        \subseteq witnessed[q]
              /\ job.rec \in Check /\ job.status = "pass" =>
                    <<"checked", tbl'[job.rec].fields>> \in witnessed[q]]_wvars

(* A permit that is activated and a licence that is verified are stored with an
   expiry date that was the date of the record, and ahead of the clock, at one
   and the same instant while the request was served (waste_generator.go:104,
   carrier_profile.go:103): no edit slips a date that has passed under a review
   that checked another, although the write is a later step than the check and
   the clock moves on in between. *)
ReviewsWitnessed ==
    [][\A q \in Request :
          LET job == req[q] IN
          CommitTransition(q) /\ job.status \in {"active", "verified"} =>
              <<"licensed", job.rec, tbl'[job.rec].fields>> \in witnessed[q]]_wvars
=============================================================================
