------------------------- MODULE MCTransferCompliance -------------------------
(***************************************************************************)
(* Small instances of TransferCompliance, observed by DispatchWitness: the *)
(* rows the service starts with and the versions up to which requests are  *)
(* started on each of them.                                                *)
(***************************************************************************)
EXTENDS DispatchWitness, TLC

CONSTANTS g1, c1, c2, m1, m2, k1

\* Requests are interchangeable: no property names one.
Symmetry == Permutations(Request)

Row(status, fields) ==
    [status |-> status, version |-> 1, deleted |-> FALSE, fields |-> fields]

\* A suspended permit that is due at instant 1, and a licence from its creation
\* on: reviewed, edited, deleted.
LicenceSeeds ==
    [r \in Record |-> IF r \in Generator THEN Row("suspended", 1) ELSE NoRow]

LicenceCap == [r \in Record |-> IF r \in Generator THEN 2 ELSE 3]

\* An active generator, a carrier waiting for its review, one that nobody
\* reviews, and one manifest from its creation on.
ManifestSeeds ==
    [r \in Record |->
        IF r = g1 THEN Row("active", 1)
        ELSE IF r \in Carrier THEN Row("pending", 1)
        ELSE NoRow]

ManifestCap == [r \in Record |-> IF r = m1 THEN 4 ELSE IF r = c1 THEN 2 ELSE 0]

\* Eligible parties, a draft that is submitted and dispatched, a second one
\* that stays a draft, and one check from its creation on.
CheckSeeds ==
    [r \in Record |->
        IF r = g1 THEN Row("active", 1)
        ELSE IF r \in Carrier THEN Row("verified", 1)
        ELSE IF r \in Manifest THEN Row("draft", [gen |-> g1, car |-> c1])
        ELSE NoRow]

CheckCap == [r \in Record |-> IF r = m1 THEN 3 ELSE IF r = k1 THEN 4 ELSE 0]
=============================================================================
