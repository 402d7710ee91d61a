----------------------------- MODULE MCWorkbench -----------------------------
(***************************************************************************)
(* Small instances of Workbench.  Requests are interchangeable: no         *)
(* property names one.                                                     *)
(***************************************************************************)
EXTENDS Workbench, TLC

\* A carrier that waits for its review; another code is free.
CarrierSeeds ==
    [r \in Record |->
        IF r = CHOOSE c \in Carrier : TRUE
        THEN [status |-> "pending", version |-> 1, deleted |-> FALSE, fields |-> 1]
        ELSE NoRow]

\* The table is empty when the page is entered first.
EmptySeeds == [r \in Record |-> NoRow]

Symmetry == Permutations(Call)
=============================================================================
