-------------------------- MODULE ComplianceDomain --------------------------
(***************************************************************************)
(* The four aggregates of the platform and their status graphs             *)
(* (backend/internal/constants/status.go, backend/internal/model).         *)
(*                                                                         *)
(* A record is named by its code.  Every table has a unique index on code  *)
(* and rows are only ever soft deleted, so a code names at most one row    *)
(* for ever and can stand for the numeric id as well.                      *)
(***************************************************************************)
EXTENDS Naturals

CONSTANTS
    Generator,   \* codes of waste generators (WG-...)
    Carrier,     \* codes of carrier profiles (CP-...)
    Manifest,    \* codes of transfer manifests (TM-...)
    Check,       \* codes of compliance checks (CC-...)
    Expiry,      \* the expiry dates a permit or licence may carry
    NoFields     \* the content of a row that was never inserted

ASSUME RecordAssumption ==
    /\ Generator \cap Carrier = {}
    /\ Generator \cap Manifest = {}
    /\ Generator \cap Check = {}
    /\ Carrier \cap Manifest = {}
    /\ Carrier \cap Check = {}
    /\ Manifest \cap Check = {}

ASSUME ExpiryAssumption == Expiry \subseteq Nat

Record == Generator \cup Carrier \cup Manifest \cup Check

-----------------------------------------------------------------------------
(* The status graphs, as sets of edges. *)

WasteGeneratorTransitions ==
    { <<"active", "restricted">>, <<"active", "suspended">>, <<"active", "expired">>,
      <<"restricted", "active">>, <<"restricted", "suspended">>,
      <<"restricted", "expired">>,
      <<"suspended", "active">>, <<"suspended", "expired">> }

CarrierProfileTransitions ==
    { <<"pending", "verified">>, <<"pending", "restricted">>,
      <<"verified", "restricted">>, <<"verified", "expired">>,
      <<"restricted", "pending">>, <<"restricted", "expired">> }

TransferManifestTransitions ==
    { <<"draft", "submitted">>,
      <<"submitted", "in_transit">>, <<"submitted", "rejected">>,
      <<"in_transit", "received">>, <<"in_transit", "rejected">> }

ComplianceCheckTransitions ==
    { <<"pending", "pass">>, <<"pending", "fail">>, <<"fail", "escalated">> }

CanTransition(graph, from, to) == <<from, to>> \in graph

Graph(r) ==
    IF r \in Generator THEN WasteGeneratorTransitions
    ELSE IF r \in Carrier THEN CarrierProfileTransitions
    ELSE IF r \in Manifest THEN TransferManifestTransitions
    ELSE ComplianceCheckTransitions

StatusOf(r) ==
    IF r \in Generator THEN {"active", "restricted", "suspended", "expired"}
    ELSE IF r \in Carrier THEN {"pending", "verified", "restricted", "expired"}
    ELSE IF r \in Manifest
         THEN {"draft", "submitted", "in_transit", "received", "rejected"}
    ELSE {"pending", "pass", "fail", "escalated"}

\* The initial status of manifests used for every record that needs a review.
InitialStatusCopied(r) == IF r \in Generator THEN "active" ELSE "draft"

InitialStatus(r) ==
    IF r \in Generator THEN "active"
    ELSE IF r \in Manifest THEN "draft"
    ELSE "pending"

-----------------------------------------------------------------------------
(***************************************************************************)
(* The stored content.  Of the business columns a row carries, the ones    *)
(* some other request decides on are kept: the expiry date of a permit or  *)
(* licence, the two parties of a manifest, the manifest of a check.        *)
(***************************************************************************)
FieldsOf(r) ==
    IF r \in Generator \cup Carrier THEN Expiry
    ELSE IF r \in Manifest THEN [gen : Generator, car : Carrier]
    ELSE Manifest

\* The row of a code that was never inserted; stored versions start at 1.
NoRow == [status |-> "", version |-> 0, deleted |-> FALSE, fields |-> NoFields]

StoredRow(r) ==
    [status : StatusOf(r), version : Nat \ {0}, deleted : BOOLEAN,
     fields : FieldsOf(r)]

\* The statuses in which the services still accept an edit of a record.
Editable(r) ==
    IF r \in Manifest THEN {"draft"}
    ELSE IF r \in Check THEN {"pending"}
    ELSE StatusOf(r)
=============================================================================
