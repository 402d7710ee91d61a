--------------------------- MODULE LicenceServices ---------------------------
(***************************************************************************)
(* wasteGeneratorService and carrierProfileService                         *)
(* (backend/internal/service/waste_generator.go, carrier_profile.go).      *)
(* None of their operations reads a linked row: after the Get and the      *)
(* checks the next database call is the write.                             *)
(***************************************************************************)
EXTENDS ServiceRequests

Unexpired(expiry) == expiry > now

-----------------------------------------------------------------------------
(* Waste generators: created active, no review stands between the edit of   *)
(* a permit and its use.                                                    *)

GeneratorCreate(q) ==
    \E r \in Generator, expiry \in Expiry :
        /\ Unexpired(expiry)
        /\ StartCreate(q, "write", r, expiry)

GeneratorUpdate(q) ==
    \E r \in Generator, expiry \in Expiry :
        /\ Unexpired(expiry)
        /\ StartWrite(q, "write", "update", r, tbl[r].status, expiry)

GeneratorTransition(q) ==
    \E r \in Generator : \E target \in StatusOf(r) :
        /\ CanTransition(WasteGeneratorTransitions, tbl[r].status, target)
        /\ target = "active" => Unexpired(tbl[r].fields)
        /\ StartWrite(q, "write", "transition", r, target, tbl[r].fields)

GeneratorDelete(q) == \E r \in Generator : StartDelete(q, r)

-----------------------------------------------------------------------------
(* Carriers: created pending, usable once a reviewer verified them. *)

CarrierCreate(q) ==
    \E r \in Carrier, expiry \in Expiry :
        /\ Unexpired(expiry)
        /\ StartCreate(q, "write", r, expiry)

CarrierUpdate(q) ==
    \E r \in Carrier, expiry \in Expiry :
        /\ Unexpired(expiry)
        /\ StartWrite(q, "write", "update", r, tbl[r].status, expiry)

CarrierTransition(q) ==
    \E r \in Carrier : \E target \in StatusOf(r) :
        /\ CanTransition(CarrierProfileTransitions, tbl[r].status, target)
        /\ target = "verified" => Unexpired(tbl[r].fields)
        /\ StartWrite(q, "write", "transition", r, target, tbl[r].fields)

CarrierDelete(q) == \E r \in Carrier : StartDelete(q, r)

LicenceStep(q) ==
    \/ GeneratorCreate(q) \/ GeneratorUpdate(q)
    \/ GeneratorTransition(q) \/ GeneratorDelete(q)
    \/ CarrierCreate(q) \/ CarrierUpdate(q)
    \/ CarrierTransition(q) \/ CarrierDelete(q)
=============================================================================
