------------------------------ MODULE MCStartup ------------------------------
(***************************************************************************)
(* The stages of the backend's startup, in the order of database.go:77-125.*)
(* 1 to 12 are the tables of the users, the audit log, the generators, the *)
(* carriers, the manifests and the checks, each followed by its indexes;   *)
(* 13 is the rows of the users, 14 to 17 those of the four aggregates.     *)
(***************************************************************************)
EXTENDS Startup, TLC

\* The unique index on the user name, and those on the codes.
SeedIndexes == 13 :> 2 @@ 14 :> 6 @@ 15 :> 8 @@ 16 :> 10 @@ 17 :> 12
=============================================================================
