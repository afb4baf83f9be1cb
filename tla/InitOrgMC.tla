------------------------------ MODULE InitOrgMC ------------------------------
(***************************************************************************)
(* A small instance of InitOrg: two processes, the example template and    *)
(* the shorter one of --empty.                                             *)
(***************************************************************************)
EXTENDS InitOrg

Sizes == [t \in Texts |-> IF t = "example" THEN 2 ELSE 1]

=============================================================================
