-------------------------- MODULE MCSchemaInstall ---------------------------
(***************************************************************************)
(* Instances of SchemaInstall: two openers, files of all ages.              *)
(***************************************************************************)
EXTENDS SchemaInstall

CONSTANTS p1, p2
=============================================================================
