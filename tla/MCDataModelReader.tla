-------------------------- MODULE MCDataModelReader --------------------------
(* The data model and one reader of its structure, for TLC.  One NodeId is   *)
(* enough: structures differ in length, parents, kinds and tag roles.  *)
EXTENDS DataModelReader

=============================================================================
