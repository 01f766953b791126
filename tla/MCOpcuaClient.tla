-------------------------- MODULE MCOpcuaClient --------------------------
(* The OPC UA client task on two endpoints, for TLC. *)
EXTENDS OpcuaClient

=============================================================================
