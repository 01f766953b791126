---------------------------- MODULE PauseControl ----------------------------
(***************************************************************************)
(* opcua_client_pause and opcua_client_resume: the nested pause requests   *)
(* the screens and the display sleep make of the OPC UA client.  Both run  *)
(* under configuration_mutex.                                              *)
(***************************************************************************)
EXTENDS Naturals

VARIABLES
    pause_depth,          \* pauses not yet released
    pause_requested,      \* the flag the client task polls
    reconnect_requested   \* a pause ends the running session by this flag too

pauseVars == <<pause_depth, pause_requested, reconnect_requested>>

PauseInit ==
    /\ pause_depth = 0
    /\ pause_requested = FALSE
    /\ reconnect_requested = FALSE

PauseCall ==
    /\ pause_depth' = pause_depth + 1
    /\ pause_requested' = TRUE
    /\ reconnect_requested' = TRUE

\* Mutants: the depth underflows; one resume ends every nested pause.
ResumeUnguarded ==
    /\ pause_depth' = pause_depth - 1
    /\ pause_requested' = (pause_depth' > 0)
    /\ UNCHANGED reconnect_requested

ResumeEndsAll ==
    /\ pause_depth' = IF pause_depth > 0 THEN pause_depth - 1 ELSE 0
    /\ pause_requested' = FALSE
    /\ UNCHANGED reconnect_requested

\* A resume without a pause is ignored: the depth stays at 0.
ResumeCall ==
    /\ pause_depth' = IF pause_depth > 0 THEN pause_depth - 1 ELSE 0
    /\ pause_requested' = (pause_depth' > 0)
    /\ UNCHANGED reconnect_requested
=============================================================================
