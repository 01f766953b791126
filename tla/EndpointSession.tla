-------------------------- MODULE EndpointSession --------------------------
(***************************************************************************)
(* What components/opcua_client promises about endpoints, without its      *)
(* task: at most one connection, made to the endpoint configured at that   *)
(* moment; it is outdated from the first change or pause after, however    *)
(* short, and an outdated connection is given up.                          *)
(***************************************************************************)
CONSTANTS Endpoints, NoEndpoint

VARIABLES
    configured,     \* the endpoint asked for
    connection,     \* the endpoint connected to, or NoEndpoint
    outdated        \* a new connection was asked for

sessionVars == <<configured, connection, outdated>>

SessionInit ==
    /\ configured \in Endpoints
    /\ connection = NoEndpoint
    /\ outdated = FALSE

\* set_endpoint, also with the endpoint that is configured already.
Configure ==
    /\ configured' \in Endpoints
    /\ outdated' = TRUE
    /\ UNCHANGED connection

\* pause.
Interrupt ==
    /\ outdated' = TRUE
    /\ UNCHANGED <<configured, connection>>

Open ==
    /\ connection = NoEndpoint
    /\ connection' = configured
    /\ outdated' = FALSE
    /\ UNCHANGED configured

\* The connection fails, breaks or is given up.
Close ==
    /\ connection # NoEndpoint
    /\ connection' = NoEndpoint
    /\ UNCHANGED <<configured, outdated>>

SessionNext == Configure \/ Interrupt \/ Open \/ Close

SessionSpec ==
    /\ SessionInit /\ [][SessionNext]_sessionVars
    /\ WF_sessionVars(outdated /\ Close)
=============================================================================
