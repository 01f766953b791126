---------------------------- MODULE OpcuaClient ----------------------------
(***************************************************************************)
(* The background task of components/opcua_client and the calls other      *)
(* tasks make on it: start, stop, pause, resume and set_endpoint.          *)
(*                                                                         *)
(* The task is one control loop: it waits out a pause, the missing Wi-Fi   *)
(* link and the missing wall clock, takes a private copy of the configured *)
(* endpoint, connects, browses, subscribes, serves the session until a     *)
(* flag or the network ends it, and starts over after a retry delay.  The  *)
(* flags are plain volatile fields: the callers may set them between any   *)
(* two steps of the task.  A step of the task ends where the code blocks,  *)
(* publishes its status or reads a flag again.                             *)
(***************************************************************************)
EXTENDS PauseControl

CONSTANTS
    Endpoints,        \* the endpoint URLs set_endpoint accepts
    NoEndpoint,       \* the task's copy before its first attempt
    MaxPauseDepth,    \* bound: nested pauses explored
    MaxStarts         \* bound: calls of start explored

ASSUME EndpointsAssumption == NoEndpoint \notin Endpoints /\ Endpoints # {}
ASSUME BoundsAssumption == MaxPauseDepth \in Nat /\ MaxStarts \in Nat

VARIABLES
    endpoint_url,         \* context->endpoint_url, under configuration_mutex
    stop_requested,
    task_handle,          \* TRUE while the task exists
    pc,                   \* where the task is
    local_endpoint,       \* the copy the running attempt uses
    ua_client,            \* the open62541 client object of the task
    subscription_id,      \* TRUE while the session has a data subscription
    state,                \* the published status
    network,              \* network_is_ready()
    clock,                \* time_sync_is_valid()
    memory,               \* UA_Client_new and xTaskCreate find memory
    service,              \* service[e]: connecting to e and browsing it succeed
    starts,               \* bound counter of start calls
    attemptsWhilePaused   \* history: attempts begun since the pause began

callerVars == <<endpoint_url, pause_depth, pause_requested, stop_requested>>
attemptVars == <<local_endpoint, ua_client, subscription_id>>
envVars == <<network, clock, memory, service>>
boundVars == <<starts, attemptsWhilePaused>>
vars == <<callerVars, reconnect_requested, task_handle, pc, attemptVars, state,
          envVars, boundVars>>

States == {"STOPPED", "PAUSED", "WAITING_FOR_WIFI", "WAITING_FOR_TIME",
           "CONNECTING", "BROWSING", "CONNECTED", "CONNECTION_ERROR",
           "BROWSE_ERROR"}

GatePcs == {"loop", "pause", "wifi", "time", "snapshot"}
AttemptPcs == {"create", "connect", "discover", "subscribe", "session",
               "exit", "disconnect"}
RunningPcs == GatePcs \union AttemptPcs \union {"retry", "epilogue"}

Init ==
    /\ endpoint_url \in Endpoints
    /\ PauseInit
    /\ stop_requested = FALSE
    /\ task_handle = FALSE
    /\ pc = "off"
    /\ local_endpoint = NoEndpoint
    /\ ua_client = "none"
    /\ subscription_id = FALSE
    /\ state = "STOPPED"
    /\ network \in BOOLEAN
    /\ clock \in BOOLEAN
    /\ memory = TRUE
    /\ service \in [Endpoints -> BOOLEAN]
    /\ starts = 0
    /\ attemptsWhilePaused = 0

----------------------------------------------------------------------------
\* Calls made by other tasks.

\* Refused while a task exists.  The flags are reset without the mutex before
\* the task is created, and stay reset when it cannot be.
Start ==
    /\ ~task_handle
    /\ starts < MaxStarts
    /\ starts' = starts + 1
    /\ stop_requested' = FALSE
    /\ pause_requested' = FALSE
    /\ pause_depth' = 0
    /\ attemptsWhilePaused' = 0
    /\ task_handle' = memory
    /\ pc' = IF memory THEN "loop" ELSE pc
    /\ UNCHANGED <<endpoint_url, reconnect_requested, attemptVars, state, envVars>>

Stop ==
    /\ stop_requested' = TRUE
    /\ UNCHANGED <<endpoint_url, pause_depth, pause_requested, reconnect_requested,
                   task_handle, pc, attemptVars, state, envVars, boundVars>>

Pause ==
    /\ pause_depth < MaxPauseDepth
    /\ PauseCall
    /\ attemptsWhilePaused' = IF pause_requested THEN attemptsWhilePaused ELSE 0
    /\ UNCHANGED <<endpoint_url, stop_requested, task_handle, pc, attemptVars,
                   state, envVars, starts>>

Resume ==
    /\ ResumeCall
    /\ UNCHANGED <<endpoint_url, stop_requested, task_handle, pc, attemptVars, state,
                   envVars, boundVars>>

SetEndpoint ==
    /\ endpoint_url' \in Endpoints
    /\ reconnect_requested' = TRUE
    /\ UNCHANGED <<pause_depth, pause_requested, stop_requested, task_handle, pc,
                   attemptVars, state, envVars, boundVars>>

Caller == Start \/ Stop \/ Pause \/ Resume \/ SetEndpoint

----------------------------------------------------------------------------
\* Steps of the task.

TaskOnly == UNCHANGED <<callerVars, envVars, boundVars>>

\* set_status; its text for the screen is left out.
SetStatus(new_state) == state' = new_state

TaskLoop ==
    /\ pc = "loop"
    /\ pc' = IF stop_requested THEN "epilogue" ELSE "pause"
    /\ TaskOnly
    /\ UNCHANGED <<reconnect_requested, task_handle, attemptVars, state>>

\* Mutant: a paused task does not look at stop_requested.
PauseGateDeaf ==
    /\ pc = "pause"
    /\ IF pause_requested
       THEN SetStatus("PAUSED") /\ pc' = pc
       ELSE pc' = (IF stop_requested THEN "epilogue" ELSE "wifi") /\ UNCHANGED state
    /\ TaskOnly
    /\ UNCHANGED <<reconnect_requested, task_handle, attemptVars>>

PauseGate ==
    /\ pc = "pause"
    /\ \/ /\ stop_requested
          /\ pc' = "epilogue"
          /\ UNCHANGED state
       \/ /\ ~stop_requested /\ pause_requested
          /\ SetStatus("PAUSED")
          /\ UNCHANGED pc
       \/ /\ ~stop_requested /\ ~pause_requested
          /\ pc' = "wifi"
          /\ UNCHANGED state
    /\ TaskOnly
    /\ UNCHANGED <<reconnect_requested, task_handle, attemptVars>>

\* Wait for Wi-Fi ("wifi") and then for the wall clock ("time"): a pause sends
\* the task back to the top of the loop.
ReadinessGate(here, ready, next, waiting) ==
    /\ pc = here
    /\ \/ /\ stop_requested
          /\ pc' = "epilogue"
          /\ UNCHANGED state
       \/ /\ ~stop_requested /\ pause_requested
          /\ pc' = "loop"
          /\ UNCHANGED state
       \/ /\ ~stop_requested /\ ~pause_requested /\ ready
          /\ pc' = next
          /\ UNCHANGED state
       \/ /\ ~stop_requested /\ ~pause_requested /\ ~ready
          /\ SetStatus(waiting)
          /\ UNCHANGED pc
    /\ TaskOnly
    /\ UNCHANGED <<reconnect_requested, task_handle, attemptVars>>

WifiGate == ReadinessGate("wifi", network, "time", "WAITING_FOR_WIFI")
TimeGate == ReadinessGate("time", clock, "snapshot", "WAITING_FOR_TIME")

\* Mutant: the request is not consumed, so every session ends at once.
SnapshotKeepsRequest ==
    /\ pc = "snapshot"
    /\ pc' = "create"
    /\ local_endpoint' = endpoint_url
    /\ attemptsWhilePaused' = IF pause_requested THEN attemptsWhilePaused + 1 ELSE 0
    /\ UNCHANGED <<callerVars, reconnect_requested, task_handle, ua_client,
                   subscription_id, state, envVars, starts>>

\* Under configuration_mutex: copy the endpoint and take the request together.
\* The pause flag is not read again here.
SnapshotEndpoint ==
    /\ pc = "snapshot"
    /\ pc' = "create"
    /\ local_endpoint' = endpoint_url
    /\ reconnect_requested' = FALSE
    /\ attemptsWhilePaused' = IF pause_requested THEN attemptsWhilePaused + 1 ELSE 0
    /\ UNCHANGED <<callerVars, task_handle, ua_client, subscription_id, state,
                   envVars, starts>>

CreateClient ==
    /\ pc = "create"
    /\ \/ /\ memory
          /\ ua_client' = "created"
          /\ SetStatus("CONNECTING")
          /\ pc' = "connect"
       \/ /\ ~memory
          /\ SetStatus("CONNECTION_ERROR")
          /\ pc' = "retry"
          /\ UNCHANGED ua_client
    /\ TaskOnly
    /\ UNCHANGED <<reconnect_requested, task_handle, local_endpoint, subscription_id>>

Reachable == network /\ service[local_endpoint]

\* Mutant: the failed attempt's client object is not deleted.
ConnectLeaks ==
    /\ pc = "connect"
    /\ IF Reachable
       THEN ua_client' = "open" /\ SetStatus("BROWSING") /\ pc' = "discover"
       ELSE UNCHANGED ua_client /\ SetStatus("CONNECTION_ERROR") /\ pc' = "retry"
    /\ TaskOnly
    /\ UNCHANGED <<reconnect_requested, task_handle, local_endpoint, subscription_id>>

Connect ==
    /\ pc = "connect"
    /\ \/ /\ Reachable
          /\ ua_client' = "open"
          /\ SetStatus("BROWSING")
          /\ pc' = "discover"
       \/ /\ ~Reachable
          /\ ua_client' = "none"
          /\ SetStatus("CONNECTION_ERROR")
          /\ pc' = "retry"
    /\ TaskOnly
    /\ UNCHANGED <<reconnect_requested, task_handle, local_endpoint, subscription_id>>

\* discover_address_space as one step; module HmiPipeline opens it up.
Discover ==
    /\ pc = "discover"
    /\ \/ /\ Reachable
          /\ pc' = "subscribe"
          /\ UNCHANGED <<state, ua_client>>
       \/ /\ ~Reachable
          /\ ua_client' = "none"
          /\ SetStatus("BROWSE_ERROR")
          /\ pc' = "retry"
    /\ TaskOnly
    /\ UNCHANGED <<reconnect_requested, task_handle, local_endpoint, subscription_id>>

\* A session without a subscription is still entered and reported CONNECTED.
CreateSubscriptions ==
    /\ pc = "subscribe"
    /\ subscription_id' \in {Reachable, FALSE}
    /\ SetStatus("CONNECTED")
    /\ pc' = "session"
    /\ TaskOnly
    /\ UNCHANGED <<reconnect_requested, task_handle, local_endpoint, ua_client>>

\* Mutant: the session loop relies on reconnect_requested to notice a pause.
SessionIgnoresPause ==
    /\ pc = "session"
    /\ pc' = IF stop_requested \/ reconnect_requested \/ ~Reachable
             THEN "exit" ELSE pc
    /\ TaskOnly
    /\ UNCHANGED <<reconnect_requested, task_handle, attemptVars, state>>

\* Mutant: the session goes on over a change of the endpoint.
SessionIgnoresRequest ==
    /\ pc = "session"
    /\ pc' = IF stop_requested \/ pause_requested \/ ~Reachable THEN "exit" ELSE pc
    /\ TaskOnly
    /\ UNCHANGED <<reconnect_requested, task_handle, attemptVars, state>>

\* One turn of the session loop; a broken connection shows as a failed
\* iteration.  The writes a turn serves are module HmiPipeline's.
Session ==
    /\ pc = "session"
    /\ pc' = IF stop_requested \/ pause_requested \/ reconnect_requested \/ ~Reachable
             THEN "exit" ELSE pc
    /\ TaskOnly
    /\ UNCHANGED <<reconnect_requested, task_handle, attemptVars, state>>

\* Mutants: the request is dropped with the session it ended; the status stays
\* CONNECTED when the connection was lost.
ExitDropsRequest ==
    /\ pc = "exit"
    /\ state' = IF pause_requested THEN "PAUSED"
                ELSE IF reconnect_requested THEN "CONNECTING"
                ELSE "CONNECTION_ERROR"
    /\ reconnect_requested' = FALSE
    /\ pc' = "disconnect"
    /\ TaskOnly
    /\ UNCHANGED <<task_handle, attemptVars>>

ExitKeepsStatus ==
    /\ pc = "exit"
    /\ state' = IF pause_requested THEN "PAUSED"
                ELSE IF reconnect_requested THEN "CONNECTING" ELSE state
    /\ pc' = "disconnect"
    /\ TaskOnly
    /\ UNCHANGED <<reconnect_requested, task_handle, attemptVars>>

ReportSessionEnd ==
    /\ pc = "exit"
    /\ SetStatus(CASE pause_requested -> "PAUSED"
                    [] ~pause_requested /\ reconnect_requested -> "CONNECTING"
                    [] OTHER -> "CONNECTION_ERROR")
    /\ pc' = "disconnect"
    /\ TaskOnly
    /\ UNCHANGED <<reconnect_requested, task_handle, attemptVars>>

Disconnect ==
    /\ pc = "disconnect"
    /\ ua_client' = "none"
    /\ subscription_id' = FALSE
    /\ pc' = "retry"
    /\ TaskOnly
    /\ UNCHANGED <<reconnect_requested, task_handle, local_endpoint, state>>

\* Mutant: the retry goes straight back to the attempt, past the gates.
RetrySkipsGates ==
    /\ pc = "retry"
    /\ pc' = IF stop_requested THEN "loop" ELSE "snapshot"
    /\ TaskOnly
    /\ UNCHANGED <<reconnect_requested, task_handle, attemptVars, state>>

\* wait_for_retry returns when the delay is over, or earlier on a stop or a pause;
\* a changed endpoint does not shorten it.
WaitForRetry ==
    /\ pc = "retry"
    /\ pc' = "loop"
    /\ TaskOnly
    /\ UNCHANGED <<reconnect_requested, task_handle, attemptVars, state>>

Epilogue ==
    /\ pc = "epilogue"
    /\ SetStatus("STOPPED")
    /\ task_handle' = FALSE
    /\ pc' = "off"
    /\ TaskOnly
    /\ UNCHANGED <<reconnect_requested, attemptVars>>

ClientTask ==
    \/ TaskLoop \/ PauseGate \/ WifiGate \/ TimeGate
    \/ SnapshotEndpoint \/ CreateClient \/ Connect \/ Discover
    \/ CreateSubscriptions \/ Session \/ ReportSessionEnd \/ Disconnect
    \/ WaitForRetry \/ Epilogue

----------------------------------------------------------------------------
\* The surroundings: the link, the heap and the servers come and go; the wall
\* clock, once synchronised, stays valid.

NetworkChanges ==
    /\ network' = ~network
    /\ UNCHANGED <<callerVars, reconnect_requested, task_handle, pc, attemptVars,
                   state, clock, memory, service, boundVars>>

ClockSynchronizes ==
    /\ ~clock
    /\ clock' = TRUE
    /\ UNCHANGED <<callerVars, reconnect_requested, task_handle, pc, attemptVars,
                   state, network, memory, service, boundVars>>

MemoryChanges ==
    /\ memory' = ~memory
    /\ UNCHANGED <<callerVars, reconnect_requested, task_handle, pc, attemptVars,
                   state, network, clock, service, boundVars>>

ServiceChanges(e) ==
    /\ service' = [service EXCEPT ![e] = ~@]
    /\ UNCHANGED <<callerVars, reconnect_requested, task_handle, pc, attemptVars,
                   state, network, clock, memory, boundVars>>

Environment ==
    \/ NetworkChanges \/ ClockSynchronizes \/ MemoryChanges
    \/ \E e \in Endpoints : ServiceChanges(e)

Next == Caller \/ ClientTask \/ Environment

\* The task runs whenever it is ready and each of its blocking calls has a
\* timeout; no caller and no part of the surroundings is obliged to act.
Fairness == WF_vars(ClientTask)

Spec == Init /\ [][Next]_vars
FairSpec == Spec /\ Fairness

----------------------------------------------------------------------------
\* Properties.

\* Every variable keeps its type; the pause depth never underflows.
TypeOK ==
    /\ endpoint_url \in Endpoints
    /\ local_endpoint \in Endpoints \union {NoEndpoint}
    /\ pause_depth \in 0..MaxPauseDepth
    /\ pc \in RunningPcs \union {"off"}
    /\ ua_client \in {"none", "created", "open"}
    /\ state \in States
    /\ reconnect_requested \in BOOLEAN /\ pause_requested \in BOOLEAN
    /\ stop_requested \in BOOLEAN /\ task_handle \in BOOLEAN
    /\ subscription_id \in BOOLEAN
    /\ network \in BOOLEAN /\ clock \in BOOLEAN /\ memory \in BOOLEAN
    /\ service \in [Endpoints -> BOOLEAN]
    /\ starts \in 0..MaxStarts
    /\ attemptsWhilePaused \in Nat

\* An endpoint change is never lost: whatever the task is doing on its copy of
\* the endpoint, the copy is the configured one or the request to reconnect is
\* still standing (set_endpoint against the snapshot, the session and the
\* session's end).
EndpointChangeNotLost ==
    pc \in AttemptPcs => local_endpoint = endpoint_url \/ reconnect_requested

\* However long a pause lasts and however often it is nested, the task begins
\* at most one connection attempt during it: the one it was past the gates for
\* when the pause came.
AtMostOneAttemptWhilePaused ==
    pause_requested => attemptsWhilePaused <= 1

\* What the status line says is so: CONNECTED and BROWSING only over an open
\* connection; and outside an attempt, and once the task has ended, neither a
\* client object nor a subscription is left behind.
StatusAndResourcesAgree ==
    /\ state \in {"CONNECTED", "BROWSING"} => ua_client = "open"
    /\ pc \notin AttemptPcs => ua_client = "none"
    /\ subscription_id => ua_client = "open"
    /\ ~task_handle => pc = "off" /\ state = "STOPPED"

\* opcua_client_stop: the task ends, whatever it was waiting for, unless a later
\* start has taken the request back.
StopTerminates == stop_requested ~> ~task_handle

\* opcua_client_pause: the connection is closed, unless the pause ends first.
PauseQuiesces == pause_requested ~> (ua_client = "none" \/ ~pause_requested)

\* Once the conditions hold for good and set_endpoint is no longer called (each
\* call, even with the same URL, asks for a reconnect), the task ends up in a
\* session on the configured endpoint and stays there, whatever came before.
ConditionsHold ==
    /\ task_handle /\ ~stop_requested /\ ~pause_requested
    /\ network /\ clock /\ memory /\ service[endpoint_url]

MonitorsConfiguredEndpoint ==
    pc = "session" /\ state = "CONNECTED" /\ local_endpoint = endpoint_url

EventuallyMonitors ==
    <>[]ConditionsHold /\ <>[][~SetEndpoint]_vars => <>[]MonitorsConfiguredEndpoint

\* The task implements the abstract EndpointSession: each attempt, from the
\* snapshot to the disconnect, is one connection to the endpoint configured at the
\* snapshot, and a request to reconnect, whenever it comes, is followed by the end
\* of the connection it found.
Promise ==
    INSTANCE EndpointSession WITH
        configured <- endpoint_url,
        connection <- IF pc \in AttemptPcs THEN local_endpoint ELSE NoEndpoint,
        outdated <- reconnect_requested

ImplementsEndpointSession == Promise!SessionSpec

\* The part of it without fairness.
StepsOfEndpointSession ==
    Promise!SessionInit /\ [][Promise!SessionNext]_(Promise!sessionVars)
=============================================================================
