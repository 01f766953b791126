------------------------- MODULE OpcuaClientProofs -------------------------
(***************************************************************************)
(* Proofs of the safety properties of OpcuaClient, for every set of        *)
(* endpoints and every bound.                                              *)
(***************************************************************************)
EXTENDS OpcuaClient, TLAPS

USE DEF SetStatus

\* What the task holds and shows at each point of its loop.
IdleInv ==
    pc \notin AttemptPcs \ {"create"} =>
        ua_client = "none" /\ ~subscription_id /\ state \notin {"CONNECTED", "BROWSING"}

AttemptInv ==
    /\ pc = "connect" =>
           ua_client = "created" /\ ~subscription_id /\ state = "CONNECTING"
    /\ pc \in {"discover", "subscribe"} =>
           ua_client = "open" /\ ~subscription_id /\ state = "BROWSING"
    /\ pc \in {"session", "exit"} => ua_client = "open" /\ state = "CONNECTED"
    /\ pc = "disconnect" =>
           ua_client = "open" /\ state \notin {"CONNECTED", "BROWSING"}

HandleInv ==
    /\ task_handle <=> pc # "off"
    /\ pc = "off" => state = "STOPPED"

\* The flag follows the depth, and a paused task that has begun an attempt is
\* not about to begin another: it would have to pass the gates again.
PauseInv ==
    /\ pause_requested <=> pause_depth > 0
    /\ pause_requested => attemptsWhilePaused <= 1
    /\ pause_requested /\ attemptsWhilePaused = 1 => pc # "snapshot"

\* An attempt has its endpoint.
HeldEndpoint == pc \in AttemptPcs => local_endpoint \in Endpoints

IInv ==
    /\ TypeOK
    /\ HeldEndpoint
    /\ EndpointChangeNotLost
    /\ IdleInv
    /\ AttemptInv
    /\ HandleInv
    /\ PauseInv

----------------------------------------------------------------------------
\* Each conjunct of IInv holds initially and is kept by every step.

LEMMA InitInv == Init => IInv
<1> SUFFICES ASSUME Init PROVE IInv
  OBVIOUS
<1>1. TypeOK
  <2>1. pause_depth \in 0..MaxPauseDepth /\ starts \in 0..MaxStarts
        /\ attemptsWhilePaused \in Nat
    BY BoundsAssumption DEF Init, PauseInit
  <2>2. pc \in RunningPcs \union {"off"} /\ state \in States
        /\ ua_client \in {"none", "created", "open"}
        /\ local_endpoint \in Endpoints \union {NoEndpoint}
    BY DEF Init, States
  <2> QED
    BY <2>1, <2>2 DEF Init, PauseInit, TypeOK
<1>2. EndpointChangeNotLost /\ HeldEndpoint /\ IdleInv /\ AttemptInv /\ HandleInv
  BY DEF Init, PauseInit, EndpointChangeNotLost, HeldEndpoint, IdleInv, AttemptInv,
         HandleInv, AttemptPcs
<1>3. PauseInv
  BY DEF Init, PauseInit, PauseInv
<1> QED
  BY <1>1, <1>2, <1>3 DEF IInv

\* The calls of other tasks.
LEMMA CallerStep == IInv /\ Caller => IInv'
<1> SUFFICES ASSUME IInv, Caller PROVE IInv'
  OBVIOUS
<1> USE BoundsAssumption
    DEF IInv, TypeOK, EndpointChangeNotLost, HeldEndpoint, IdleInv, AttemptInv, HandleInv,
        PauseInv,
        AttemptPcs, RunningPcs, GatePcs, States, attemptVars, envVars, boundVars
<1>1. CASE Start
  <2>1. starts' \in 0..MaxStarts /\ pause_depth' \in 0..MaxPauseDepth
    BY <1>1 DEF Start
  <2>2. pc' \in {"loop", "off"} /\ (task_handle' <=> pc' # "off")
    BY <1>1 DEF Start
  <2>3. PauseInv'
    BY <1>1 DEF Start
  <2> QED
    BY <1>1, <2>1, <2>2, <2>3 DEF Start
<1>2. CASE Stop
  BY <1>2 DEF Stop
<1>3. CASE Pause
  BY <1>3 DEF Pause, PauseCall
<1>4. CASE Resume
  <2>1. pause_depth' \in 0..MaxPauseDepth
    BY <1>4 DEF Resume, ResumeCall
  <2>2. pause_requested' \in BOOLEAN /\ (pause_requested' <=> pause_depth' > 0)
    <3>1. pause_requested' = (pause_depth' > 0)
      BY <1>4 DEF Resume, ResumeCall
    <3>2. pause_requested' = TRUE \/ pause_requested' = FALSE
      BY <3>1
    <3> QED
      BY <3>1, <3>2
  <2>3. pause_requested' => pause_requested
    BY <1>4, <2>2 DEF Resume, ResumeCall
  <2> QED
    BY <1>4, <2>1, <2>2, <2>3 DEF Resume, ResumeCall
<1>5. CASE SetEndpoint
  BY <1>5 DEF SetEndpoint
<1> QED
  BY <1>1, <1>2, <1>3, <1>4, <1>5 DEF Caller

\* The gates of the task's loop.
LEMMA GateStep ==
  IInv /\ (TaskLoop \/ PauseGate \/ WifiGate \/ TimeGate) => IInv'
<1> SUFFICES ASSUME IInv, TaskLoop \/ PauseGate \/ WifiGate \/ TimeGate PROVE IInv'
  OBVIOUS
<1> USE BoundsAssumption
    DEF IInv, TypeOK, EndpointChangeNotLost, HeldEndpoint, IdleInv, AttemptInv, HandleInv,
        PauseInv,
        AttemptPcs, RunningPcs, GatePcs, States, TaskOnly, callerVars, attemptVars,
        envVars, boundVars
<1>1. CASE TaskLoop
  BY <1>1 DEF TaskLoop
<1>2. CASE PauseGate
  BY <1>2 DEF PauseGate
<1>3. CASE WifiGate
  BY <1>3 DEF WifiGate, ReadinessGate
<1>4. CASE TimeGate
  BY <1>4 DEF TimeGate, ReadinessGate
<1> QED
  BY <1>1, <1>2, <1>3, <1>4

\* The steps of an attempt, of its retry delay and of the task's end.
LEMMA AttemptStep ==
  IInv /\ (SnapshotEndpoint \/ CreateClient \/ Connect \/ Discover
           \/ CreateSubscriptions \/ Session \/ ReportSessionEnd \/ Disconnect
           \/ WaitForRetry \/ Epilogue) => IInv'
<1> SUFFICES ASSUME IInv,
                    SnapshotEndpoint \/ CreateClient \/ Connect \/ Discover
                    \/ CreateSubscriptions \/ Session \/ ReportSessionEnd
                    \/ Disconnect \/ WaitForRetry \/ Epilogue
             PROVE IInv'
  OBVIOUS
<1> USE BoundsAssumption
    DEF IInv, TypeOK, EndpointChangeNotLost, HeldEndpoint, IdleInv, AttemptInv, HandleInv,
        PauseInv,
        AttemptPcs, RunningPcs, GatePcs, States, TaskOnly, callerVars, attemptVars,
        envVars, boundVars
<1>1. CASE SnapshotEndpoint
  <2>1. attemptsWhilePaused' \in Nat
    BY <1>1 DEF SnapshotEndpoint
  <2>2. PauseInv'
    <3>1. pause_requested => attemptsWhilePaused = 0
      BY <1>1 DEF SnapshotEndpoint
    <3> QED
      BY <1>1, <3>1 DEF SnapshotEndpoint
  <2> QED
    BY <1>1, <2>1, <2>2 DEF SnapshotEndpoint
<1>2. CASE CreateClient
  BY <1>2 DEF CreateClient
<1>3. CASE Connect
  BY <1>3 DEF Connect
<1>4. CASE Discover
  BY <1>4 DEF Discover
<1>5. CASE CreateSubscriptions
  <2>1. subscription_id' \in BOOLEAN
    BY <1>5 DEF CreateSubscriptions, Reachable
  <2> QED
    BY <1>5, <2>1 DEF CreateSubscriptions
<1>6. CASE Session
  BY <1>6 DEF Session
<1>7. CASE ReportSessionEnd
  <2>1. state' \in {"PAUSED", "CONNECTING", "CONNECTION_ERROR"}
    BY <1>7 DEF ReportSessionEnd
  <2>2. TypeOK'
    BY <1>7, <2>1 DEF ReportSessionEnd
  <2>3. (AttemptInv /\ HandleInv /\ IdleInv)'
    BY <1>7, <2>1 DEF ReportSessionEnd
  <2> QED
    BY <1>7, <2>2, <2>3 DEF ReportSessionEnd
<1>8. CASE Disconnect
  <2>1. TypeOK'
    BY <1>8 DEF Disconnect
  <2>2. (AttemptInv /\ HandleInv /\ IdleInv)'
    BY <1>8 DEF Disconnect
  <2> QED
    BY <1>8, <2>1, <2>2 DEF Disconnect
<1>9. CASE WaitForRetry
  BY <1>9 DEF WaitForRetry
<1>10. CASE Epilogue
  BY <1>10 DEF Epilogue
<1> QED
  BY <1>1, <1>2, <1>3, <1>4, <1>5, <1>6, <1>7, <1>8, <1>9, <1>10

\* The surroundings touch none of the client's state.
LEMMA EnvironmentStep == IInv /\ Environment => IInv'
<1> SUFFICES ASSUME IInv, Environment PROVE IInv'
  OBVIOUS
<1> USE DEF IInv, TypeOK, EndpointChangeNotLost, HeldEndpoint, IdleInv, AttemptInv, HandleInv,
        PauseInv, callerVars, attemptVars, boundVars
<1>1. CASE NetworkChanges
  BY <1>1 DEF NetworkChanges
<1>2. CASE ClockSynchronizes
  BY <1>2 DEF ClockSynchronizes
<1>3. CASE MemoryChanges
  BY <1>3 DEF MemoryChanges
<1>4. ASSUME NEW e \in Endpoints, ServiceChanges(e) PROVE IInv'
  BY <1>4 DEF ServiceChanges
<1> QED
  BY <1>1, <1>2, <1>3, <1>4 DEF Environment

\* The conjunction is an invariant of every behaviour.
THEOREM Inductive == Spec => []IInv
<1>1. Init => IInv
  BY InitInv
<1>2. IInv /\ [Next]_vars => IInv'
  <2> SUFFICES ASSUME IInv, [Next]_vars PROVE IInv'
    OBVIOUS
  <2>1. CASE Caller
    BY <2>1, CallerStep
  <2>2. CASE ClientTask
    BY <2>2, GateStep, AttemptStep DEF ClientTask
  <2>3. CASE Environment
    BY <2>3, EnvironmentStep
  <2>4. CASE UNCHANGED vars
    BY <2>4
    DEF vars, callerVars, attemptVars, envVars, boundVars, IInv, TypeOK,
        EndpointChangeNotLost, HeldEndpoint, IdleInv, AttemptInv, HandleInv, PauseInv
  <2> QED
    BY <2>1, <2>2, <2>3, <2>4 DEF Next
<1> QED
  BY <1>1, <1>2, PTL DEF Spec

----------------------------------------------------------------------------
\* The theorems a reader should know.

\* Types are kept, for every set of endpoints and every bound; the pause depth
\* never underflows.
THEOREM TypeCorrect == Spec => []TypeOK
<1>1. IInv => TypeOK
  BY DEF IInv
<1> QED
  BY <1>1, Inductive, PTL

\* set_endpoint against the task: a change is either in use or still requested.
THEOREM EndpointNotLost == Spec => []EndpointChangeNotLost
<1>1. IInv => EndpointChangeNotLost
  BY DEF IInv
<1> QED
  BY <1>1, Inductive, PTL

\* A pause of any nesting and length sees at most one new connection attempt.
THEOREM OneAttempt == Spec => []AtMostOneAttemptWhilePaused
<1>1. IInv => AtMostOneAttemptWhilePaused
  BY DEF IInv, PauseInv, AtMostOneAttemptWhilePaused
<1> QED
  BY <1>1, Inductive, PTL

\* The published status and the open62541 objects agree in every reachable state.
THEOREM StatusAgrees == Spec => []StatusAndResourcesAgree
<1>1. IInv => StatusAndResourcesAgree
  BY DEF IInv, TypeOK, IdleInv, AttemptInv, HandleInv, StatusAndResourcesAgree,
         AttemptPcs, RunningPcs, GatePcs
<1> QED
  BY <1>1, Inductive, PTL

----------------------------------------------------------------------------
\* The task implements EndpointSession step by step.

\* A call of another task configures, interrupts or changes nothing.
LEMMA CallerRefines ==
    IInv /\ Caller => [Promise!SessionNext]_(Promise!sessionVars)
<1> SUFFICES ASSUME IInv, Caller PROVE [Promise!SessionNext]_(Promise!sessionVars)
  OBVIOUS
<1> USE DEF Promise!sessionVars, Promise!SessionNext, attemptVars, envVars, boundVars
<1>1. CASE Start
  <2>1. pc = "off" /\ pc' \in {"loop", "off"}
    BY <1>1 DEF Start, IInv, HandleInv
  <2> QED
    BY <1>1, <2>1 DEF Start, AttemptPcs
<1>2. CASE Stop
  BY <1>2 DEF Stop
<1>3. CASE Pause
  BY <1>3 DEF Pause, PauseCall, Promise!Interrupt
<1>4. CASE Resume
  BY <1>4 DEF Resume, ResumeCall
<1>5. CASE SetEndpoint
  BY <1>5 DEF SetEndpoint, Promise!Configure
<1> QED
  BY <1>1, <1>2, <1>3, <1>4, <1>5 DEF Caller

\* The snapshot opens the connection; a failure or the disconnect closes it; no
\* other step of the task moves it.
LEMMA TaskRefines ==
    IInv /\ ClientTask => [Promise!SessionNext]_(Promise!sessionVars)
<1> SUFFICES ASSUME IInv, ClientTask PROVE [Promise!SessionNext]_(Promise!sessionVars)
  OBVIOUS
<1> USE EndpointsAssumption
    DEF Promise!sessionVars, Promise!SessionNext, AttemptPcs, TaskOnly, callerVars,
        attemptVars, envVars, boundVars
<1>1. pc \in AttemptPcs => local_endpoint # NoEndpoint
  BY DEF IInv, TypeOK, HeldEndpoint
<1>2. CASE TaskLoop \/ PauseGate \/ WifiGate \/ TimeGate \/ WaitForRetry \/ Epilogue
  BY <1>2 DEF TaskLoop, PauseGate, WifiGate, TimeGate, ReadinessGate, WaitForRetry, Epilogue
<1>3. CASE SnapshotEndpoint
  BY <1>3 DEF SnapshotEndpoint, Promise!Open
<1>4. CASE CreateClient
  BY <1>1, <1>4 DEF CreateClient, Promise!Close
<1>5. CASE Connect
  BY <1>1, <1>5 DEF Connect, Promise!Close
<1>6. CASE Discover
  BY <1>1, <1>6 DEF Discover, Promise!Close
<1>7. CASE CreateSubscriptions \/ Session \/ ReportSessionEnd
  BY <1>7 DEF CreateSubscriptions, Session, ReportSessionEnd
<1>8. CASE Disconnect
  BY <1>1, <1>8 DEF Disconnect, Promise!Close
<1> QED
  BY <1>2, <1>3, <1>4, <1>5, <1>6, <1>7, <1>8 DEF ClientTask

\* Every behaviour of the client is one of EndpointSession: at most one connection,
\* to the endpoint configured when it began, and no request ever withdrawn without
\* a new connection.
THEOREM StepsRefine == Spec => StepsOfEndpointSession
<1>1. Init => Promise!SessionInit
  BY DEF Init, PauseInit, Promise!SessionInit, AttemptPcs
<1>2. IInv /\ [Next]_vars => [Promise!SessionNext]_(Promise!sessionVars)
  <2> SUFFICES ASSUME IInv, [Next]_vars PROVE [Promise!SessionNext]_(Promise!sessionVars)
    OBVIOUS
  <2>1. CASE Caller
    BY <2>1, CallerRefines
  <2>2. CASE ClientTask
    BY <2>2, TaskRefines
  <2>3. CASE Environment
    BY <2>3
    DEF Environment, NetworkChanges, ClockSynchronizes, MemoryChanges, ServiceChanges,
        Promise!sessionVars, callerVars, attemptVars, boundVars
  <2>4. CASE UNCHANGED vars
    BY <2>4 DEF vars, Promise!sessionVars, callerVars, attemptVars
  <2> QED
    BY <2>1, <2>2, <2>3, <2>4 DEF Next
<1> QED
  BY <1>1, <1>2, Inductive, PTL DEF Spec, StepsOfEndpointSession
=============================================================================
