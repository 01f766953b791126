-------------------------- MODULE WifiControlProofs --------------------------
(***************************************************************************)
(* Proofs about the Wi-Fi manager, for every set of networks, any number   *)
(* of requests, outages and power failures, and an event queue without     *)
(* bound.                                                                  *)
(***************************************************************************)
EXTENDS WifiControl, SequenceTheorems, TLAPS

USE DEF LoadWifiEnabled, SaveWifiEnabled

\* A handler that has decided to connect has lifted the suppression, and no other
\* handler runs before it connects.
ConnectInv == loop.at = "connect" => ~mgr.suppressed

IInv == TypeOK /\ ConnectInv /\ DisconnectIsRespected

----------------------------------------------------------------------------
\* The driver's calls.

LEMMA OneInSeq ==
    ASSUME NEW S, NEW e \in S
    PROVE  <<e>> \in Seq(S)
OBVIOUS

LEMMA NetworkTypes ==
    /\ NoText \in Texts /\ NoCredentials \in Credentials
    /\ \A n \in Texts : Entered(n) \in Credentials
    /\ \A c \in Credentials : c.ssid \in Texts /\ c.password \in Texts
BY DEF Texts, NoCredentials, Credentials, Entered

LEMMA DriverCalls ==
    ASSUME NEW w \in Interfaces, NEW c \in Credentials
    PROVE  /\ Connected(w) \in Interfaces
           /\ Configured(w, c) \in Interfaces /\ Configured(w, c).link = w.link
           /\ WifiConnect(w, c) \in Interfaces
           /\ Left(w) \in Interfaces /\ Left(w).link = "down"
           /\ LeavingEvents(w) \in Seq(Events)
<1>1. ASSUME NEW v \in Interfaces PROVE Connected(v) \in Interfaces
    <2>1. [v EXCEPT !.link = "trying", !.ap = v.config] \in Interfaces
        BY DEF Interfaces
    <2> QED BY <2>1 DEF Connected
<1>2. Configured(w, c) \in Interfaces /\ Configured(w, c).link = w.link
    <2>1. [w EXCEPT !.config = c] \in Interfaces /\ [w EXCEPT !.config = c].link = w.link
        BY DEF Interfaces
    <2> QED BY <2>1 DEF Configured
<1>3. WifiConnect(w, c) \in Interfaces
    BY <1>1, <1>2 DEF WifiConnect
<1>4. Left(w) \in Interfaces /\ Left(w).link = "down"
    BY DEF Left, Interfaces
<1>5. LeavingEvents(w) \in Seq(Events)
    <2>1. Event("DISCONNECTED", w.ap) \in Events
        BY DEF Event, Events, Interfaces
    <2>2. <<Event("DISCONNECTED", w.ap)>> \in Seq(Events)
        BY <2>1, OneInSeq
    <2> QED BY <2>2, EmptySeq DEF LeavingEvents
<1> QED BY <1>1, <1>2, <1>3, <1>4, <1>5

LEMMA QueueTypes ==
    ASSUME events \in Seq(Events), events # <<>>, NEW s \in Seq(Events)
    PROVE  /\ Head(events) \in Events /\ Tail(events) \in Seq(Events)
           /\ Tail(events) \o s \in Seq(Events)
BY HeadTailProperties, ConcatProperties

LEMMA HashTypes ==
    ASSUME NEW m \in Managers
    PROVE  /\ Hash(m) \in Hashes
           /\ Scheduled(m) \in Managers /\ Scheduled(m).suppressed = m.suppressed
<1>1. Hash(m) \in Hashes
    <2>1. m.ssid \in Texts /\ NoText \in Texts /\ m.started \in BOOLEAN /\ m.connected \in BOOLEAN
        BY NetworkTypes DEF Managers
    <2>2. (IF m.connected THEN m.ssid ELSE NoText) \in Texts
        BY <2>1
    <2> QED BY <2>1, <2>2, Zenon DEF Hash, Hashes
<1>2. /\ [m EXCEPT !.pending_save = TRUE, !.save_timer = TRUE] \in Managers
      /\ [m EXCEPT !.pending_save = TRUE, !.save_timer = TRUE].suppressed = m.suppressed
    BY DEF Managers
<1> QED BY <1>1, <1>2 DEF Scheduled

----------------------------------------------------------------------------
LEMMA LoadedTypes ==
    ASSUME NEW n \in [enabled : BOOLEAN, ssid : Texts, password : Texts]
    PROVE  Loaded(n) \in Managers /\ ~Loaded(n).suppressed
<1> DEFINE saved == n.enabled /\ n.ssid # NoText
<1>1. /\ saved \in BOOLEAN
      /\ (IF saved THEN n.ssid ELSE NoText) \in Texts
      /\ (IF saved THEN n.password ELSE NoText) \in Texts
    BY NetworkTypes
<1>2. <<>> \in Hashes
    BY DEF Hashes
<1> QED BY <1>1, <1>2 DEF Loaded, Managers

LEMMA BootTypes ==
    /\ BootEvents \in Seq(Events) /\ DriverOff \in Interfaces
    /\ Idle \in Loops /\ TimerIdle \in TimerTasks /\ FormIdle \in Credentials
<1>1. Event("ENABLE", NoCredentials) \in Events
    BY NetworkTypes DEF Event, Events
<1>2. BootEvents \in Seq(Events)
    BY <1>1 DEF BootEvents
<1>3. <<>> \in Hashes
    BY DEF Hashes
<1> QED BY <1>2, <1>3, NetworkTypes DEF DriverOff, Interfaces, Idle, Loops, TimerIdle,
        TimerTasks, FormIdle

LEMMA InitInv == Init => IInv
<1> SUFFICES ASSUME Init PROVE IInv
    OBVIOUS
<1>1. PICK n \in Texts : nvs = [enabled |-> n # NoText, ssid |-> n, password |-> n]
    BY DEF Init, Texts
<1>2. nvs \in [enabled : BOOLEAN, ssid : Texts, password : Texts]
    BY <1>1
<1>3. mgr \in Managers /\ ~mgr.suppressed
    BY <1>2, LoadedTypes DEF Init
<1>4. TypeOK
    BY <1>2, <1>3, BootTypes, NetworkTypes DEF Init, TypeOK, DriverTypeOK
<1> QED BY <1>3, <1>4 DEF IInv, ConnectInv, DisconnectIsRespected

----------------------------------------------------------------------------
\* The event loop.

LEMMA OverlapIsRace ==
    ASSUME NEW m PROVE Overlap(m) \subseteq {"overlap"}
BY DEF Overlap

\* What has to be shown of a handler.
LEMMA HandlerKeeps ==
    ASSUME IInv, NEW m \in Managers, NEW races \in SUBSET (Races \ {"undone"}),
           \/ Becomes(m, races)
           \/ m = mgr /\ UNCHANGED <<mgr, disturbed>>,
           HandlerFrame, UNCHANGED inputs,
           wifi' \in Interfaces, events' \in Seq(Events), loop' \in Loops, dialog' \in Texts,
           loop'.at = "connect" => ~m.suppressed,
           m.suppressed => wifi'.link = "down" \/ (mgr.suppressed /\ wifi'.link = wifi.link)
    PROVE  IInv'
<1>1. mgr' = m /\ disturbed' \subseteq Races /\ ("undone" \in disturbed' => "undone" \in disturbed)
      /\ disturbed \subseteq disturbed'
    BY OverlapIsRace DEF Becomes, IInv, TypeOK, Races
<1>2. TypeOK'
    BY <1>1 DEF IInv, TypeOK, DriverTypeOK, HandlerFrame, storeVars
<1>3. ConnectInv' /\ DisconnectIsRespected'
    BY <1>1 DEF IInv, ConnectInv, DisconnectIsRespected
<1> QED BY <1>2, <1>3 DEF IInv

LEMMA EnableStep == IInv /\ EnableRequest => IInv'
<1> SUFFICES ASSUME IInv, EnableRequest PROVE IInv'
    OBVIOUS
<1> DEFINE m == [mgr EXCEPT !.suppressed = FALSE]
           posted == IF wifi.on THEN <<>> ELSE <<Event("START", NoCredentials)>>
<1>1. m \in Managers /\ ~m.suppressed
    BY DEF IInv, TypeOK, Managers
<1>2. wifi' \in Interfaces
    BY DEF EnableRequest, IInv, TypeOK, DriverTypeOK, Interfaces
<1>3. events' \in Seq(Events)
    <2>1. Event("START", NoCredentials) \in Events
        BY NetworkTypes DEF Event, Events
    <2>2. posted \in Seq(Events)
        BY <2>1, OneInSeq, EmptySeq
    <2> QED BY <2>2, QueueTypes DEF EnableRequest, Take, IInv, TypeOK, DriverTypeOK
<1>4. /\ Becomes(m, {}) /\ HandlerFrame /\ UNCHANGED <<loop, userVars>>
    BY DEF EnableRequest
<1>5. loop' \in Loops /\ dialog' \in Texts /\ UNCHANGED inputs
    BY <1>4 DEF IInv, TypeOK, userVars
<1> HIDE DEF m
<1> QED BY <1>1, <1>2, <1>3, <1>4, <1>5, HandlerKeeps

LEMMA StartedStep == IInv /\ StationStarted => IInv'
<1> SUFFICES ASSUME IInv, StationStarted PROVE IInv'
    OBVIOUS
<1> DEFINE m == [mgr EXCEPT !.started = TRUE, !.suppressed = FALSE]
           automatic == m.auto_connect /\ m.ssid # NoText /\ m.password # NoText
           target == [ssid |-> m.ssid, password |-> m.password]
           n == IF automatic THEN m ELSE Scheduled(m)
<1>1. m \in Managers /\ ~m.suppressed
    BY DEF IInv, TypeOK, Managers
<1>2. n \in Managers /\ ~n.suppressed
    BY <1>1, HashTypes
<1>3. loop' \in Loops
    <2>1. target \in Credentials
        BY <1>1 DEF Managers, Credentials
    <2>2. [at |-> "connect", target |-> target, save |-> TRUE] \in Loops
        BY <2>1 DEF Loops
    <2> QED BY <2>2, BootTypes DEF StationStarted
<1>4. events' \in Seq(Events)
    BY EmptySeq, QueueTypes DEF StationStarted, Take, IInv, TypeOK, DriverTypeOK
<1>5. Becomes(n, {}) /\ HandlerFrame /\ UNCHANGED <<wifi, userVars>>
    BY DEF StationStarted
<1>6. wifi' \in Interfaces /\ dialog' \in Texts /\ UNCHANGED inputs
    BY <1>5 DEF IInv, TypeOK, DriverTypeOK, userVars
<1> HIDE DEF n
<1> QED BY <1>2, <1>3, <1>4, <1>5, <1>6, HandlerKeeps

\* A handler that only notes what it was told.
LEMMA NoteKeeps ==
    ASSUME IInv, NEW m \in Managers, NEW races \in SUBSET (Races \ {"undone"}),
           events \in Seq(Events), events # <<>>, events' = Tail(events),
           Becomes(m, races), m.suppressed = mgr.suppressed,
           UNCHANGED <<wifi, loop, inputs>>, HandlerFrame, dialog' \in Texts
    PROVE  IInv'
<1>1. events' \in Seq(Events)
    BY EmptySeq, QueueTypes
<1>2. wifi' \in Interfaces /\ loop' \in Loops
    BY DEF IInv, TypeOK, DriverTypeOK
<1>3. loop'.at = "connect" => ~m.suppressed
    BY DEF IInv, ConnectInv
<1> QED BY <1>1, <1>2, <1>3, HandlerKeeps

LEMMA LinkSteps ==
    ASSUME IInv, StationConnected \/ StationDisconnected \/ AddressReceived \/ AddressLost
    PROVE  IInv'
<1>1. /\ mgr \in Managers /\ wifi \in Interfaces /\ events \in Seq(Events) /\ events # <<>>
      /\ Head(events) \in Events /\ Subject \in Credentials /\ dialog \in Texts
    <2>1. mgr \in Managers /\ wifi \in Interfaces /\ events \in Seq(Events) /\ dialog \in Texts
        BY DEF IInv, TypeOK, DriverTypeOK
    <2>2. events # <<>>
        BY DEF StationConnected, StationDisconnected, AddressReceived, AddressLost, Take
    <2>3. Head(events) \in Events
        BY <2>1, <2>2, EmptySeq, QueueTypes
    <2> QED BY <2>1, <2>2, <2>3 DEF Subject, Events
<1>2. /\ events' = Tail(events) /\ UNCHANGED <<wifi, loop, inputs>> /\ HandlerFrame
      /\ dialog' \in Texts
    BY <1>1 DEF StationConnected, StationDisconnected, AddressReceived, AddressLost, userVars
<1>3. CASE StationConnected
    <2> DEFINE m == [mgr EXCEPT !.connected = TRUE, !.ip_lost = TRUE, !.reconnect_timer = FALSE,
                                !.ssid = Subject.ssid,
                                !.password = IF wifi.config.password # NoText
                                             THEN wifi.config.password ELSE @]
               races == {d \in {"overtaken"} : wifi.config # Subject} \union
                        {d \in {"overwritten"} : dialog \notin {NoText, Subject.ssid}}
    <2>1. Becomes(Scheduled(m), races)
        BY <1>3 DEF StationConnected
    <2>2. Subject.ssid \in Texts /\ wifi.config.password \in Texts
        BY <1>1 DEF Interfaces, Credentials
    <2>3. m \in Managers /\ m.suppressed = mgr.suppressed
        BY <1>1, <2>2 DEF Managers
    <2>4. races \in SUBSET (Races \ {"undone"})
        BY DEF Races
    <2> HIDE DEF m, races
    <2> QED BY <1>1, <1>2, <2>1, <2>3, <2>4, HashTypes, NoteKeeps
<1>4. CASE StationDisconnected
    <2> DEFINE again == mgr.started /\ ~mgr.suppressed /\ ~portal
               m == [mgr EXCEPT !.connected = FALSE, !.ip_lost = TRUE,
                            !.ssid = IF again THEN Subject.ssid ELSE NoText,
                            !.password = IF again THEN @ ELSE NoText,
                            !.reconnect_timer = @ \/ again]
               races == {d \in {"deferred"} : portal /\ ~mgr.suppressed} \union
                        {d \in {"overwritten"} : dialog \notin {NoText, m.ssid}}
    <2>1. Becomes(Scheduled(m), races)
        BY <1>4 DEF StationDisconnected
    <2>2. /\ (IF again THEN Subject.ssid ELSE NoText) \in Texts
          /\ (IF again THEN mgr.password ELSE NoText) \in Texts
          /\ (mgr.reconnect_timer \/ again) \in BOOLEAN
        BY <1>1, NetworkTypes DEF Managers
    <2>3. m \in Managers /\ m.suppressed = mgr.suppressed
        BY <1>1, <2>2 DEF Managers
    <2>4. races \in SUBSET (Races \ {"undone"})
        BY DEF Races
    <2> HIDE DEF m, races
    <2> QED BY <1>1, <1>2, <2>1, <2>3, <2>4, HashTypes, NoteKeeps
<1>5. CASE AddressReceived
    <2> DEFINE m == [mgr EXCEPT !.ip_lost = FALSE, !.reconnect_timer = FALSE]
    <2>1. Becomes(m, {}) /\ m \in Managers /\ m.suppressed = mgr.suppressed
        BY <1>1, <1>5 DEF AddressReceived, Managers
    <2> HIDE DEF m
    <2> QED BY <1>1, <1>2, <2>1, NoteKeeps
<1>6. CASE AddressLost
    <2> DEFINE m == [mgr EXCEPT !.ip_lost = TRUE, !.reconnect_timer = @ \/ ~mgr.suppressed]
    <2>1. (mgr.reconnect_timer \/ ~mgr.suppressed) \in BOOLEAN
        OBVIOUS
    <2>2. Becomes(m, {}) /\ m \in Managers /\ m.suppressed = mgr.suppressed
        BY <1>1, <1>6, <2>1 DEF AddressLost, Managers
    <2> HIDE DEF m
    <2> QED BY <1>1, <1>2, <2>2, NoteKeeps
<1> QED BY <1>3, <1>4, <1>5, <1>6

LEMMA RequestSteps ==
    ASSUME IInv, SetNetwork \/ ConnectRequest \/ DisconnectRequest \/ CredentialsReceived
    PROVE  IInv'
<1>1. /\ mgr \in Managers /\ wifi \in Interfaces /\ events \in Seq(Events) /\ events # <<>>
      /\ loop \in Loops /\ loop.at = "idle" /\ dialog \in Texts
    BY DEF IInv, TypeOK, DriverTypeOK, SetNetwork, ConnectRequest, DisconnectRequest,
        CredentialsReceived, Take
<1>2. Subject \in Credentials /\ Subject.ssid \in Texts /\ Subject.password \in Texts
    BY <1>1, EmptySeq, QueueTypes, NetworkTypes DEF Subject, Events
<1>3. /\ Tail(events) \in Seq(Events) /\ Tail(events) \o LeavingEvents(wifi) \in Seq(Events)
      /\ Left(wifi) \in Interfaces /\ Left(wifi).link = "down"
    BY <1>1, NetworkTypes, EmptySeq, DriverCalls, QueueTypes
<1>4. CASE SetNetwork
    <2> DEFINE m == [mgr EXCEPT !.ssid = Subject.ssid]
               races == {d \in {"reselected"} : mgr.connected /\ mgr.ssid # Subject.ssid}
    <2>1. /\ Becomes(m, races) /\ events' = Tail(events) /\ dialog' \in Texts
          /\ UNCHANGED <<wifi, loop, inputs>> /\ HandlerFrame
        BY <1>2, <1>4 DEF SetNetwork
    <2>2. m \in Managers /\ m.suppressed = mgr.suppressed
        BY <1>1, <1>2 DEF Managers
    <2>3. races \in SUBSET (Races \ {"undone"})
        BY DEF Races
    <2> HIDE DEF m, races
    <2> QED BY <1>1, <2>1, <2>2, <2>3, NoteKeeps
<1>5. CASE ConnectRequest
    <2>1. /\ events' = Tail(events) /\ UNCHANGED <<wifi, userVars>> /\ HandlerFrame
          /\ wifi' \in Interfaces /\ dialog' \in Texts /\ UNCHANGED inputs
        BY <1>1, <1>5 DEF ConnectRequest, userVars
    <2>2. CASE mgr.connected \/ ~mgr.started
        <3>1. UNCHANGED <<mgr, loop, disturbed>> /\ {} \in SUBSET (Races \ {"undone"})
            BY <1>5, <2>2 DEF ConnectRequest
        <3> QED BY <1>1, <1>3, <2>1, <3>1, HandlerKeeps
    <2>3. CASE ~(mgr.connected \/ ~mgr.started)
        <3> DEFINE m == [mgr EXCEPT !.suppressed = FALSE, !.password = Subject.password]
                   races == {d \in {"overwritten"} : mgr.ssid # Subject.password}
                   target == [ssid |-> mgr.ssid, password |-> Subject.password]
        <3>1. Becomes(m, races)
            BY <1>5, <2>3 DEF ConnectRequest
        <3>2. m \in Managers /\ ~m.suppressed
            BY <1>1, <1>2 DEF Managers
        <3>3. loop' \in Loops
            <4>1. target \in Credentials
                BY <1>1, <1>2 DEF Managers, Credentials
            <4>2. [at |-> "connect", save |-> FALSE, target |-> target] \in Loops
                BY <4>1 DEF Loops
            <4> QED BY <1>5, <2>3, <4>2, BootTypes DEF ConnectRequest
        <3>4. races \in SUBSET (Races \ {"undone"})
            BY DEF Races
        <3>5. events' \in Seq(Events)
            BY <1>3, <2>1
        <3> HIDE DEF m, races
        <3> QED BY <2>1, <3>1, <3>2, <3>3, <3>4, <3>5, HandlerKeeps
    <2> QED BY <2>2, <2>3
<1>6. CASE DisconnectRequest
    <2>1. /\ UNCHANGED <<loop, userVars>> /\ HandlerFrame
          /\ loop' \in Loops /\ loop'.at # "connect" /\ dialog' \in Texts /\ UNCHANGED inputs
        BY <1>1, <1>6 DEF DisconnectRequest, userVars
    <2>2. CASE mgr.connected
        <3> DEFINE m == [mgr EXCEPT !.suppressed = TRUE, !.reconnect_timer = FALSE]
        <3>1. /\ Becomes(m, {}) /\ wifi' = Left(wifi)
              /\ events' = Tail(events) \o LeavingEvents(wifi)
            BY <1>6, <2>2 DEF DisconnectRequest
        <3>2. m \in Managers
            BY <1>1 DEF Managers
        <3> HIDE DEF m
        <3> QED BY <1>3, <2>1, <3>1, <3>2, HandlerKeeps
    <2>3. CASE ~mgr.connected
        <3>1. /\ UNCHANGED <<wifi, mgr, disturbed>> /\ events' = Tail(events)
              /\ {} \in SUBSET (Races \ {"undone"})
            BY <1>6, <2>3 DEF DisconnectRequest
        <3> QED BY <1>1, <1>3, <2>1, <3>1, HandlerKeeps
    <2> QED BY <2>2, <2>3
<1>7. CASE CredentialsReceived
    <2>1. HandlerFrame /\ dialog' \in Texts /\ UNCHANGED inputs
        BY <1>1, <1>7 DEF CredentialsReceived, userVars
    <2>2. loop' \in Loops /\ loop'.at # "connect"
        BY <1>2, <1>7 DEF CredentialsReceived, Loops
    <2>3. CASE mgr.connected
        <3> DEFINE m == [mgr EXCEPT !.suppressed = TRUE]
        <3>1. /\ Becomes(m, {}) /\ wifi' = Left(wifi)
              /\ events' = Tail(events) \o LeavingEvents(wifi)
            BY <1>7, <2>3 DEF CredentialsReceived
        <3>2. m \in Managers
            BY <1>1 DEF Managers
        <3> HIDE DEF m
        <3> QED BY <1>3, <2>1, <2>2, <3>1, <3>2, HandlerKeeps
    <2>4. CASE ~mgr.connected
        <3>1. /\ UNCHANGED <<wifi, mgr, disturbed>> /\ events' = Tail(events)
              /\ {} \in SUBSET (Races \ {"undone"})
            BY <1>7, <2>4 DEF CredentialsReceived
        <3> QED BY <1>1, <1>3, <2>1, <2>2, <3>1, HandlerKeeps
    <2> QED BY <2>3, <2>4
<1> QED BY <1>4, <1>5, <1>6, <1>7

\* The rest of a handler after its wait.
LEMMA WaitedSteps ==
    ASSUME IInv, ReplaceConfiguration \/ ConnectToNetwork
    PROVE  IInv'
<1>1. /\ mgr \in Managers /\ wifi \in Interfaces /\ loop \in Loops /\ loop.target \in Credentials
      /\ UNCHANGED <<events, userVars>> /\ HandlerFrame
      /\ events' \in Seq(Events) /\ dialog' \in Texts /\ UNCHANGED inputs
    BY DEF IInv, TypeOK, DriverTypeOK, ReplaceConfiguration, ConnectToNetwork, userVars, Loops
<1>2. CASE ReplaceConfiguration
    <2> DEFINE m == [mgr EXCEPT !.suppressed = FALSE]
    <2>1. Becomes(m, {}) /\ m \in Managers /\ ~m.suppressed
        BY <1>1, <1>2 DEF ReplaceConfiguration, Managers
    <2>2. wifi' \in Interfaces
        BY <1>1, <1>2, NetworkTypes, DriverCalls DEF ReplaceConfiguration
    <2>3. loop' \in Loops
        BY <1>1, <1>2 DEF ReplaceConfiguration, Loops
    <2> HIDE DEF m
    <2> QED BY <1>1, <2>1, <2>2, <2>3, HandlerKeeps
<1>3. CASE ConnectToNetwork
    <2> DEFINE m == IF loop.save THEN Scheduled(mgr) ELSE mgr
               races == {d \in {"refused"} : wifi.link = "trying"}
    <2>1. ~mgr.suppressed
        BY <1>3 DEF IInv, ConnectInv, ConnectToNetwork
    <2>2. Becomes(m, races) /\ m \in Managers /\ ~m.suppressed
        BY <1>1, <1>3, <2>1, HashTypes DEF ConnectToNetwork
    <2>3. wifi' \in Interfaces /\ loop' \in Loops
        BY <1>1, <1>3, DriverCalls, BootTypes DEF ConnectToNetwork
    <2>4. races \in SUBSET (Races \ {"undone"})
        BY DEF Races
    <2> HIDE DEF m, races
    <2> QED BY <1>1, <2>2, <2>3, <2>4, HandlerKeeps
<1> QED BY <1>2, <1>3

----------------------------------------------------------------------------
\* The timer task, the portal, the user, the driver and the power.

LEMMA SaveSteps ==
    ASSUME IInv, SaveTimerExpires \/ SaveStep \/ SaveDone
    PROVE  IInv'
<1>1. mgr \in Managers /\ timer_task \in TimerTasks /\ Hash(mgr) \in Hashes
    BY HashTypes DEF IInv, TypeOK
<1>2. mgr' \in Managers /\ mgr'.suppressed = mgr.suppressed
    <2>1. CASE SaveTimerExpires
        BY <1>1, <2>1 DEF SaveTimerExpires, Managers
    <2>2. CASE SaveStep
        BY <1>1, <2>2 DEF SaveStep
    <2>3. CASE SaveDone
        BY <1>1, <2>3 DEF SaveDone, Managers, TimerTasks
    <2> QED BY <2>1, <2>2, <2>3
<1>3. timer_task' \in TimerTasks
    <2>1. [at |-> "enabled", enabled |-> mgr.started, connected |-> mgr.connected,
           hash |-> Hash(mgr)] \in TimerTasks
        BY <1>1 DEF Managers, TimerTasks
    <2>2. ASSUME NEW place \in {"ssid", "password", "done"}
          PROVE  [timer_task EXCEPT !.at = place] \in TimerTasks
        BY <1>1, <2>2 DEF TimerTasks
    <2> QED BY <1>1, <2>1, <2>2, BootTypes DEF SaveTimerExpires, SaveStep, SaveDone
<1>4. nvs' \in [enabled : BOOLEAN, ssid : Texts, password : Texts]
    BY <1>1 DEF IInv, TypeOK, SaveTimerExpires, SaveStep, SaveDone, storeVars, Managers, TimerTasks
<1>5. disturbed' \subseteq Races /\ disturbed \subseteq disturbed'
    BY DEF IInv, TypeOK, SaveTimerExpires, SaveStep, SaveDone, Races
<1>6. UNCHANGED <<driverVars, userVars, loop, form, portal>>
    BY DEF SaveTimerExpires, SaveStep, SaveDone, storeVars
<1>7. TypeOK'
    BY <1>2, <1>3, <1>4, <1>5, <1>6 DEF IInv, TypeOK, DriverTypeOK, driverVars, userVars
<1>8. ConnectInv' /\ DisconnectIsRespected'
    BY <1>2, <1>5, <1>6 DEF IInv, ConnectInv, DisconnectIsRespected, driverVars
<1> QED BY <1>7, <1>8 DEF IInv

\* The reconnect timer connects only as it decided; whoever disconnected meanwhile
\* is one of the races.
LEMMA ReconnectSteps ==
    ASSUME IInv, ReconnectTimerExpires \/ ActOnReconnect
    PROVE  IInv'
<1>1. /\ mgr \in Managers /\ timer_task \in TimerTasks /\ wifi \in Interfaces
      /\ events \in Seq(Events) /\ disturbed \subseteq Races
    BY DEF IInv, TypeOK, DriverTypeOK
<1>2. UNCHANGED <<serving, dhcp, storeVars, userVars, loop, portal>>
    BY DEF ReconnectTimerExpires, ActOnReconnect, driverVars
<1>3. mgr' \in Managers /\ mgr'.suppressed = mgr.suppressed
    <2>1. CASE ReconnectTimerExpires
        <3>1. PICK lost \in BOOLEAN :
                 mgr' = [mgr EXCEPT !.reconnect_timer = FALSE, !.ip_lost = lost]
            <4> DEFINE wanted == /\ mgr.started /\ ~mgr.suppressed /\ ~portal
                                 /\ RecoveryWanted(mgr)
                       lost == mgr.ip_lost /\ ~(wanted /\ mgr.connected)
            <4>1. mgr' = [mgr EXCEPT !.reconnect_timer = FALSE, !.ip_lost = lost]
                BY <2>1 DEF ReconnectTimerExpires
            <4>2. lost \in BOOLEAN
                OBVIOUS
            <4> QED BY <4>1, <4>2
        <3> QED BY <1>1, <3>1 DEF Managers
    <2>2. CASE ActOnReconnect
        <3>1. (mgr.reconnect_timer \/ ~CanConnect(wifi)) \in BOOLEAN
            OBVIOUS
        <3> QED BY <1>1, <2>2, <3>1 DEF ActOnReconnect, Managers
    <2> QED BY <2>1, <2>2
<1>4. timer_task' \in TimerTasks
    <2>1. ASSUME NEW place \in {"idle", "reassociate", "reconnect"}
          PROVE  [TimerIdle EXCEPT !.at = place] \in TimerTasks
        BY <2>1, BootTypes DEF TimerTasks
    <2> QED BY <2>1, BootTypes DEF ReconnectTimerExpires, ActOnReconnect
<1>5. wifi' \in Interfaces /\ events' \in Seq(Events)
    <2>1. /\ Left(wifi) \in Interfaces /\ Connected(wifi) \in Interfaces
          /\ LeavingEvents(wifi) \in Seq(Events)
        BY <1>1, NetworkTypes, DriverCalls
    <2>2. events \o LeavingEvents(wifi) \in Seq(Events)
        BY <1>1, <2>1, ConcatProperties
    <2> QED BY <1>1, <2>1, <2>2 DEF ReconnectTimerExpires, ActOnReconnect, driverVars
<1>6. disturbed \subseteq disturbed' /\ disturbed' \subseteq Races
    BY <1>1 DEF ReconnectTimerExpires, ActOnReconnect, Races
<1>7. wifi' # wifi /\ mgr.suppressed => "undone" \in disturbed'
    BY DEF ReconnectTimerExpires, ActOnReconnect, driverVars
<1>8. TypeOK'
    BY <1>2, <1>3, <1>4, <1>5, <1>6 DEF IInv, TypeOK, DriverTypeOK, storeVars, userVars
<1>9. ConnectInv' /\ DisconnectIsRespected'
    BY <1>2, <1>3, <1>6, <1>7 DEF IInv, ConnectInv, DisconnectIsRespected
<1> QED BY <1>8, <1>9 DEF IInv

LEMMA UserSteps ==
    ASSUME IInv, UserStep \/ PortalSavesPassword
    PROVE  IInv'
<1>1. UNCHANGED <<wifi, serving, dhcp, mgr, loop, timer_task>>
    BY DEF UserStep, SelectNetwork, ConfirmPassword, AskToDisconnect, PortalStartsOrStops,
        PortalSavesName, PortalSavesPassword, UserFrame, driverVars
<1>2. events' \in Seq(Events)
    <2>1. ASSUME NEW e \in Events, events' = IF Room THEN Append(events, e) ELSE events
          PROVE  events' \in Seq(Events)
        BY <2>1, AppendProperties DEF IInv, TypeOK, DriverTypeOK
    <2>2. \A n \in Networks :
             Event("SET_NETWORK", [ssid |-> n, password |-> NoText]) \in Events
        BY DEF Event, Events, Credentials, Texts
    <2>3. /\ Event("CONNECT", [ssid |-> NoText, password |-> dialog]) \in Events
          /\ Event("DISCONNECT", NoCredentials) \in Events
          /\ Event("CREDENTIALS", form) \in Events
        BY NetworkTypes DEF IInv, TypeOK, Event, Events, Credentials
    <2>4. UNCHANGED events => events' \in Seq(Events)
        BY DEF IInv, TypeOK, DriverTypeOK
    <2> QED BY <2>1, <2>2, <2>3, <2>4 DEF UserStep, SelectNetwork, ConfirmPassword,
            AskToDisconnect, PortalStartsOrStops, PortalSavesName, PortalSavesPassword, Ask,
            driverVars
<1>3. nvs' \in [enabled : BOOLEAN, ssid : Texts, password : Texts] /\ form' \in Credentials
    BY NetworkTypes, BootTypes DEF IInv, TypeOK, UserStep, SelectNetwork, ConfirmPassword,
        AskToDisconnect, PortalStartsOrStops, PortalSavesName, PortalSavesPassword, storeVars,
        Texts
<1>4. portal' \in BOOLEAN
    BY DEF IInv, TypeOK, UserStep, SelectNetwork, ConfirmPassword, AskToDisconnect,
        PortalStartsOrStops, PortalSavesName, PortalSavesPassword
<1>5. dialog' \in Texts /\ inputs' \in Nat
    <2>1. dialog \in Texts /\ inputs \in Nat /\ inputs + 1 \in Nat
        BY DEF IInv, TypeOK
    <2>2. dialog' \in {dialog, NoText}
        BY DEF UserStep, SelectNetwork, ConfirmPassword, AskToDisconnect, PortalStartsOrStops,
            PortalSavesName, PortalSavesPassword, userVars
    <2>3. inputs' \in {inputs, inputs + 1}
        BY DEF UserStep, SelectNetwork, ConfirmPassword, AskToDisconnect, PortalStartsOrStops,
            PortalSavesName, PortalSavesPassword, Ask, Input, userVars
    <2> QED BY <2>1, <2>2, <2>3, NetworkTypes
<1>6. disturbed \subseteq disturbed' /\ disturbed' \subseteq Races
    BY DEF IInv, TypeOK, UserStep, SelectNetwork, ConfirmPassword, AskToDisconnect,
        PortalStartsOrStops, PortalSavesName, PortalSavesPassword, UserFrame, Races
<1>7. TypeOK'
    BY <1>1, <1>2, <1>3, <1>4, <1>5, <1>6 DEF IInv, TypeOK, DriverTypeOK
<1>8. ConnectInv' /\ DisconnectIsRespected'
    BY <1>1, <1>6 DEF IInv, ConnectInv, DisconnectIsRespected
<1> QED BY <1>7, <1>8 DEF IInv

LEMMA EnvironmentSteps ==
    ASSUME IInv, EnvironmentFrame, UNCHANGED inputs \/ Input, DriverStep \/ ServiceChanges
    PROVE  IInv'
<1>1. wifi \in Interfaces /\ events \in Seq(Events) /\ serving \subseteq Networks /\ dhcp \in BOOLEAN
    BY DEF IInv, TypeOK, DriverTypeOK
<1>2. wifi' \in Interfaces
    <2>1. Left(wifi) \in Interfaces
        BY <1>1, NetworkTypes, DriverCalls
    <2>2. /\ [wifi EXCEPT !.link = "up"] \in Interfaces
          /\ \A ip \in BOOLEAN : [wifi EXCEPT !.ip = ip] \in Interfaces
        BY <1>1 DEF Interfaces
    <2> QED BY <1>1, <2>1, <2>2 DEF DriverStep, Associate, LoseLink, GetAddress, LoseAddress,
            ServiceChanges
<1>3. wifi.link = "down" => wifi'.link = "down"
    BY <1>1 DEF DriverStep, Associate, LoseLink, GetAddress, LoseAddress, ServiceChanges,
        Interfaces
<1>4. events' \in Seq(Events)
    <2>1. \A type \in {"CONNECTED", "DISCONNECTED", "GOT_IP", "LOST_IP"} :
             Event(type, wifi.ap) \in Events
        BY <1>1 DEF Event, Events, Interfaces
    <2> QED BY <1>1, <2>1, AppendProperties DEF DriverStep, Associate, LoseLink, GetAddress,
            LoseAddress, ServiceChanges, Post
<1>5. serving' \subseteq Networks /\ dhcp' \in BOOLEAN
    BY <1>1 DEF DriverStep, Associate, LoseLink, GetAddress, LoseAddress, ServiceChanges
<1>6. inputs' \in Nat
    BY DEF IInv, TypeOK, Input
<1>7. TypeOK'
    BY <1>2, <1>4, <1>5, <1>6 DEF IInv, TypeOK, DriverTypeOK, EnvironmentFrame, storeVars
<1>8. ConnectInv' /\ DisconnectIsRespected'
    BY <1>3 DEF IInv, ConnectInv, DisconnectIsRespected, EnvironmentFrame
<1> QED BY <1>7, <1>8 DEF IInv

LEMMA PowerStep == IInv /\ PowerFails => IInv'
<1> SUFFICES ASSUME IInv, PowerFails PROVE IInv'
    OBVIOUS
<1>1. mgr' \in Managers /\ ~mgr'.suppressed
    BY LoadedTypes DEF IInv, TypeOK, PowerFails
<1>2. disturbed' \subseteq Races
    BY DEF IInv, TypeOK, PowerFails, Races
<1>3. DriverTypeOK'
    BY BootTypes DEF IInv, TypeOK, DriverTypeOK, PowerFails
<1>4. TypeOK'
    <2>1. inputs' \in Nat
        BY DEF IInv, TypeOK, PowerFails, Input
    <2>2. loop' \in Loops /\ timer_task' \in TimerTasks /\ form' \in Credentials
        BY BootTypes DEF PowerFails
    <2>3. portal' \in BOOLEAN /\ dialog' \in Texts
        BY NetworkTypes DEF PowerFails
    <2>4. nvs' \in [enabled : BOOLEAN, ssid : Texts, password : Texts]
        BY DEF IInv, TypeOK, PowerFails
    <2> QED BY <1>1, <1>2, <1>3, <2>1, <2>2, <2>3, <2>4 DEF TypeOK
<1>5. ConnectInv' /\ DisconnectIsRespected'
    BY <1>1 DEF ConnectInv, DisconnectIsRespected
<1> QED BY <1>4, <1>5 DEF IInv

----------------------------------------------------------------------------
LEMMA NextInv == IInv /\ [Next]_vars => IInv'
<1> SUFFICES ASSUME IInv, [Next]_vars PROVE IInv'
    OBVIOUS
<1>1. CASE HandleEvent
    BY <1>1, EnableStep, StartedStep, LinkSteps, RequestSteps, WaitedSteps DEF HandleEvent
<1>2. CASE TimerTask
    BY <1>2, SaveSteps, ReconnectSteps DEF TimerTask
<1>3. CASE DriverStep /\ EnvironmentFrame /\ UNCHANGED inputs
    BY <1>3, EnvironmentSteps
<1>4. CASE ServiceChanges /\ EnvironmentFrame /\ Input
    BY <1>4, EnvironmentSteps
<1>5. CASE UserStep \/ PortalSavesPassword
    BY <1>5, UserSteps
<1>6. CASE PowerFails
    BY <1>6, PowerStep
<1>7. CASE UNCHANGED vars
    BY <1>7 DEF IInv, TypeOK, DriverTypeOK, ConnectInv, DisconnectIsRespected, vars,
        driverVars, storeVars, userVars
<1> QED BY <1>1, <1>2, <1>3, <1>4, <1>5, <1>6, <1>7 DEF Next

THEOREM SpecInv == Spec => []IInv
BY InitInv, NextInv, PTL DEF Spec

\* Every variable keeps its type.
THEOREM TypeCorrect == Spec => []TypeOK
<1>1. IInv => TypeOK
    BY DEF IInv
<1> QED BY <1>1, SpecInv, PTL

\* A station the user has disconnected stays down until a connection is asked for,
\* unless the reconnect timer had decided before.
THEOREM DisconnectIsRespectedHolds == Spec => []DisconnectIsRespected
<1>1. IInv => DisconnectIsRespected
    BY DEF IInv
<1> QED BY <1>1, SpecInv, PTL

----------------------------------------------------------------------------
(* The saved name and password belong together.  The driver reports only   *)
(* links it could open; the manager's pair is the link's while it is       *)
(* connected; a save writes the pair of one moment; and between two writes *)
(* the flash holds the pair of the last.                                   *)

Opened(c) == c.ssid # NoText /\ c.password = c.ssid

LinksOpened(queue) ==
    \A i \in 1..Len(queue) : queue[i].type = "CONNECTED" => Opened(queue[i].network)

\* None of the races that mix pairs has happened.
Quiet == disturbed \subseteq {"undone", "deferred", "dropped", "refused"}

ManagerPair ==
    /\ mgr.connected => mgr.password = mgr.ssid
    /\ Saving /\ timer_task.connected => mgr.connected

SavingPair ==
    timer_task.at \in {"ssid", "password"} =>
        /\ timer_task.connected /\ mgr.ssid # NoText /\ form = FormIdle
        /\ timer_task.at = "password" => nvs.ssid = mgr.ssid

FlashPair ==
    /\ form = FormIdle /\ timer_task.at # "password" => nvs.password = nvs.ssid
    /\ form # FormIdle => form.password = form.ssid /\ nvs.ssid = form.ssid

PairInv == LinksOpened(events) /\ (Quiet => ManagerPair /\ SavingPair /\ FlashPair)

LEMMA TailOpened ==
    ASSUME NEW q \in Seq(Events), q # <<>>, LinksOpened(q)
    PROVE  LinksOpened(Tail(q))
<1>1. /\ Len(Tail(q)) = Len(q) - 1 /\ Len(q) \in Nat
      /\ \A i \in 1..Len(Tail(q)) : Tail(q)[i] = q[i + 1]
    BY HeadTailProperties, LenProperties
<1> QED BY <1>1 DEF LinksOpened

LEMMA AppendOpened ==
    ASSUME NEW q \in Seq(Events), LinksOpened(q), NEW e \in Events,
           e.type = "CONNECTED" => Opened(e.network)
    PROVE  LinksOpened(Append(q, e))
<1>1. /\ Len(Append(q, e)) = Len(q) + 1 /\ Len(q) \in Nat
      /\ \A i \in 1..Len(q) : Append(q, e)[i] = q[i]
      /\ Append(q, e)[Len(q) + 1] = e
    BY AppendProperties, LenProperties
<1> QED BY <1>1 DEF LinksOpened

LEMMA ConcatOpened ==
    ASSUME NEW q \in Seq(Events), LinksOpened(q), NEW s,
           s = <<>> \/ \E e \in Events : s = <<e>> /\ e.type # "CONNECTED"
    PROVE  LinksOpened(q \o s)
<1>1. CASE s = <<>>
    <2>1. q \o s = q
        BY <1>1, ConcatEmptySeq
    <2> QED BY <2>1
<1>2. ASSUME NEW e \in Events, s = <<e>>, e.type # "CONNECTED" PROVE LinksOpened(q \o s)
    <2>1. q \o s = Append(q, e)
        BY <1>2, AppendIsConcat
    <2> QED BY <1>2, <2>1, AppendOpened
<1> QED BY <1>1, <1>2

\* What a handler posts on leaving a network.
LEMMA LeavingOpened ==
    ASSUME NEW w \in Interfaces
    PROVE  \/ LeavingEvents(w) = <<>>
           \/ \E e \in Events : LeavingEvents(w) = <<e>> /\ e.type # "CONNECTED"
<1>1. Event("DISCONNECTED", w.ap) \in Events /\ Event("DISCONNECTED", w.ap).type # "CONNECTED"
    BY DEF Event, Events, Interfaces
<1> QED BY <1>1 DEF LeavingEvents

\* Saving the state later is no change of it.
LEMMA ScheduledKeeps ==
    ASSUME NEW m \in Managers
    PROVE  /\ Scheduled(m).connected = m.connected
           /\ Scheduled(m).ssid = m.ssid /\ Scheduled(m).password = m.password
BY DEF Scheduled, Managers

LEMMA HashShowsConnection ==
    ASSUME NEW m \in Managers, NEW n \in Managers, Hash(m) = Hash(n)
    PROVE  m.connected = n.connected
<1>1. <<m.started, m.connected, IF m.connected THEN m.ssid ELSE NoText>>
         = <<n.started, n.connected, IF n.connected THEN n.ssid ELSE NoText>>
    BY DEF Hash
<1> QED BY <1>1, Zenon

LEMMA InitPair == Init => PairInv
<1> SUFFICES ASSUME Init PROVE PairInv
    OBVIOUS
<1>1. LinksOpened(events)
    BY DEF Init, BootEvents, Event, LinksOpened
<1>2. nvs.password = nvs.ssid /\ form = FormIdle /\ timer_task = TimerIdle
    BY DEF Init
<1>3. mgr.connected = FALSE
    BY DEF Init, Loaded
<1> QED BY <1>1, <1>2, <1>3 DEF PairInv, ManagerPair, SavingPair, FlashPair, TimerIdle, Saving

\* What has to be shown of a handler.
LEMMA HandlerKeepsPair ==
    ASSUME TypeOK, PairInv, NEW m \in Managers, NEW races,
           \/ Becomes(m, races)
           \/ m = mgr /\ UNCHANGED <<mgr, disturbed>>,
           HandlerFrame, LinksOpened(events'),
           Quiet' => (m.connected => m.password = m.ssid)
    PROVE  PairInv'
<1> SUFFICES ASSUME Quiet' PROVE (ManagerPair /\ SavingPair /\ FlashPair)'
    BY DEF PairInv
<1>1. mgr' = m /\ Quiet
    BY DEF Becomes, Quiet
<1>2. UNCHANGED <<nvs, form, timer_task>>
    BY DEF HandlerFrame, storeVars
<1>3. Saving => m.connected = mgr.connected /\ m.ssid = mgr.ssid
    <2>1. CASE m = mgr
        BY <2>1
    <2>2. CASE Becomes(m, races) /\ Saving
        <3>1. "overlap" \notin Overlap(m)
            BY <2>2 DEF Becomes, Quiet
        <3>2. <<Hash(m), m.ssid, m.password>> = <<Hash(mgr), mgr.ssid, mgr.password>>
            BY <2>2, <3>1 DEF Overlap
        <3>3. Hash(m) = Hash(mgr) /\ m.ssid = mgr.ssid
            BY <3>2
        <3> QED BY <3>3, HashShowsConnection DEF TypeOK
    <2> QED BY <2>1, <2>2
<1>4. ManagerPair /\ SavingPair /\ FlashPair
    BY <1>1 DEF PairInv
<1>5. ManagerPair'
    BY <1>1, <1>2, <1>3, <1>4 DEF ManagerPair, Saving
<1>6. SavingPair' /\ FlashPair'
    BY <1>1, <1>2, <1>3, <1>4 DEF SavingPair, FlashPair, Saving
<1> QED BY <1>5, <1>6

LEMMA LinkPairs ==
    ASSUME TypeOK, PairInv,
           StationConnected \/ StationDisconnected \/ AddressReceived \/ AddressLost
    PROVE  PairInv'
<1>1. /\ mgr \in Managers /\ wifi \in Interfaces /\ events \in Seq(Events) /\ events # <<>>
      /\ Subject \in Credentials /\ LinksOpened(events)
    <2>1. mgr \in Managers /\ wifi \in Interfaces /\ events \in Seq(Events)
        BY DEF TypeOK, DriverTypeOK
    <2>2. events # <<>>
        BY DEF StationConnected, StationDisconnected, AddressReceived, AddressLost, Take
    <2>3. Head(events) \in Events
        BY <2>1, <2>2, HeadTailProperties
    <2> QED BY <2>1, <2>2, <2>3 DEF Subject, Events, PairInv
<1>2. LinksOpened(events')
    <2>1. events' = Tail(events)
        BY DEF StationConnected, StationDisconnected, AddressReceived, AddressLost
    <2> QED BY <1>1, <2>1, TailOpened
<1>3. HandlerFrame
    BY DEF StationConnected, StationDisconnected, AddressReceived, AddressLost
<1>4. Quiet' => Quiet /\ ManagerPair
    BY DEF StationConnected, StationDisconnected, AddressReceived, AddressLost, Becomes,
        Quiet, PairInv
<1>5. CASE StationConnected
    <2> DEFINE password == IF wifi.config.password # NoText
                           THEN wifi.config.password ELSE mgr.password
               m == [mgr EXCEPT !.connected = TRUE, !.ip_lost = TRUE, !.reconnect_timer = FALSE,
                                !.ssid = Subject.ssid, !.password = password]
               races == {d \in {"overtaken"} : wifi.config # Subject} \union
                        {d \in {"overwritten"} : dialog \notin {NoText, Subject.ssid}}
    <2>1. Becomes(Scheduled(m), races)
        BY <1>5 DEF StationConnected
    <2>2. password \in Texts /\ Subject.ssid \in Texts
        BY <1>1 DEF Interfaces, Credentials, Managers
    <2>3. m \in Managers /\ m.password = password /\ m.ssid = Subject.ssid
        BY <1>1, <2>2 DEF Managers
    <2>4. Quiet' => m.password = m.ssid
        <3>1. Quiet' => wifi.config = Subject
            BY <2>1 DEF Becomes, Quiet
        <3>2. Opened(Subject)
            <4>1. Len(events) \in Nat \ {0} /\ Head(events) = events[1]
                BY <1>1, EmptySeq, LenProperties
            <4>2. Head(events).type = "CONNECTED"
                BY <1>5 DEF StationConnected, Take
            <4> QED BY <1>1, <4>1, <4>2 DEF LinksOpened, Subject
        <3> QED BY <2>3, <3>1, <3>2 DEF Opened
    <2>5. /\ Scheduled(m) \in Managers
          /\ Quiet' => Scheduled(m).password = Scheduled(m).ssid
        BY <2>3, <2>4, HashTypes, ScheduledKeeps
    <2> HIDE DEF m, races
    <2> QED BY <1>2, <1>3, <2>1, <2>5, HandlerKeepsPair
<1>6. CASE StationDisconnected
    <2> DEFINE again == mgr.started /\ ~mgr.suppressed /\ ~portal
               m == [mgr EXCEPT !.connected = FALSE, !.ip_lost = TRUE,
                            !.ssid = IF again THEN Subject.ssid ELSE NoText,
                            !.password = IF again THEN @ ELSE NoText,
                            !.reconnect_timer = @ \/ again]
               races == {d \in {"deferred"} : portal /\ ~mgr.suppressed} \union
                        {d \in {"overwritten"} : dialog \notin {NoText, m.ssid}}
    <2>1. Becomes(Scheduled(m), races)
        BY <1>6 DEF StationDisconnected
    <2>2. /\ (IF again THEN Subject.ssid ELSE NoText) \in Texts
          /\ (IF again THEN mgr.password ELSE NoText) \in Texts
          /\ (mgr.reconnect_timer \/ again) \in BOOLEAN
        BY <1>1, NetworkTypes DEF Managers
    <2>3. m \in Managers /\ ~m.connected
        BY <1>1, <2>2 DEF Managers
    <2>4. Scheduled(m) \in Managers /\ ~Scheduled(m).connected
        BY <2>3, HashTypes, ScheduledKeeps
    <2> HIDE DEF m, races
    <2> QED BY <1>2, <1>3, <2>1, <2>4, HandlerKeepsPair
<1>7. CASE AddressReceived \/ AddressLost
    <2>1. PICK lost \in BOOLEAN, timer \in BOOLEAN :
             Becomes([mgr EXCEPT !.ip_lost = lost, !.reconnect_timer = timer], {})
        <3>1. (mgr.reconnect_timer \/ ~mgr.suppressed) \in BOOLEAN
            OBVIOUS
        <3> QED BY <1>7, <3>1 DEF AddressReceived, AddressLost
    <2> DEFINE m == [mgr EXCEPT !.ip_lost = lost, !.reconnect_timer = timer]
    <2>2. /\ m \in Managers /\ m.connected = mgr.connected /\ m.ssid = mgr.ssid
          /\ m.password = mgr.password
        BY <1>1 DEF Managers
    <2>3. Becomes(m, {}) /\ (Quiet' => (m.connected => m.password = m.ssid))
        BY <1>4, <2>1, <2>2 DEF ManagerPair
    <2> HIDE DEF m
    <2> QED BY <1>2, <1>3, <2>2, <2>3, HandlerKeepsPair
<1> QED BY <1>5, <1>6, <1>7

LEMMA RequestPairs ==
    ASSUME TypeOK, PairInv,
           \/ EnableRequest \/ StationStarted \/ SetNetwork
           \/ ConnectRequest \/ DisconnectRequest \/ CredentialsReceived
    PROVE  PairInv'
<1>1. /\ mgr \in Managers /\ wifi \in Interfaces /\ events \in Seq(Events) /\ events # <<>>
      /\ LinksOpened(events) /\ Subject \in Credentials
    <2>1. mgr \in Managers /\ wifi \in Interfaces /\ events \in Seq(Events)
        BY DEF TypeOK, DriverTypeOK
    <2>2. events # <<>>
        BY DEF EnableRequest, StationStarted, SetNetwork, ConnectRequest, DisconnectRequest,
            CredentialsReceived, Take
    <2>3. Head(events) \in Events
        BY <2>1, <2>2, HeadTailProperties
    <2> QED BY <2>1, <2>2, <2>3 DEF Subject, Events, PairInv
<1>2. LinksOpened(events')
    <2>1. Tail(events) \in Seq(Events) /\ LinksOpened(Tail(events))
        BY <1>1, TailOpened, HeadTailProperties
    <2>2. /\ Event("START", NoCredentials) \in Events
          /\ Event("START", NoCredentials).type # "CONNECTED"
        BY NetworkTypes DEF Event, Events
    <2>3. \E s : /\ events' = Tail(events) \o s
                 /\ s = <<>> \/ \E e \in Events : s = <<e>> /\ e.type # "CONNECTED"
        <3>1. Tail(events) = Tail(events) \o <<>>
            BY <2>1, ConcatEmptySeq
        <3>2. CASE events' = Tail(events)
            BY <3>1, <3>2
        <3>3. CASE events' = Tail(events) \o LeavingEvents(wifi)
            BY <1>1, <3>3, LeavingOpened
        <3>4. CASE events' = Tail(events) \o <<Event("START", NoCredentials)>>
            BY <2>2, <3>4
        <3>5. \/ events' = Tail(events) \/ events' = Tail(events) \o LeavingEvents(wifi)
              \/ events' = Tail(events) \o <<Event("START", NoCredentials)>>
            BY <3>1 DEF EnableRequest, StationStarted, SetNetwork, ConnectRequest,
                DisconnectRequest, CredentialsReceived
        <3> QED BY <3>2, <3>3, <3>4, <3>5
    <2> QED BY <2>1, <2>3, ConcatOpened
<1>3. HandlerFrame
    BY DEF EnableRequest, StationStarted, SetNetwork, ConnectRequest, DisconnectRequest,
        CredentialsReceived
<1>4. Quiet' => Quiet /\ ManagerPair
    BY DEF EnableRequest, StationStarted, SetNetwork, ConnectRequest, DisconnectRequest,
        CredentialsReceived, Becomes, Quiet, PairInv
<1> DEFINE Keeps(m) == /\ m \in Managers /\ m.connected = mgr.connected
                       /\ m.ssid = mgr.ssid /\ m.password = mgr.password
<1>5. ASSUME NEW m, Keeps(m), Becomes(m, {}) PROVE PairInv'
    <2>1. Quiet' => (m.connected => m.password = m.ssid)
        BY <1>4, <1>5 DEF ManagerPair
    <2> QED BY <1>2, <1>3, <1>5, <2>1, HandlerKeepsPair
<1>6. ASSUME UNCHANGED <<mgr, disturbed>> PROVE PairInv'
    <2>1. Quiet' => (mgr.connected => mgr.password = mgr.ssid)
        BY <1>4 DEF ManagerPair
    <2> QED BY <1>1, <1>2, <1>3, <1>6, <2>1, HandlerKeepsPair
<1>7. CASE EnableRequest
    <2> DEFINE m == [mgr EXCEPT !.suppressed = FALSE]
    <2>1. Becomes(m, {}) /\ Keeps(m)
        BY <1>1, <1>7 DEF EnableRequest, Managers
    <2> QED BY <1>5, <2>1
<1>8. CASE StationStarted
    <2> DEFINE m == [mgr EXCEPT !.started = TRUE, !.suppressed = FALSE]
    <2>1. Keeps(m)
        BY <1>1 DEF Managers
    <2>2. Keeps(Scheduled(m))
        BY <2>1, HashTypes, ScheduledKeeps
    <2>3. Becomes(m, {}) \/ Becomes(Scheduled(m), {})
        BY <1>8 DEF StationStarted
    <2> QED BY <1>5, <2>1, <2>2, <2>3
<1>9. CASE SetNetwork
    <2> DEFINE m == [mgr EXCEPT !.ssid = Subject.ssid]
               races == {d \in {"reselected"} : mgr.connected /\ mgr.ssid # Subject.ssid}
    <2>1. Becomes(m, races)
        BY <1>9 DEF SetNetwork
    <2>2. /\ m \in Managers /\ m.connected = mgr.connected
          /\ m.ssid = Subject.ssid /\ m.password = mgr.password
        BY <1>1 DEF Managers, Credentials
    <2>3. Quiet' => (m.connected => mgr.ssid = Subject.ssid)
        BY <2>1, <2>2 DEF Becomes, Quiet
    <2>4. Quiet' => (m.connected => m.password = m.ssid)
        BY <1>4, <2>2, <2>3 DEF ManagerPair
    <2> HIDE DEF m, races
    <2> QED BY <1>2, <1>3, <2>1, <2>2, <2>4, HandlerKeepsPair
<1>10. CASE ConnectRequest
    <2>1. CASE mgr.connected \/ ~mgr.started
        BY <1>6, <1>10, <2>1 DEF ConnectRequest
    <2>2. CASE ~(mgr.connected \/ ~mgr.started)
        <3> DEFINE m == [mgr EXCEPT !.suppressed = FALSE, !.password = Subject.password]
                   races == {d \in {"overwritten"} : mgr.ssid # Subject.password}
        <3>1. Becomes(m, races)
            BY <1>10, <2>2 DEF ConnectRequest
        <3>2. m \in Managers /\ ~m.connected
            BY <1>1, <2>2 DEF Managers, Credentials
        <3> HIDE DEF m, races
        <3> QED BY <1>2, <1>3, <3>1, <3>2, HandlerKeepsPair
    <2> QED BY <2>1, <2>2
<1>11. CASE DisconnectRequest \/ CredentialsReceived
    <2> DEFINE m == [mgr EXCEPT !.suppressed = TRUE, !.reconnect_timer = FALSE]
               n == [mgr EXCEPT !.suppressed = TRUE]
    <2>1. Keeps(m) /\ Keeps(n)
        BY <1>1 DEF Managers
    <2>2. Becomes(m, {}) \/ Becomes(n, {}) \/ UNCHANGED <<mgr, disturbed>>
        BY <1>11 DEF DisconnectRequest, CredentialsReceived
    <2> QED BY <1>5, <1>6, <2>1, <2>2
<1> QED BY <1>7, <1>8, <1>9, <1>10, <1>11

LEMMA WaitedPairs ==
    ASSUME TypeOK, PairInv, ReplaceConfiguration \/ ConnectToNetwork
    PROVE  PairInv'
<1> DEFINE n == [mgr EXCEPT !.suppressed = FALSE]
           Keeps(m) == /\ m \in Managers /\ m.connected = mgr.connected
                       /\ m.ssid = mgr.ssid /\ m.password = mgr.password
<1>1. Keeps(mgr) /\ Keeps(n) /\ Keeps(Scheduled(mgr))
    <2>1. mgr \in Managers
        BY DEF TypeOK
    <2> QED BY <2>1, HashTypes, ScheduledKeeps DEF Managers
<1>2. PICK m, races : Becomes(m, races) /\ Keeps(m)
    BY <1>1 DEF ReplaceConfiguration, ConnectToNetwork
<1>3. HandlerFrame /\ LinksOpened(events')
    BY DEF ReplaceConfiguration, ConnectToNetwork, PairInv
<1>4. Quiet' => ManagerPair
    BY <1>2 DEF Becomes, Quiet, PairInv
<1>5. Quiet' => (m.connected => m.password = m.ssid)
    BY <1>2, <1>4 DEF ManagerPair
<1> QED BY <1>2, <1>3, <1>5, HandlerKeepsPair

LEMMA SavePairs ==
    ASSUME TypeOK, PairInv, SaveTimerExpires \/ SaveStep \/ SaveDone
    PROVE  PairInv'
<1>1. mgr \in Managers /\ timer_task \in TimerTasks /\ LinksOpened(events)
      /\ nvs \in [enabled : BOOLEAN, ssid : Texts, password : Texts]
    BY DEF TypeOK, PairInv
<1>2. LinksOpened(events') /\ form' = form
    BY <1>1 DEF SaveTimerExpires, SaveStep, SaveDone, driverVars, storeVars
<1> SUFFICES ASSUME Quiet' PROVE (ManagerPair /\ SavingPair /\ FlashPair)'
    BY <1>2 DEF PairInv
<1>3. Quiet /\ ManagerPair /\ SavingPair /\ FlashPair
    BY DEF SaveTimerExpires, SaveStep, SaveDone, Quiet, PairInv
<1>4. /\ mgr'.connected = mgr.connected /\ mgr'.ssid = mgr.ssid
      /\ mgr'.password = mgr.password
    BY <1>1 DEF SaveTimerExpires, SaveStep, SaveDone, Managers
<1>5. CASE SaveTimerExpires
    <2>1. /\ timer_task.at = "idle" /\ nvs' = nvs
          /\ timer_task'.at \in {"idle", "enabled"}
          /\ timer_task'.at = "enabled" => timer_task'.connected = mgr.connected
        BY <1>5 DEF SaveTimerExpires, storeVars
    <2> QED BY <1>2, <1>3, <1>4, <2>1 DEF ManagerPair, SavingPair, FlashPair, Saving
<1>6. CASE SaveDone
    <2>1. timer_task.at = "done" /\ nvs' = nvs /\ timer_task'.at = "idle"
        BY <1>6 DEF SaveDone, storeVars, TimerIdle
    <2> QED BY <1>2, <1>3, <1>4, <2>1 DEF ManagerPair, SavingPair, FlashPair, Saving
<1>7. CASE SaveStep
    <2>1. form = FormIdle /\ mgr' = mgr
        BY <1>7 DEF SaveStep, Quiet
    <2>2. /\ timer_task.at \in {"enabled", "ssid", "password"}
          /\ timer_task'.connected = timer_task.connected
          /\ timer_task'.at \in {"ssid", "password", "done"}
        BY <1>1, <1>7 DEF SaveStep, TimerTasks
    <2>3. ManagerPair'
        BY <1>3, <1>4, <2>2 DEF ManagerPair, Saving
    <2>4. CASE timer_task.at = "enabled"
        <3>1. nvs'.ssid = nvs.ssid /\ nvs'.password = nvs.password
            BY <1>1, <1>7, <2>4 DEF SaveStep
        <3>2. timer_task'.at = "ssid" => timer_task.connected /\ mgr.ssid # NoText
            BY <1>1, <1>7, <2>4 DEF SaveStep, TimerTasks
        <3>3. timer_task'.at # "password"
            BY <1>1, <1>7, <2>4 DEF SaveStep, TimerTasks
        <3> QED BY <1>2, <1>3, <2>1, <2>2, <2>3, <2>4, <3>1, <3>2, <3>3 DEF SavingPair, FlashPair
    <2>5. CASE timer_task.at = "ssid"
        <3>1. mgr.ssid # NoText /\ timer_task.connected
            BY <1>3, <2>5 DEF SavingPair
        <3>2. nvs'.ssid = mgr.ssid /\ timer_task'.at = "password"
            BY <1>1, <1>7, <2>5, <3>1 DEF SaveStep, TimerTasks
        <3> QED BY <1>2, <2>1, <2>2, <2>3, <3>1, <3>2 DEF SavingPair, FlashPair
    <2>6. CASE timer_task.at = "password"
        <3>1. nvs.ssid = mgr.ssid /\ mgr.password = mgr.ssid
            BY <1>3, <2>6 DEF SavingPair, ManagerPair, Saving
        <3>2. /\ nvs'.ssid = nvs.ssid /\ nvs'.password = mgr.password
              /\ timer_task'.at = "done"
            BY <1>1, <1>7, <2>6 DEF SaveStep, TimerTasks
        <3> QED BY <1>2, <2>1, <2>3, <3>1, <3>2 DEF SavingPair, FlashPair
    <2> QED BY <2>2, <2>3, <2>4, <2>5, <2>6
<1> QED BY <1>5, <1>6, <1>7

LEMMA ReconnectPairs ==
    ASSUME TypeOK, PairInv, ReconnectTimerExpires \/ ActOnReconnect
    PROVE  PairInv'
<1>1. /\ mgr \in Managers /\ wifi \in Interfaces /\ events \in Seq(Events)
      /\ LinksOpened(events)
    BY DEF TypeOK, DriverTypeOK, PairInv
<1>2. LinksOpened(events')
    <2>1. LinksOpened(events \o LeavingEvents(wifi))
        BY <1>1, LeavingOpened, ConcatOpened
    <2> QED BY <1>1, <2>1 DEF ReconnectTimerExpires, ActOnReconnect, driverVars
<1>3. /\ timer_task.at \in {"idle", "reassociate", "reconnect"}
      /\ timer_task'.at \in {"idle", "reassociate", "reconnect"}
    <2>1. ASSUME NEW place \in {"idle", "reassociate", "reconnect"}
          PROVE  [TimerIdle EXCEPT !.at = place].at = place /\ TimerIdle.at = "idle"
        BY <2>1 DEF TimerIdle
    <2> QED BY <2>1 DEF ReconnectTimerExpires, ActOnReconnect
<1>4. UNCHANGED <<nvs, form>> /\ (Quiet' => Quiet)
    BY DEF ReconnectTimerExpires, ActOnReconnect, storeVars, Quiet
<1>5. /\ mgr'.connected = mgr.connected /\ mgr'.ssid = mgr.ssid
      /\ mgr'.password = mgr.password
    BY <1>1 DEF ReconnectTimerExpires, ActOnReconnect, Managers
<1> QED BY <1>2, <1>3, <1>4, <1>5 DEF PairInv, ManagerPair, SavingPair, FlashPair, Saving

LEMMA UserPairs ==
    ASSUME TypeOK, PairInv, UserStep \/ PortalSavesPassword
    PROVE  PairInv'
<1>1. UNCHANGED <<mgr, timer_task>> /\ (Quiet' => Quiet)
    BY DEF UserStep, SelectNetwork, ConfirmPassword, AskToDisconnect, PortalStartsOrStops,
        PortalSavesName, PortalSavesPassword, UserFrame, Quiet
<1>2. LinksOpened(events')
    <2>1. events \in Seq(Events) /\ LinksOpened(events)
        BY DEF TypeOK, DriverTypeOK, PairInv
    <2>2. ASSUME NEW e \in Events, e.type # "CONNECTED",
                 events' = IF Room THEN Append(events, e) ELSE events
          PROVE  LinksOpened(events')
        BY <2>1, <2>2, AppendOpened
    <2>3. \A n \in Networks : LET e == Event("SET_NETWORK", [ssid |-> n, password |-> NoText])
                              IN  e \in Events /\ e.type # "CONNECTED"
        BY DEF Event, Events, Credentials, Texts
    <2>4. /\ LET e == Event("CONNECT", [ssid |-> NoText, password |-> dialog])
             IN  e \in Events /\ e.type # "CONNECTED"
          /\ LET e == Event("DISCONNECT", NoCredentials)
             IN  e \in Events /\ e.type # "CONNECTED"
          /\ LET e == Event("CREDENTIALS", form)
             IN  e \in Events /\ e.type # "CONNECTED"
        BY NetworkTypes DEF TypeOK, Event, Events, Credentials
    <2>5. CASE UNCHANGED events
        BY <2>1, <2>5
    <2>6. CASE \E n \in Networks : SelectNetwork(n)
        BY <2>2, <2>3, <2>6 DEF SelectNetwork, Ask
    <2>7. CASE ConfirmPassword \/ AskToDisconnect \/ PortalSavesPassword
        BY <2>2, <2>4, <2>7 DEF ConfirmPassword, AskToDisconnect, PortalSavesPassword, Ask
    <2> QED BY <2>5, <2>6, <2>7 DEF UserStep, PortalStartsOrStops, PortalSavesName, driverVars
<1> SUFFICES ASSUME Quiet' PROVE (ManagerPair /\ SavingPair /\ FlashPair)'
    BY <1>2 DEF PairInv
<1>3. Quiet /\ ManagerPair /\ SavingPair /\ FlashPair
    BY <1>1 DEF PairInv
<1>4. ManagerPair'
    BY <1>1, <1>3 DEF ManagerPair, Saving
<1>5. CASE UNCHANGED storeVars
    BY <1>1, <1>3, <1>4, <1>5 DEF SavingPair, FlashPair, storeVars
<1>6. ASSUME NEW n \in Networks, PortalSavesName(n)
      PROVE  (ManagerPair /\ SavingPair /\ FlashPair)'
    <2>1. ~Saving
        BY <1>6 DEF PortalSavesName, Quiet
    <2>2. form' = Entered(n) /\ form'.ssid = n /\ form'.password = n /\ nvs'.ssid = n
        BY <1>6 DEF PortalSavesName, Entered, TypeOK
    <2>3. form' # FormIdle
        BY <2>2, NoTextAssumption DEF FormIdle, NoCredentials
    <2> QED BY <1>1, <1>4, <2>1, <2>2, <2>3 DEF SavingPair, FlashPair, Saving
<1>7. CASE PortalSavesPassword
    <2>1. ~Saving /\ form # FormIdle /\ form' = FormIdle
        BY <1>7 DEF PortalSavesPassword, Quiet
    <2>2. nvs'.password = form.password /\ nvs'.ssid = nvs.ssid
        BY <1>7 DEF PortalSavesPassword, TypeOK
    <2> QED BY <1>1, <1>3, <1>4, <2>1, <2>2 DEF SavingPair, FlashPair, Saving
<1> QED BY <1>5, <1>6, <1>7 DEF UserStep, SelectNetwork, ConfirmPassword, AskToDisconnect,
        PortalStartsOrStops

LEMMA EnvironmentPairs ==
    ASSUME TypeOK, PairInv, EnvironmentFrame, DriverStep \/ ServiceChanges
    PROVE  PairInv'
<1>1. /\ wifi \in Interfaces /\ events \in Seq(Events) /\ serving \subseteq Networks
      /\ LinksOpened(events)
    BY DEF TypeOK, DriverTypeOK, PairInv
<1>2. LinksOpened(events')
    <2>1. \A type \in {"CONNECTED", "DISCONNECTED", "GOT_IP", "LOST_IP"} :
             /\ Event(type, wifi.ap) \in Events /\ Event(type, wifi.ap).type = type
             /\ Event(type, wifi.ap).network = wifi.ap
        BY <1>1 DEF Event, Events, Interfaces
    <2>2. CASE Associate
        <3>1. Opened(wifi.ap)
            BY <1>1, <2>2, NoTextAssumption DEF Associate, Opens, Opened
        <3> QED BY <1>1, <2>1, <2>2, <3>1, AppendOpened DEF Associate, Post
    <2>3. CASE LoseLink \/ GetAddress \/ LoseAddress
        <3>1. PICK type \in {"DISCONNECTED", "GOT_IP", "LOST_IP"} :
                 events' = Append(events, Event(type, wifi.ap))
            BY <2>3 DEF LoseLink, GetAddress, LoseAddress, Post
        <3> QED BY <1>1, <2>1, <3>1, AppendOpened
    <2>4. CASE ServiceChanges
        BY <1>1, <2>4 DEF ServiceChanges
    <2> QED BY <2>2, <2>3, <2>4 DEF DriverStep
<1>3. UNCHANGED <<nvs, form, mgr, timer_task, disturbed>>
    BY DEF EnvironmentFrame, storeVars
<1> QED BY <1>2, <1>3 DEF PairInv, Quiet, ManagerPair, SavingPair, FlashPair, Saving

LEMMA PowerPair == TypeOK /\ PairInv /\ PowerFails => PairInv'
<1> SUFFICES ASSUME TypeOK, PairInv, PowerFails PROVE PairInv'
    OBVIOUS
<1>1. LinksOpened(events')
    BY DEF PowerFails, BootEvents, Event, LinksOpened
<1>2. Quiet' => Quiet /\ form = FormIdle /\ timer_task.at # "password"
    BY DEF PowerFails, Quiet
<1>3. /\ mgr'.connected = FALSE /\ timer_task'.at = "idle" /\ form' = FormIdle
      /\ UNCHANGED nvs
    BY DEF PowerFails, Loaded, TimerIdle
<1> QED BY <1>1, <1>2, <1>3 DEF PairInv, ManagerPair, SavingPair, FlashPair, Saving

LEMMA NextPair == TypeOK /\ PairInv /\ [Next]_vars => PairInv'
<1> SUFFICES ASSUME TypeOK, PairInv, [Next]_vars PROVE PairInv'
    OBVIOUS
<1>1. CASE HandleEvent
    BY <1>1, LinkPairs, RequestPairs, WaitedPairs DEF HandleEvent
<1>2. CASE TimerTask
    BY <1>2, SavePairs, ReconnectPairs DEF TimerTask
<1>3. CASE (DriverStep \/ ServiceChanges) /\ EnvironmentFrame
    BY <1>3, EnvironmentPairs
<1>4. CASE UserStep \/ PortalSavesPassword
    BY <1>4, UserPairs
<1>5. CASE PowerFails
    BY <1>5, PowerPair
<1>6. CASE UNCHANGED vars
    BY <1>6 DEF PairInv, Quiet, ManagerPair, SavingPair, FlashPair, Saving, vars, driverVars,
        storeVars
<1> QED BY <1>1, <1>2, <1>3, <1>4, <1>5, <1>6 DEF Next

\* Between two writes the saved name and password were entered together
\* (save_wifi_credentials_to_nvs, on_wifi_event and handle_save_post), unless one
\* of the five races that SavedPairBelongsTogether names came in.
THEOREM SavedPairBelongsTogetherHolds == Spec => []SavedPairBelongsTogether
<1>1. PairInv => SavedPairBelongsTogether
    BY DEF PairInv, Quiet, FlashPair, SavedPairBelongsTogether
<1> QED BY <1>1, InitPair, NextPair, TypeCorrect, PTL DEF Spec
=============================================================================
