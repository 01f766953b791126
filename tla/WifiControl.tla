---------------------------- MODULE WifiControl ----------------------------
(***************************************************************************)
(* components/settings: wifi_ctrl.c with credentials.c and wifi.c.  The    *)
(* event loop handles the driver's events and the user's requests, the     *)
(* timer task reconnects and saves, the portal's HTTP task stores new      *)
(* credentials, and the panel may lose power at any moment.                *)
(***************************************************************************)
EXTENDS WifiDriver, FiniteSets

CONSTANTS
    MaxInputs       \* bound: requests, portal switches, outages and power failures

VARIABLES
    nvs,            \* flash: wifi_enabled, wifi_ssid, wifi_pass
    mgr,            \* s_mgr
    loop,           \* what the event loop's handler still has to do
    timer_task,     \* what the timer task's callback still has to do
    form,           \* the portal's save handler between its two writes
    portal,         \* s_portal_running
    dialog,         \* the network the password dialog asks about
    inputs,         \* how many of MaxInputs have been made
    disturbed       \* history: which of the known races have happened

storeVars == <<nvs, form>>
userVars == <<dialog, inputs>>
vars == <<driverVars, storeVars, userVars, mgr, loop, timer_task, portal, disturbed>>

Idle == [at |-> "idle", target |-> NoCredentials, save |-> FALSE]
TimerIdle == [at |-> "idle", enabled |-> FALSE, connected |-> FALSE, hash |-> <<>>]
FormIdle == NoCredentials


\* calculate_state_hash; the password is not part of it.
Hash(m) == <<m.started, m.connected, IF m.connected THEN m.ssid ELSE NoText>>

Hashes == {<<>>} \union (BOOLEAN \X BOOLEAN \X Texts)

Managers ==
    [started : BOOLEAN, connected : BOOLEAN, ip_lost : BOOLEAN, suppressed : BOOLEAN,
     auto_connect : BOOLEAN, ssid : Texts, password : Texts,
     pending_save : BOOLEAN, last_hash : Hashes,
     save_timer : BOOLEAN, reconnect_timer : BOOLEAN]

----------------------------------------------------------------------------
(* Start-up: wifi_ctrl_init with wifi_ctrl_load_state *)

\* settings_config_load_wifi_enabled
LoadWifiEnabled(n) == n.enabled

\* The saved network is used only if Wi-Fi was saved as enabled.
Loaded(n) ==
    LET saved == LoadWifiEnabled(n) /\ n.ssid # NoText
    IN  [started |-> FALSE, connected |-> FALSE, ip_lost |-> TRUE, suppressed |-> FALSE,
         auto_connect |-> saved,
         ssid |-> IF saved THEN n.ssid ELSE NoText,
         password |-> IF saved THEN n.password ELSE NoText,
         pending_save |-> FALSE, last_hash |-> <<>>,
         save_timer |-> FALSE, reconnect_timer |-> FALSE]

\* Both functions post the request to switch Wi-Fi on.
BootEvents == <<Event("ENABLE", NoCredentials), Event("ENABLE", NoCredentials)>>

Init ==
    /\ \E n \in {NoText} \union Networks :
          nvs = [enabled |-> n # NoText, ssid |-> n, password |-> n]
    /\ mgr = Loaded(nvs)
    /\ wifi = DriverOff /\ serving \in SUBSET Networks /\ dhcp = TRUE
    /\ events = BootEvents
    /\ loop = Idle /\ timer_task = TimerIdle /\ form = FormIdle
    /\ portal = FALSE /\ dialog = NoText
    /\ inputs = 0 /\ disturbed = {}

Input == inputs < MaxInputs /\ inputs' = inputs + 1

\* Everything but the flash is lost; a write between the name and the password
\* leaves the pair torn.
PowerFails ==
    /\ Input
    /\ disturbed' = disturbed \union
          {d \in {"torn"} : timer_task.at = "password" \/ form # FormIdle}
    /\ mgr' = Loaded(nvs)
    /\ wifi' = DriverOff /\ events' = BootEvents
    /\ loop' = Idle /\ timer_task' = TimerIdle /\ form' = FormIdle
    /\ portal' = FALSE /\ dialog' = NoText
    /\ UNCHANGED <<nvs, serving, dhcp>>

----------------------------------------------------------------------------
(* State saving: wifi_ctrl_schedule_state_save and save_state_timer_cb *)

Scheduled(m) ==
    IF Hash(m) = m.last_hash THEN m
    ELSE [m EXCEPT !.pending_save = TRUE, !.save_timer = TRUE]

Saving == timer_task.at \in {"enabled", "ssid", "password", "done"}

\* The callback reads the name and the password without the mutex, and clears
\* pending_save when it is done: what changes meanwhile can be torn or missed.
Overlap(m) ==
    {d \in {"overlap"} :
        Saving /\ <<Hash(m), m.ssid, m.password>> # <<Hash(mgr), mgr.ssid, mgr.password>>}

SaveTimerExpires ==
    /\ timer_task.at = "idle" /\ mgr.save_timer
    /\ IF mgr.pending_save /\ Hash(mgr) # mgr.last_hash
       THEN /\ timer_task' = [at |-> "enabled", enabled |-> mgr.started,
                              connected |-> mgr.connected, hash |-> Hash(mgr)]
            /\ mgr' = [mgr EXCEPT !.save_timer = FALSE]
       ELSE /\ mgr' = [mgr EXCEPT !.save_timer = FALSE, !.pending_save = FALSE]
            /\ UNCHANGED timer_task
    /\ UNCHANGED <<driverVars, storeVars, userVars, loop, portal, disturbed>>

\* settings_config_save_wifi_enabled
SaveWifiEnabled(enabled) == nvs' = [nvs EXCEPT !.enabled = enabled]

\* First that, then save_wifi_credentials_to_nvs.
SaveStep ==
    /\ \/ /\ timer_task.at = "enabled"
          /\ SaveWifiEnabled(timer_task.enabled)
          /\ timer_task' = [timer_task EXCEPT
                !.at = IF timer_task.connected /\ mgr.ssid # NoText THEN "ssid" ELSE "done"]
       \/ /\ timer_task.at = "ssid"
          /\ nvs' = IF mgr.ssid = NoText THEN nvs ELSE [nvs EXCEPT !.ssid = mgr.ssid]
          /\ timer_task' = [timer_task EXCEPT !.at = "password"]
       \/ /\ timer_task.at = "password"
          /\ nvs' = [nvs EXCEPT !.password = mgr.password]
          /\ timer_task' = [timer_task EXCEPT !.at = "done"]
    /\ disturbed' = disturbed \union {d \in {"overlap"} : form # FormIdle}
    /\ UNCHANGED <<driverVars, userVars, mgr, loop, form, portal>>

SaveDone ==
    /\ timer_task.at = "done"
    /\ mgr' = [mgr EXCEPT !.last_hash = timer_task.hash, !.pending_save = FALSE]
    /\ timer_task' = TimerIdle
    /\ UNCHANGED <<driverVars, storeVars, userVars, loop, portal, disturbed>>

----------------------------------------------------------------------------
(* reconnect_timer_cb: decide under the mutex, act after giving it back *)

RecoveryWanted(m) ==
    IF m.connected THEN m.ip_lost ELSE m.ssid # NoText

ReconnectTimerExpires ==
    /\ timer_task.at = "idle" /\ mgr.reconnect_timer
    /\ LET allowed == mgr.started /\ ~mgr.suppressed /\ ~portal
           recover == allowed /\ RecoveryWanted(mgr)
       IN  /\ timer_task' = [TimerIdle EXCEPT !.at =
                  IF ~recover THEN "idle"
                  ELSE IF mgr.connected THEN "reassociate" ELSE "reconnect"]
           /\ mgr' = [mgr EXCEPT !.reconnect_timer = FALSE,
                                 !.ip_lost = @ /\ ~(recover /\ mgr.connected)]
           /\ disturbed' = disturbed \union {d \in {"deferred"} : portal /\ RecoveryWanted(mgr)}
    /\ UNCHANGED <<driverVars, storeVars, userVars, loop, portal>>

\* esp_wifi_disconnect, or esp_wifi_connect with whatever configuration the
\* driver has.  A refused connection is tried again.
ActOnReconnect ==
    /\ \/ /\ timer_task.at = "reassociate"
          /\ wifi' = Left(wifi) /\ events' = events \o LeavingEvents(wifi)
          /\ UNCHANGED mgr
       \/ /\ timer_task.at = "reconnect"
          /\ wifi' = Connected(wifi)
          /\ mgr' = [mgr EXCEPT !.reconnect_timer = @ \/ ~CanConnect(wifi)]
          /\ UNCHANGED events
    /\ timer_task' = TimerIdle
    /\ disturbed' = disturbed \union {d \in {"undone"} : mgr.suppressed}
    /\ UNCHANGED <<serving, dhcp, storeVars, userVars, loop, portal>>

----------------------------------------------------------------------------
(* The event loop: on_wifi_event, on_ip_event, on_ui_request, on_uart_event *)

Take(type) == loop.at = "idle" /\ events # <<>> /\ Head(events).type = type
Subject == Head(events).network

\* The manager after a handler, and the races it may have run into.
Becomes(m, races) ==
    /\ mgr' = m
    /\ disturbed' = disturbed \union races \union Overlap(m)

HandlerFrame == UNCHANGED <<serving, dhcp, storeVars, timer_task, portal>>

\* ENABLE_REQ with true, the only value ever posted.
EnableRequest ==
    /\ Take("ENABLE")
    /\ Becomes([mgr EXCEPT !.suppressed = FALSE], {})
    /\ wifi' = [wifi EXCEPT !.on = TRUE]
    /\ events' = Tail(events) \o
          (IF wifi.on THEN <<>> ELSE <<Event("START", NoCredentials)>>)
    /\ UNCHANGED <<loop, userVars>> /\ HandlerFrame

\* Without a saved name and password the state is saved at once; otherwise
\* after the attempt has been started.
StationStarted ==
    /\ Take("START")
    /\ LET m == [mgr EXCEPT !.started = TRUE, !.suppressed = FALSE]
           automatic == m.auto_connect /\ m.ssid # NoText /\ m.password # NoText
           target == [ssid |-> m.ssid, password |-> m.password]
       IN  /\ loop' = IF automatic THEN [at |-> "connect", target |-> target, save |-> TRUE]
                      ELSE Idle
           /\ Becomes(IF automatic THEN m ELSE Scheduled(m), {})
    /\ events' = Tail(events)
    /\ UNCHANGED <<wifi, userVars>> /\ HandlerFrame

\* Mutant: the password is left as it was.
ConnectedKeepsPassword ==
    /\ Take("CONNECTED")
    /\ Becomes(Scheduled([mgr EXCEPT !.connected = TRUE, !.ip_lost = TRUE,
                                     !.reconnect_timer = FALSE, !.ssid = Subject.ssid]), {})
    /\ events' = Tail(events)
    /\ UNCHANGED <<wifi, loop, userVars>> /\ HandlerFrame

\* The name comes from the event, the password from the driver's configuration,
\* which may have been replaced since.
StationConnected ==
    /\ Take("CONNECTED")
    /\ LET m == [mgr EXCEPT !.connected = TRUE, !.ip_lost = TRUE, !.reconnect_timer = FALSE,
                            !.ssid = Subject.ssid,
                            !.password = IF wifi.config.password # NoText
                                         THEN wifi.config.password ELSE @]
       IN  Becomes(Scheduled(m),
                   {d \in {"overtaken"} : wifi.config # Subject} \union
                   {d \in {"overwritten"} : dialog \notin {NoText, Subject.ssid}})
    /\ events' = Tail(events)
    /\ UNCHANGED <<wifi, loop, userVars>> /\ HandlerFrame

\* Mutant: the reconnect timer is not started.
DisconnectedWithoutTimer ==
    /\ Take("DISCONNECTED")
    /\ LET again == mgr.started /\ ~mgr.suppressed /\ ~portal
       IN  Becomes(Scheduled([mgr EXCEPT !.connected = FALSE, !.ip_lost = TRUE,
                        !.ssid = IF again THEN Subject.ssid ELSE NoText,
                        !.password = IF again THEN @ ELSE NoText]),
                   {d \in {"deferred"} : portal /\ ~mgr.suppressed})
    /\ events' = Tail(events)
    /\ UNCHANGED <<wifi, loop, userVars>> /\ HandlerFrame

\* The network of the event becomes the one to reconnect to, whatever the user
\* has selected meanwhile.
StationDisconnected ==
    /\ Take("DISCONNECTED")
    /\ LET again == mgr.started /\ ~mgr.suppressed /\ ~portal
           m == [mgr EXCEPT !.connected = FALSE, !.ip_lost = TRUE,
                            !.ssid = IF again THEN Subject.ssid ELSE NoText,
                            !.password = IF again THEN @ ELSE NoText,
                            !.reconnect_timer = @ \/ again]
       IN  Becomes(Scheduled(m),
                   {d \in {"deferred"} : portal /\ ~mgr.suppressed} \union
                   {d \in {"overwritten"} : dialog \notin {NoText, m.ssid}})
    /\ events' = Tail(events)
    /\ UNCHANGED <<wifi, loop, userVars>> /\ HandlerFrame

AddressReceived ==
    /\ Take("GOT_IP")
    /\ Becomes([mgr EXCEPT !.ip_lost = FALSE, !.reconnect_timer = FALSE], {})
    /\ events' = Tail(events)
    /\ UNCHANGED <<wifi, loop, userVars>> /\ HandlerFrame

AddressLost ==
    /\ Take("LOST_IP")
    /\ Becomes([mgr EXCEPT !.ip_lost = TRUE, !.reconnect_timer = @ \/ ~mgr.suppressed], {})
    /\ events' = Tail(events)
    /\ UNCHANGED <<wifi, loop, userVars>> /\ HandlerFrame

\* SET_NETWORK_REQ; the menu then shows the password dialog for the network.
SetNetwork ==
    /\ Take("SET_NETWORK")
    /\ Becomes([mgr EXCEPT !.ssid = Subject.ssid],
               {d \in {"reselected"} : mgr.connected /\ mgr.ssid # Subject.ssid})
    /\ dialog' = Subject.ssid
    /\ events' = Tail(events)
    /\ UNCHANGED <<wifi, loop, inputs>> /\ HandlerFrame

\* CONNECT_REQ carries the password only: the name is the manager's.
ConnectRequest ==
    /\ Take("CONNECT")
    /\ IF mgr.connected \/ ~mgr.started
       THEN UNCHANGED <<mgr, loop, disturbed>>
       ELSE /\ Becomes([mgr EXCEPT !.suppressed = FALSE, !.password = Subject.password],
                       {d \in {"overwritten"} : mgr.ssid # Subject.password})
            /\ loop' = IF mgr.ssid = NoText THEN Idle
                       ELSE [at |-> "connect", save |-> FALSE,
                             target |-> [ssid |-> mgr.ssid, password |-> Subject.password]]
    /\ events' = Tail(events)
    /\ UNCHANGED <<wifi, userVars>> /\ HandlerFrame

\* Mutant: reconnection is suppressed before the check.
DisconnectSuppressesFirst ==
    /\ Take("DISCONNECT")
    /\ Becomes([mgr EXCEPT !.suppressed = TRUE, !.reconnect_timer = FALSE], {})
    /\ wifi' = IF mgr.connected THEN Left(wifi) ELSE wifi
    /\ events' = Tail(events) \o (IF mgr.connected THEN LeavingEvents(wifi) ELSE <<>>)
    /\ UNCHANGED <<loop, userVars>> /\ HandlerFrame

DisconnectRequest ==
    /\ Take("DISCONNECT")
    /\ IF mgr.connected
       THEN /\ Becomes([mgr EXCEPT !.suppressed = TRUE, !.reconnect_timer = FALSE], {})
            /\ wifi' = Left(wifi)
            /\ events' = Tail(events) \o LeavingEvents(wifi)
       ELSE /\ events' = Tail(events)
            /\ UNCHANGED <<wifi, mgr, disturbed>>
    /\ UNCHANGED <<loop, userVars>> /\ HandlerFrame

\* RECIEVED_WIFI_CRED: leave the present network first, and wait 500 ms.
CredentialsReceived ==
    /\ Take("CREDENTIALS")
    /\ IF mgr.connected
       THEN /\ Becomes([mgr EXCEPT !.suppressed = TRUE], {})
            /\ wifi' = Left(wifi)
            /\ events' = Tail(events) \o LeavingEvents(wifi)
       ELSE /\ events' = Tail(events)
            /\ UNCHANGED <<wifi, mgr, disturbed>>
    /\ loop' = [at |-> "replace", target |-> Subject, save |-> FALSE]
    /\ UNCHANGED userVars /\ HandlerFrame

ReplaceConfiguration ==
    /\ loop.at = "replace"
    /\ wifi' = Configured(wifi, NoCredentials)
    /\ Becomes([mgr EXCEPT !.suppressed = FALSE], {})
    /\ loop' = [loop EXCEPT !.at = "connect"]
    /\ UNCHANGED <<events, userVars>> /\ HandlerFrame

\* connect_to_network, after up to a second of waiting for the scanner.
ConnectToNetwork ==
    /\ loop.at = "connect"
    /\ wifi' = WifiConnect(wifi, loop.target)
    /\ Becomes(IF loop.save THEN Scheduled(mgr) ELSE mgr,
               {d \in {"refused"} : wifi.link = "trying"})
    /\ loop' = Idle
    /\ UNCHANGED <<events, userVars>> /\ HandlerFrame

HandleEvent ==
    \/ EnableRequest \/ StationStarted \/ StationConnected \/ StationDisconnected
    \/ AddressReceived \/ AddressLost \/ SetNetwork \/ ConnectRequest
    \/ DisconnectRequest \/ CredentialsReceived \/ ReplaceConfiguration \/ ConnectToNetwork

----------------------------------------------------------------------------
(* The user, at the screen or at the portal's page; full queues drop requests *)

Ask(e) ==
    /\ Input
    /\ events' = IF Room THEN Append(events, e) ELSE events

UserFrame == UNCHANGED <<wifi, serving, dhcp, mgr, loop, timer_task, disturbed>>

SelectNetwork(n) ==
    /\ Ask(Event("SET_NETWORK", [ssid |-> n, password |-> NoText]))
    /\ UNCHANGED <<storeVars, dialog, portal>> /\ UserFrame

\* The password of the network the dialog names.
ConfirmPassword ==
    /\ dialog # NoText
    /\ Ask(Event("CONNECT", [ssid |-> NoText, password |-> dialog]))
    /\ dialog' = NoText
    /\ UNCHANGED <<storeVars, portal>> /\ UserFrame

AskToDisconnect ==
    /\ Ask(Event("DISCONNECT", NoCredentials))
    /\ UNCHANGED <<storeVars, dialog, portal>> /\ UserFrame

PortalStartsOrStops ==
    /\ Input
    /\ portal' = ~portal
    /\ portal \/ ~mgr.connected
    /\ UNCHANGED <<events, storeVars, dialog>> /\ UserFrame

\* handle_save_post in AP mode: the name, then the password and the event.
PortalSavesName(n) ==
    /\ portal /\ form = FormIdle /\ Input
    /\ form' = Entered(n)
    /\ nvs' = [nvs EXCEPT !.ssid = n]
    /\ disturbed' = disturbed \union {d \in {"overlap"} : Saving}
    /\ UNCHANGED <<driverVars, dialog, mgr, loop, timer_task, portal>>

PortalSavesPassword ==
    /\ form # FormIdle
    /\ nvs' = [nvs EXCEPT !.password = form.password]
    /\ form' = FormIdle
    /\ events' = IF Room THEN Append(events, Event("CREDENTIALS", form)) ELSE events
    /\ disturbed' = disturbed \union
          {d \in {"overlap"} : Saving} \union {d \in {"dropped"} : ~Room}
    /\ UNCHANGED <<userVars, portal, wifi, serving, dhcp, mgr, loop, timer_task>>

UserStep ==
    \/ \E n \in Networks : SelectNetwork(n) \/ PortalSavesName(n)
    \/ ConfirmPassword \/ AskToDisconnect \/ PortalStartsOrStops

EnvironmentFrame ==
    UNCHANGED <<storeVars, dialog, mgr, loop, timer_task, portal, disturbed>>

TimerTask == SaveTimerExpires \/ SaveStep \/ SaveDone \/ ReconnectTimerExpires \/ ActOnReconnect

Next ==
    \/ HandleEvent \/ TimerTask
    \/ DriverStep /\ EnvironmentFrame /\ UNCHANGED inputs
    \/ ServiceChanges /\ EnvironmentFrame /\ Input
    \/ UserStep \/ PortalSavesPassword
    \/ PowerFails

\* The event loop and the timer task run, timers expire, the driver finishes its
\* attempts and DHCP exchanges.  Neither the user nor the networks have to act.
Fairness ==
    /\ WF_vars(HandleEvent) /\ WF_vars(PortalSavesPassword)
    /\ WF_vars(SaveTimerExpires) /\ WF_vars(SaveStep) /\ WF_vars(SaveDone)
    /\ WF_vars(ReconnectTimerExpires) /\ WF_vars(ActOnReconnect)
    /\ WF_vars(DriverStep /\ EnvironmentFrame /\ UNCHANGED inputs)

Spec == Init /\ [][Next]_vars
FairSpec == Spec /\ Fairness

----------------------------------------------------------------------------
(* Properties *)

Loops == [at : {"idle", "connect", "replace"}, target : Credentials, save : BOOLEAN]

TimerTasks ==
    [at : {"idle", "enabled", "ssid", "password", "done", "reassociate", "reconnect"},
     enabled : BOOLEAN, connected : BOOLEAN, hash : Hashes]

Races ==
    {"torn", "overlap", "overtaken", "overwritten", "reselected", "undone", "deferred",
     "dropped", "refused"}

\* Every variable keeps its type.
TypeOK ==
    /\ DriverTypeOK
    /\ nvs \in [enabled : BOOLEAN, ssid : Texts, password : Texts]
    /\ mgr \in Managers
    /\ loop \in Loops
    /\ timer_task \in TimerTasks
    /\ form \in Credentials /\ portal \in BOOLEAN /\ dialog \in Texts
    /\ inputs \in Nat
    /\ disturbed \subseteq Races

\* Between two writes the saved name and password are ones the user entered
\* together, unless one of five races came in: power failed or the state changed
\* in the middle of a write (wifi_ctrl.c:105), a link was reported after its
\* configuration had been replaced (288), an event replaced the network the
\* password dialog is about (355), or a network was selected while connected (454).
SavedPairBelongsTogether ==
    /\ timer_task.at # "password" /\ form = FormIdle
    /\ disturbed \subseteq {"undone", "deferred", "dropped", "refused"}
    => nvs.password = nvs.ssid

\* After the user's DISCONNECT_REQ the station stays down until a connection is
\* asked for, unless the reconnect timer had decided before and acts now
\* (wifi_ctrl.c:134 and 143).
DisconnectIsRespected ==
    mgr.suppressed /\ "undone" \notin disturbed => wifi.link = "down"

\* A station that is configured for the manager's network and allowed to
\* reconnect gets its link and its address back once the network serves it, unless
\* the portal was up when the link broke or the timer expired, for nothing starts
\* the timer again then (wifi_ctrl.c:122, 356), or the user's choice was
\* overwritten, which lifts the suppression without an attempt (473).
Recoverable ==
    /\ serving = Networks /\ dhcp /\ ~portal
    /\ mgr.started /\ ~mgr.suppressed
    /\ mgr.ssid # NoText /\ wifi.config = Entered(mgr.ssid)
    /\ disturbed \intersect {"deferred", "overwritten"} = {}

LinkRecovers ==
    <>[]Recoverable => <>[](mgr.connected /\ ~mgr.ip_lost /\ wifi.ip)

=============================================================================
