------------------------------ MODULE WifiMenu ------------------------------
(***************************************************************************)
(* components/settings/src/ui/wifi_menu.c: the Wi-Fi section of the        *)
(* settings and its list of networks, on top of the scanner.  The menu's   *)
(* handlers run in the event loop and leave the drawing to LVGL with       *)
(* lv_async_call, which runs the newest call first.                        *)
(***************************************************************************)
EXTENDS WifiScan, FiniteSets

CONSTANTS
    MaxHandlers     \* bound: sets of event handlers registered at once

ASSUME HandlersAssumption == MaxHandlers \in 1..(MaxInputs + 1)

VARIABLES
    menu,           \* s_wifi_menu, wifi_menu_active, and whether settings are open
    handlers,       \* registered sets of handlers
    async,          \* LVGL's pending async calls, the one to run next first
    ui,             \* what a callback of LVGL still has to do
    portal          \* config_portal_is_running()

menuVars == <<menu, handlers, async, ui, portal>>
vars == <<scanVars, menuVars>>

Closed == [open |-> FALSE, active |-> FALSE, registered |-> FALSE, in_progress |-> FALSE,
           cached |-> FALSE, label |-> FALSE, button |-> FALSE]

\* wifi_menu_create
Opened == [Closed EXCEPT !.open = TRUE, !.registered = TRUE, !.label = TRUE]

\* The settings have just been opened; every earlier time the Wi-Fi section was
\* not shown left its handlers behind, and counts as an input.
Init ==
    /\ ScanInit
    /\ handlers \in 1..MaxHandlers /\ inputs = handlers - 1
    /\ menu = Opened /\ async = <<>> /\ ui = "idle" /\ portal = FALSE

RadioFrame == UNCHANGED <<station, scan, scanner, loop, radio, inputs>>

----------------------------------------------------------------------------
(* The menu's handlers in the event loop; wifi_ctrl.c's run before them *)

\* One call for every registered set.
Called(call) == [i \in 1..handlers |-> call] \o async

ScanDone ==
    /\ Take("DONE")
    /\ IF menu.active /\ menu.in_progress
       THEN /\ menu' = [menu EXCEPT !.in_progress = FALSE]
            /\ events' = Posted(Tail(events), "DISABLE")
            /\ async' = <<"display">> \o async
       ELSE events' = Tail(events) /\ UNCHANGED <<menu, async>>
    /\ UNCHANGED <<station, scan, loop, radio, handlers, ui, portal, disturbed>> /\ LoopFrame

LinkReported ==
    /\ \/ Take("CONNECTED") /\ station' = [station EXCEPT !.connected = TRUE]
       \/ Take("DISCONNECTED") /\ station' = [station EXCEPT !.connected = FALSE]
    /\ async' = IF menu.active THEN Called(Head(events)) ELSE async
    /\ events' = Tail(events)
    /\ UNCHANGED <<scan, loop, radio, menu, handlers, ui, portal, disturbed>> /\ LoopFrame

----------------------------------------------------------------------------
(* LVGL: async calls *)

Post(e) ==
    /\ events' = Posted(events, e)
    /\ disturbed' = disturbed \union Lost(events)

\* start_portal_if_needed; the start may fail.
StartPortal(running) ==
    IF menu.active /\ ~station.connected /\ ~running
    THEN radio' = BlockingScan(radio) /\ portal' \in BOOLEAN
    ELSE radio' = radio /\ portal' = running

Runs(call) == ui = "idle" /\ async # <<>> /\ Head(async) = call /\ async' = Tail(async)

DisplayScanData ==
    /\ Runs("display")
    /\ IF menu.active
       THEN menu' = [menu EXCEPT !.label = FALSE, !.cached = TRUE] /\ StartPortal(portal)
       ELSE UNCHANGED <<menu, radio, portal>>
    /\ UNCHANGED <<station, scan, scanner, loop, events, inputs, handlers, ui, disturbed>>

OnConnected ==
    /\ Runs("CONNECTED")
    /\ menu' = [menu EXCEPT !.button = @ \/ menu.active]
    /\ portal' = (portal /\ ~menu.active)
    /\ UNCHANGED <<handlers, ui, events, disturbed>> /\ RadioFrame

\* The portal is restarted and the scan too, 300 ms later.
OnDisconnected ==
    /\ Runs("DISCONNECTED")
    /\ IF menu.active
       THEN /\ menu' = [menu EXCEPT !.in_progress = FALSE, !.button = FALSE]
            /\ StartPortal(FALSE)
            /\ Post("DISABLE")
            /\ ui' = "rescan"
       ELSE UNCHANGED <<menu, radio, portal, events, disturbed, ui>>
    /\ UNCHANGED <<station, scan, scanner, loop, inputs, handlers>>

Rescan ==
    /\ ui = "rescan"
    /\ menu' = [menu EXCEPT !.in_progress = TRUE, !.label = TRUE]
    /\ Post("ENABLE")
    /\ ui' = "idle"
    /\ UNCHANGED <<handlers, async, portal>> /\ RadioFrame

----------------------------------------------------------------------------
(* LVGL: the user *)

User == ui = "idle" /\ Input
UserFrame == UNCHANGED <<station, scan, scanner, loop, radio>>

\* wifi_menu_create registers its handlers whatever is registered already.
OpenSettings ==
    /\ User /\ ~menu.open /\ handlers < MaxHandlers
    /\ menu' = Opened
    /\ handlers' = handlers + 1
    /\ UNCHANGED <<async, ui, portal, events, disturbed>> /\ UserFrame

\* wifi_menu_activate
ShowWifi ==
    /\ User /\ menu.open /\ ~menu.active /\ handlers < MaxHandlers + 1
    /\ menu' = [menu EXCEPT !.active = TRUE, !.registered = TRUE, !.button = station.connected,
                            !.in_progress = @ \/ ~menu.cached, !.label = @ \/ ~menu.cached]
    /\ handlers' = IF menu.registered THEN handlers ELSE handlers + 1
    /\ IF menu.cached
       THEN async' = <<"display">> \o async /\ UNCHANGED <<events, disturbed>>
       ELSE /\ events' = Posted(Posted(events, "DISABLE"), "ENABLE")
            /\ disturbed' = disturbed \union Lost(Posted(events, "DISABLE"))
            /\ UNCHANGED async
    /\ UNCHANGED <<ui, portal>> /\ UserFrame

\* wifi_menu_deactivate, as the section is left or the settings are closed, cancels
\* all calls but those for a new link; a menu that is not active keeps its handlers.
HideWifi ==
    /\ User /\ menu.open
    /\ \E close \in BOOLEAN :
          menu' = IF menu.active
                  THEN [Closed EXCEPT !.open = ~close, !.label = menu.label,
                                      !.button = menu.button]
                  ELSE [menu EXCEPT !.open = ~close]
    /\ IF menu.active
       THEN /\ handlers' = handlers - 1
            /\ async' = [i \in 1..Cardinality({c \in DOMAIN async : async[c] = "CONNECTED"})
                           |-> "CONNECTED"]
            /\ portal' = FALSE
            /\ Post("DISABLE")
       ELSE UNCHANGED <<handlers, async, portal, events, disturbed>>
    /\ UNCHANGED ui /\ UserFrame

PressDisconnect ==
    /\ User /\ menu.active /\ menu.button
    /\ menu' = [menu EXCEPT !.in_progress = FALSE]
    /\ Post("DISABLE")
    /\ ui' = "leave"
    /\ UNCHANGED <<handlers, async, portal>> /\ UserFrame

\* 200 ms later.
AskToDisconnect ==
    /\ ui = "leave"
    /\ Post("DISCONNECT")
    /\ ui' = "idle"
    /\ UNCHANGED <<menu, handlers, async, portal>> /\ RadioFrame

\* The password dialog is confirmed.
AskToConnect ==
    /\ User /\ menu.active
    /\ Post("CONNECT")
    /\ UNCHANGED <<menu, handlers, async, ui, portal>> /\ UserFrame

\* The portal's page is saved: credentials for the controller, and the end of
\* the portal.
PortalSaves ==
    /\ portal /\ Input
    /\ Post("CREDENTIALS")
    /\ portal' = FALSE
    /\ UNCHANGED <<menu, handlers, async, ui>> /\ UserFrame

LoopStep == ScanDone \/ LinkReported \/ (ControlStep /\ UNCHANGED menuVars)

UiStep ==
    DisplayScanData \/ OnConnected \/ OnDisconnected \/ Rescan \/ AskToDisconnect

UserStep ==
    OpenSettings \/ ShowWifi \/ HideWifi \/ PressDisconnect \/ AskToConnect \/ PortalSaves

Others == (ScannerStep \/ RadioStep) /\ UNCHANGED menuVars

Next ==
    \/ LoopStep \/ UiStep \/ UserStep \/ Others
    \/ LinkChanges /\ UNCHANGED menuVars

\* Tasks run, waits end, scans and attempts end.  Neither the user nor the access
\* point has to act.
Fairness ==
    /\ WF_vars(LoopStep) /\ WF_vars(UiStep)
    /\ WF_vars(ScannerStep /\ UNCHANGED menuVars)
    /\ WF_vars(RadioPosts /\ UNCHANGED menuVars)
    /\ WF_vars(ScanCompletes /\ UNCHANGED menuVars)
    /\ WF_vars(AttemptEnds /\ UNCHANGED menuVars)

Spec == Init /\ [][Next]_vars
FairSpec == Spec /\ Fairness

----------------------------------------------------------------------------
(* Properties *)

\* Every variable keeps its type, and an active menu has its handlers.
TypeOK ==
    /\ ScanTypeOK
    /\ menu \in [open : BOOLEAN, active : BOOLEAN, registered : BOOLEAN,
                 in_progress : BOOLEAN, cached : BOOLEAN, label : BOOLEAN, button : BOOLEAN]
    /\ menu.active => menu.open /\ menu.registered /\ handlers > 0
    /\ handlers \in 0..(MaxHandlers + 1)
    /\ \A i \in DOMAIN async : async[i] \in {"display", "CONNECTED", "DISCONNECTED"}
    /\ ui \in {"idle", "rescan", "leave"}
    /\ portal \in BOOLEAN
    /\ disturbed \subseteq {"request", "scan"}

\* When wifi_connect is called for the user the radio is not scanning, unless the
\* scanner was about to start as it was told to stop (wifi_ctrl.c:656), or had
\* been woken from its wait by a notification meant for something else and no
\* longer knew of its scan (663).
ScanMakesWay ==
    loop = "connect" /\ "scan" \notin disturbed => ~radio.scan

\* An active menu does not say "Scanning..." for ever, unless an event was dropped
\* (wifi_menu.c:262 posts without waiting), the scan was asked for before the
\* station had started (wifi_ctrl.c:686), a connection was asked for meanwhile
\* (480), or the user left a network that was gone already (wifi_menu.c:435).
ScanReachesList ==
    []<>(menu.active /\ menu.label => "request" \in disturbed)
=============================================================================
