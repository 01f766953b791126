-------------------------- MODULE SettingsSections --------------------------
(***************************************************************************)
(* The sections of the settings screen that share port 80 and the serial   *)
(* line: show_settings_section of ui_generator.c, the portal calls of      *)
(* wifi_menu.c, and the OpenPLC section (openplc_settings.c) with its own  *)
(* portal (openplc_config_portal.c), from an entered endpoint to flash and *)
(* to the OPC UA client.                                                   *)
(***************************************************************************)
EXTENDS ConfigPortal, UartHandler, Sequences

CONSTANTS
    Endpoints,      \* endpoint URLs
    QueueSize,      \* bound: endpoint events the event loop holds
    MaxInputs       \* bound: things the user and the network do

\* No endpoint.
Nothing == "nothing"

ASSUME SettingsAssumption ==
    /\ Endpoints # {} /\ Nothing \notin Endpoints
    /\ {QueueSize, MaxInputs} \subseteq Nat \ {0}

VARIABLES
    section,        \* the section shown, "closed" without settings
    ui,             \* what the LVGL task does besides work["ui"], and where it goes
    menu,           \* s_wifi_menu.portal_running, and a link change it will be told
    form,           \* the endpoint that the OpenPLC portal's save handler is about to post
    store,          \* the endpoint in flash, and the client's
    events,         \* endpoint events in the event loop's queue
    async,          \* endpoints LVGL has to apply, the next one first
    inputs          \* how many of MaxInputs have been used

endpointVars == <<form, store, events, async>>
vars == <<connected, portalVars, uart, disturbed, section, ui, menu, endpointVars, inputs>>

Sections == {"closed", "system", "wifi", "openplc"}
Races == {"late", "double", "unheard"}
Places == {"idle", "leave", "start", "starting", "apply"}

Init ==
    /\ PortalInit /\ UartInit /\ connected \in BOOLEAN /\ disturbed = {}
    /\ section = "closed" /\ ui = [at |-> "idle", to |-> "closed", endpoint |-> Nothing]
    /\ menu = [portal |-> FALSE, notice |-> FALSE]
    /\ form = Nothing
    /\ \E e \in Endpoints : store = [saved |-> e, used |-> e]
    /\ events = <<>> /\ async = <<>> /\ inputs = 0

Input == inputs < MaxInputs /\ inputs' = inputs + 1
At(place) == ui.at = place /\ work["ui"] = "idle"
Moves(place) == ui' = [ui EXCEPT !.at = place]

----------------------------------------------------------------------------
(* The sections *)

\* LVGL runs its async calls before it reads the next tap.
OpenSettings ==
    /\ Input /\ At("idle") /\ section = "closed" /\ async = <<>>
    /\ section' = "system"
    /\ UNCHANGED <<portalVars, uart, disturbed, ui, menu, endpointVars>>

\* wifi_menu_deactivate stops its portal before anything else happens.
LeaveSection ==
    /\ Input /\ At("idle") /\ section # "closed"
    /\ \E to \in Sections \ {section} : ui' = [ui EXCEPT !.at = "leave", !.to = to]
    /\ IF section = "wifi"
       THEN /\ work' = [work EXCEPT !["ui"] = IF menu.portal \/ portal.running THEN "stop" ELSE @]
            /\ menu' = [portal |-> FALSE, notice |-> FALSE]
       ELSE UNCHANGED <<work, menu>>
    /\ UNCHANGED <<portal, ap, port80, dns, page, uart, disturbed, section, endpointVars>>

\* openplc_config_portal_stop ends when the save handler has ended, and
\* openplc_config_portal_start needs the network and the port.
ServerStops == port80 = "openplc" => form = Nothing
Released == IF port80 = "openplc" THEN "none" ELSE port80
Taken == IF port80 = "none" /\ connected THEN "openplc" ELSE port80

\* openplc_settings_deactivate or _activate; at most one of them is at work.
EnterSection ==
    /\ At("leave") /\ ServerStops
    /\ section' = ui.to
    /\ Moves("idle")
    /\ port80' = IF ui.to = "openplc" THEN Taken ELSE Released
    /\ uart' = IF section = "openplc" THEN UartStop(uart)
               ELSE IF ui.to = "openplc" THEN UartStart(uart)
               ELSE uart
    /\ UNCHANGED <<portal, ap, dns, work, page, disturbed, menu, endpointVars, inputs>>

\* Mutant: the timer only looks after a portal that should end.
RefreshPortalStopsOnly ==
    /\ section = "openplc" /\ At("idle") /\ ~connected /\ ServerStops
    /\ port80' = Released
    /\ UNCHANGED <<portal, ap, dns, work, page, uart, disturbed, section, ui, menu,
                   endpointVars, inputs>>

\* portal_timer_callback, every 750 ms
RefreshPortal ==
    /\ section = "openplc" /\ At("idle")
    /\ IF connected THEN port80' = Taken ELSE ServerStops /\ port80' = Released
    /\ UNCHANGED <<portal, ap, dns, work, page, uart, disturbed, section, ui, menu,
                   endpointVars, inputs>>

----------------------------------------------------------------------------
(* The Wi-Fi section's callbacks *)

MenuFrame == UNCHANGED <<connected, portal, ap, port80, dns, page, uart, disturbed, section,
                         endpointVars>>

\* display_scan_data: the list is drawn, now or again later.
DisplayScanData ==
    /\ Input /\ section = "wifi" /\ At("idle")
    /\ Moves("start")
    /\ UNCHANGED <<work, menu>> /\ MenuFrame

\* on_connected and on_disconnected
HearLinkChange ==
    /\ section = "wifi" /\ At("idle") /\ menu.notice
    /\ LET stops == IF connected THEN portal.running ELSE menu.portal
       IN  work' = [work EXCEPT !["ui"] = IF stops THEN "stop" ELSE @]
    /\ menu' = [portal |-> FALSE, notice |-> FALSE]
    /\ Moves(IF connected THEN "idle" ELSE "start")
    /\ UNCHANGED inputs /\ MenuFrame

\* start_portal_if_needed
StartPortalIfNeeded ==
    /\ At("start")
    /\ IF connected \/ portal.running
       THEN /\ Moves("idle") /\ UNCHANGED work
            /\ menu' = [menu EXCEPT !.portal = @ \/ ~connected]
       ELSE /\ Moves("starting") /\ work' = [work EXCEPT !["ui"] = "start"]
            /\ menu' = [menu EXCEPT !.portal = FALSE]
    /\ UNCHANGED inputs /\ MenuFrame

PortalStarted ==
    /\ At("starting")
    /\ Moves("idle")
    /\ menu' = [menu EXCEPT !.portal = portal.running]
    /\ UNCHANGED <<work, inputs>> /\ MenuFrame

MenuStep == HearLinkChange \/ StartPortalIfNeeded \/ PortalStarted

----------------------------------------------------------------------------
(* Endpoints *)

EndpointFrame == UNCHANGED <<connected, portalVars, section, menu>>

\* settings_config_save_opcua_endpoint
SaveOpcuaEndpoint(e) == store' = [store EXCEPT !.saved = e]

\* esp_event_post with portMAX_DELAY
Posts(e) == Len(events) < QueueSize /\ events' = Append(events, e)

\* save_post_handler writes the endpoint to flash and then posts it.
SubmitForm ==
    /\ Input /\ port80 = "openplc" /\ form = Nothing
    /\ \E e \in Endpoints : form' = e /\ SaveOpcuaEndpoint(e)
    /\ UNCHANGED <<events, async, ui, uart, disturbed>> /\ EndpointFrame

PostForm ==
    /\ form # Nothing /\ Posts(form)
    /\ form' = Nothing
    /\ UNCHANGED <<store, async, ui, uart, disturbed, inputs>> /\ EndpointFrame

\* parse_opcua_endpoint_json
ReceiveLine ==
    /\ Input /\ UartReads
    /\ \E e \in Endpoints : Posts(e)
    /\ UNCHANGED <<form, store, async, ui, uart, disturbed>> /\ EndpointFrame

\* What becomes of the races' history when an endpoint finds no section.
Unheard == disturbed' = disturbed \union {"unheard"}

\* endpoint_event_handler, registered while the settings are open; lv_async_call
\* runs the newest call first.
HandleEndpoint ==
    /\ events # <<>> /\ events' = Tail(events)
    /\ IF section = "closed" THEN Unheard /\ UNCHANGED async
       ELSE async' = <<Head(events)>> \o async /\ UNCHANGED disturbed
    /\ UNCHANGED <<form, store, ui, uart, inputs>> /\ EndpointFrame

\* Mutant: a received endpoint is only applied.
SaveEndpointNot(e) ==
    /\ store' = store
    /\ ui' = [ui EXCEPT !.at = "apply", !.endpoint = e]

\* save_and_apply_endpoint, the first half
SaveEndpoint(e) ==
    /\ SaveOpcuaEndpoint(e)
    /\ ui' = [ui EXCEPT !.at = "apply", !.endpoint = e]

\* apply_received_endpoint_async
ApplyReceived ==
    /\ At("idle") /\ async # <<>> /\ async' = Tail(async)
    /\ IF section = "closed" THEN Unheard /\ UNCHANGED <<store, ui>>
       ELSE SaveEndpoint(Head(async)) /\ UNCHANGED disturbed
    /\ UNCHANGED <<form, events, uart, inputs>> /\ EndpointFrame

\* dialog_save_event
ConfirmDialog ==
    /\ Input /\ At("idle") /\ section = "openplc"
    /\ \E e \in Endpoints : SaveEndpoint(e)
    /\ UNCHANGED <<form, events, async, uart, disturbed>> /\ EndpointFrame

\* save_and_apply_endpoint, the second half: apply_opcua_endpoint
ApplyEndpoint ==
    /\ At("apply")
    /\ store' = [store EXCEPT !.used = ui.endpoint]
    /\ ui' = [ui EXCEPT !.at = "idle", !.endpoint = Nothing]
    /\ disturbed' = disturbed \ {"unheard"}
    /\ UNCHANGED <<form, events, async, uart, inputs>> /\ EndpointFrame

----------------------------------------------------------------------------
Rest == <<section, ui, menu, endpointVars>>

\* One change at a time is a bound; a menu that is not shown is not told.
LinkChanges ==
    /\ Input /\ ~menu.notice
    /\ connected' = ~connected
    /\ menu' = [menu EXCEPT !.notice = section = "wifi" /\ ui.at # "leave"]
    /\ UNCHANGED <<portalVars, uart, disturbed, section, ui, endpointVars>>

UartStep ==
    /\ UartServes
    /\ UNCHANGED <<connected, portalVars, disturbed, Rest, inputs>>

UiStep ==
    \/ UiWork /\ UNCHANGED <<connected, uart, Rest, inputs>>
    \/ EnterSection /\ UNCHANGED connected
    \/ MenuStep
    \/ ApplyReceived
    \/ ApplyEndpoint

StopperStep == StopStep("stopper") /\ UNCHANGED <<connected, uart, Rest, inputs>>
DnsTask == DnsStep /\ UNCHANGED <<connected, uart, Rest, inputs>>
PortalTimer == RefreshPortal /\ UNCHANGED connected

User ==
    \/ (OpenSettings \/ LeaveSection) /\ UNCHANGED connected
    \/ DisplayScanData \/ SubmitForm \/ ReceiveLine \/ ConfirmDialog
    \/ Input /\ (GetPage \/ SaveForm) /\ UNCHANGED <<connected, uart, Rest>>

Next ==
    \/ UiStep \/ StopperStep \/ DnsTask \/ PortalTimer \/ UartStep
    \/ PostForm \/ HandleEndpoint \/ LinkChanges \/ User

\* Every task gets to run and httpd_stop returns; the user, the access point and
\* the phone do not have to do anything.
Fairness ==
    /\ WF_vars(UiStep) /\ WF_vars(StopperStep) /\ WF_vars(DnsTask) /\ WF_vars(PortalTimer)
    /\ WF_vars(UartStep) /\ WF_vars(PostForm) /\ WF_vars(HandleEndpoint)

Spec == Init /\ [][Next]_vars
FairSpec == Spec /\ Fairness

----------------------------------------------------------------------------
(* Properties *)

\* Every variable keeps its type.
TypeOK ==
    /\ PortalTypeOK /\ UartTypeOK
    /\ disturbed \subseteq Races
    /\ section \in Sections
    /\ ui \in [at : Places, to : Sections, endpoint : Endpoints \union {Nothing}]
    /\ menu \in [portal : BOOLEAN, notice : BOOLEAN]
    /\ form \in Endpoints \union {Nothing}
    /\ store \in [saved : Endpoints, used : Endpoints]
    /\ events \in Seq(Endpoints) /\ Len(events) <= QueueSize
    /\ async \in Seq(Endpoints)
    /\ inputs \in 0..MaxInputs

\* Whenever no start or stop is under way the Wi-Fi portal's flags tell what is there.
\* A running portal has its server with the port; as an access point it has the radio
\* in that mode and its DNS task, unless that task failed to get its port
\* (config_portal.c:971), and otherwise neither; its page is of its mode.  A portal that
\* is not running has left nothing but what a failed call leaves for good: the access
\* point, when its configuration or the way back to station mode was refused (1159,
\* 1322) or no server was to be had (1191), and the server with the port, when one of
\* its handlers was refused (912).  Two stops may overlap without harm, unless both
\* reach httpd_stop with the same server (1314) or a start comes between.
PortalFlagsAreTrue ==
    disturbed \intersect {"late", "double"} = {} /\ (\A t \in Threads : work[t] = "idle")
    => /\ ~portal.starting
       /\ portal.running =>
             /\ portal.server = "up" /\ port80 = "config" /\ portal.runtime
             /\ portal.access # "none" /\ page \in {"none", portal.access}
       /\ ~portal.running =>
             /\ portal.server # "up" /\ portal.access = "none"
             /\ port80 = "config" <=> portal.server = "bare"
       /\ ap = "on" <=> portal.access = "ap"
       /\ dns.running <=> portal.access = "ap"
       /\ portal.access = "ap" => DnsTaskLives \/ dns.task = "failed"

\* The serial line is listened to exactly while the OpenPLC section is shown, as
\* soon as the task has seen its commands, except after a stop that came before
\* the task had served the start (uart_handler.c:769), or a start that the task
\* saw together with the stop before it (469).
UartFollowsSection ==
    ui.at # "leave" /\ uart.bits = {}
    => /\ uart.running = uart.listening
       /\ uart.listening /\ section # "openplc" => uart.missed = "stop"
       /\ ~uart.listening /\ section = "openplc" => uart.missed = "start"

\* Once every entered endpoint has been dealt with, the client uses the endpoint
\* that is in flash and that the next boot will use, unless one that was saved
\* reached no settings screen to apply it (openplc_settings.c:361).
EndpointInUseIsSaved ==
    form = Nothing /\ events = <<>> /\ async = <<>> /\ ui.at # "apply"
    => store.saved = store.used \/ "unheard" \in disturbed

\* An OpenPLC section that stays open while the network is up gets the port and
\* its portal, whatever went on in the Wi-Fi section before, unless two stops or
\* a stop and a start of the Wi-Fi portal raced, or a start left its server behind.
SectionGetsItsPortal ==
    <>[](/\ section = "openplc" /\ connected /\ portal.server # "bare"
        /\ disturbed \intersect {"late", "double"} = {})
    => <>[](port80 = "openplc")
=============================================================================
