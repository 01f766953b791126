---------------------------- MODULE ConfigPortal ----------------------------
(***************************************************************************)
(* components/settings/src/config_portal.c: the Wi-Fi portal, an access    *)
(* point, a web server on port 80 and a DNS server, started and stopped by *)
(* flags without a lock.  Its callers are the LVGL task, "ui", and a task  *)
(* of its own that stops it after a form was saved, "stopper".             *)
(***************************************************************************)
EXTENDS Naturals

VARIABLES
    connected,      \* wifi_ctrl_is_connected()
    portal,         \* s_portal_running, _starting, s_runtime_mode, s_access_mode, s_http_server
    ap,             \* APSTA mode: "off", "on", or "left" on by a call that failed
    port80,         \* which server has the port: "none", "config", "openplc"
    dns,            \* s_dns_running and s_dns_task
    work,           \* where in a start or a stop each thread is
    page,           \* the access mode of the cached page, "none" without one
    disturbed       \* history: which races have hit

portalVars == <<portal, ap, port80, dns, work, page>>

Threads == {"ui", "stopper"}
StartSteps == {"ap", "scan", "serve ap", "finish ap", "local", "finish local"}
StopSteps == {"http", "closing", "mode", "reset"}
Modes == {"none", "ap", "local"}

\* s_http_server, "bare" when one of its handlers could not be registered.
Servers == {"none", "bare", "up"}

PortalInit ==
    /\ portal = [running |-> FALSE, starting |-> FALSE, runtime |-> FALSE,
                 access |-> "none", server |-> "none"]
    /\ ap = "off" /\ port80 = "none"
    /\ dns = [running |-> FALSE, task |-> "none"]
    /\ work = [t \in Threads |-> "idle"]
    /\ page = "none"

\* Thread t has finished the step from and goes on with to.
Goes(t, from, to) == work[t] = from /\ work' = [work EXCEPT ![t] = to]

\* A stop that is not over meets a start, or the other way round.
Late == {d \in {"late"} : work["ui"] \in StartSteps}

InvalidateHtmlCache == page' = "none"

----------------------------------------------------------------------------
(* The start, in the LVGL task only *)

\* Mutant: the cached page is kept.
StartPortalKeepsPage ==
    /\ work["ui"] = "start"
    /\ IF portal.running \/ portal.starting
       THEN work' = [work EXCEPT !["ui"] = "idle"] /\ UNCHANGED <<portal, disturbed>>
       ELSE /\ portal' = [portal EXCEPT !.starting = TRUE, !.runtime = @ \/ ~connected]
            /\ work' = [work EXCEPT !["ui"] = IF connected THEN "local" ELSE "ap"]
            /\ disturbed' = disturbed \union {d \in {"late"} : work["stopper"] \in StopSteps}
    /\ UNCHANGED <<ap, port80, dns, page>>

\* config_portal_start_runtime
StartPortal ==
    /\ work["ui"] = "start"
    /\ IF portal.running \/ portal.starting
       THEN work' = [work EXCEPT !["ui"] = "idle"] /\ UNCHANGED <<portal, page, disturbed>>
       ELSE /\ InvalidateHtmlCache
            /\ portal' = [portal EXCEPT !.starting = TRUE, !.runtime = @ \/ ~connected]
            /\ work' = [work EXCEPT !["ui"] = IF connected THEN "local" ELSE "ap"]
            /\ disturbed' = disturbed \union {d \in {"late"} : work["stopper"] \in StopSteps}
    /\ UNCHANGED <<ap, port80, dns>>

GivenUp == portal' = [portal EXCEPT !.starting = FALSE]

\* Nobody switches the mode back after a call that failed.
LeftOn == ap' = IF ap = "on" THEN "left" ELSE ap

\* start_ap_mode up to the scan; the driver may refuse the mode, or the
\* access point's configuration after the mode.
StartAccessPoint ==
    /\ \/ Goes("ui", "ap", "scan") /\ ap' = "on" /\ UNCHANGED portal
       \/ Goes("ui", "ap", "idle") /\ GivenUp /\ ap' \in {ap, "left"}
    /\ UNCHANGED <<port80, dns, page, disturbed>>

\* refresh_scan_results, seconds later: the start may have been cancelled.
RefreshScanResults ==
    /\ Goes("ui", "scan", IF portal.starting THEN "serve ap" ELSE "idle")
    /\ UNCHANGED <<portal, ap, port80, dns, page, disturbed>>

\* start_http_server for either mode, which leaves the server when a handler cannot
\* be registered; start_local_mode may have been cancelled.
StartHttpServer ==
    /\ \E from \in {"serve ap", "local"} :
          LET serves == port80 = "none" /\ (from = "local" => portal.starting)
          IN  \/ /\ serves
                 /\ Goes("ui", from, IF from = "local" THEN "finish local" ELSE "finish ap")
                 /\ port80' = "config" /\ portal' = [portal EXCEPT !.server = "up"]
                 /\ UNCHANGED ap
              \/ /\ serves
                 /\ Goes("ui", from, "idle") /\ LeftOn
                 /\ port80' = "config"
                 /\ portal' = [portal EXCEPT !.server = "bare", !.starting = FALSE]
              \/ Goes("ui", from, "idle") /\ GivenUp /\ LeftOn /\ UNCHANGED port80
    /\ UNCHANGED <<dns, page, disturbed>>

\* s_dns_task
DnsTaskLives == dns.task \in {"begin", "serve"}

\* start_dns_server finds a task of an earlier portal and leaves it alone.
StartDns ==
    dns' = IF DnsTaskLives THEN dns ELSE [running |-> TRUE, task |-> "begin"]

StopDns == dns' = [dns EXCEPT !.running = FALSE]

FinishStart ==
    /\ \/ /\ Goes("ui", "finish ap", "idle") /\ StartDns
          /\ portal' = [portal EXCEPT !.running = TRUE, !.starting = FALSE, !.access = "ap"]
          /\ UNCHANGED <<ap, port80>>
       \/ /\ Goes("ui", "finish local", "idle")
          /\ portal' = [portal EXCEPT !.running = TRUE, !.starting = FALSE, !.access = "local",
                                      !.runtime = TRUE]
          /\ UNCHANGED <<ap, port80, dns>>
       \/ /\ Goes("ui", "finish ap", "idle") /\ ~DnsTaskLives      \* no task to be had
          /\ StopDns /\ LeftOn
          /\ port80' = "none"
          /\ portal' = [portal EXCEPT !.server = "none", !.starting = FALSE]
    /\ UNCHANGED <<page, disturbed>>

----------------------------------------------------------------------------
(* config_portal_stop, in either thread *)

StopPortal(t) ==
    /\ Goes(t, "stop", IF portal.running THEN "http" ELSE "idle")
    /\ GivenUp
    /\ IF portal.running
       THEN InvalidateHtmlCache /\ StopDns
       ELSE UNCHANGED <<page, dns>>
    /\ disturbed' = disturbed \union Late
    /\ UNCHANGED <<ap, port80>>

\* httpd_stop returns when the server's task has ended.  Of a second call on the
\* same server no more is known than that it goes wrong.
StopHttpServer(t) ==
    /\ \/ /\ Goes(t, "http", IF portal.server # "none" THEN "closing" ELSE "mode")
          /\ disturbed' = disturbed \union Late \union
                 {d \in {"double"} : portal.server # "none" /\ \E u \in Threads : work[u] = "closing"}
          /\ UNCHANGED <<portal, port80>>
       \/ /\ Goes(t, "closing", "mode")
          /\ portal' = [portal EXCEPT !.server = "none"]
          /\ port80' = "none"
          /\ disturbed' = disturbed \union Late
    /\ UNCHANGED <<ap, dns, page>>

\* Before the mode changes the DNS task has had time to end; the driver may refuse.
LeaveAccessPoint(t) ==
    /\ Goes(t, "mode", "reset")
    /\ portal.access = "ap" => dns.running \/ ~DnsTaskLives
    /\ \/ ap' = IF portal.access = "ap" THEN "off" ELSE ap
       \/ portal.access = "ap" /\ LeftOn
    /\ disturbed' = disturbed \union Late
    /\ UNCHANGED <<portal, port80, dns, page>>

FinishStop(t) ==
    /\ Goes(t, "reset", "idle")
    /\ portal' = [portal EXCEPT !.running = FALSE, !.runtime = FALSE, !.access = "none"]
    /\ disturbed' = disturbed \union Late
    /\ UNCHANGED <<ap, port80, dns, page>>

StopStep(t) ==
    StopPortal(t) \/ StopHttpServer(t) \/ LeaveAccessPoint(t) \/ FinishStop(t)

UiWork ==
    \/ StartPortal \/ StartAccessPoint \/ RefreshScanResults \/ StartHttpServer \/ FinishStart
    \/ StopStep("ui")

----------------------------------------------------------------------------
(* The portal's servers *)

\* dns_server_task may have "failed" to get its port, which its flag does not show,
\* and ends when it is told to.
DnsStep ==
    /\ \/ /\ dns.task = "begin"
          /\ \E task \in {"serve", "failed"} : dns' = [dns EXCEPT !.task = task]
       \/ dns.task = "serve" /\ ~dns.running /\ dns' = [dns EXCEPT !.task = "none"]
    /\ UNCHANGED <<portal, ap, port80, work, page, disturbed>>

\* The page's content follows from the access mode.
BuiltPage == portal.access

\* handle_root_get: the page is built once and kept.
GetPage ==
    /\ portal.server # "none" /\ page = "none"
    /\ page' = BuiltPage
    /\ UNCHANGED <<portal, ap, port80, dns, work, disturbed>>

\* handle_save_post: an access point's form without a name saves nothing, and the
\* stopping task may not be had; one of them at a time is a bound.
SaveForm ==
    /\ portal.server = "up" /\ work["stopper"] = "idle"
    /\ InvalidateHtmlCache \/ (portal.access = "ap" /\ UNCHANGED page)
    /\ \/ portal.runtime /\ work' = [work EXCEPT !["stopper"] = "stop"]
       \/ UNCHANGED work
    /\ UNCHANGED <<portal, ap, port80, dns, disturbed>>

Steps == {"idle", "start", "stop"} \union StartSteps \union StopSteps
Portals == [running : BOOLEAN, starting : BOOLEAN, runtime : BOOLEAN,
            access : Modes, server : Servers]

PortalTypeOK ==
    /\ connected \in BOOLEAN
    /\ portal \in Portals
    /\ ap \in {"off", "on", "left"}
    /\ port80 \in {"none", "config", "openplc"}
    /\ dns \in [running : BOOLEAN, task : {"none", "begin", "serve", "failed"}]
    /\ work \in [Threads -> Steps]
    /\ page \in Modes
=============================================================================
