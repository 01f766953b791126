------------------------ MODULE SettingsSectionsProofs ------------------------
(***************************************************************************)
(* Proofs about the settings screen, its portals, its serial line and the  *)
(* endpoint, for every set of endpoints, every queue size and any number   *)
(* of inputs.                                                              *)
(***************************************************************************)
EXTENDS SettingsSections, SequenceTheorems, TLAPS

USE DEF SaveOpcuaEndpoint

Starting == work["ui"] \in StartSteps
Stopping(t) == work[t] \in StopSteps
Undisturbed == disturbed \intersect {"late", "double"} = {}

\* Where the LVGL task may be, and who can have the port.
ScreenInv ==
    /\ work["stopper"] \in {"idle", "stop"} \union StopSteps
    /\ work["ui"] \in {"start"} \union StartSteps => ui.at = "starting"
    /\ ui.at \in {"start", "starting"} => section = "wifi"
    /\ ui.at = "leave" => ui.to # section
    /\ ui.at = "apply" => section # "closed" /\ ui.endpoint # Nothing
    /\ port80 = "openplc" => section = "openplc"

\* A start step by step.
StartInv ==
    /\ Starting <=> portal.starting
    /\ Starting =>
          /\ ~Stopping("stopper") /\ ~portal.running
          /\ portal.access = "none" /\ page = "none" /\ ~dns.running /\ ~DnsTaskLives
          /\ portal.server = "up" <=> work["ui"] \in {"finish ap", "finish local"}
          /\ port80 = "config" <=> portal.server # "none"
          /\ ap = "on" <=> work["ui"] \in {"scan", "serve ap", "finish ap"}
          /\ portal.runtime \/ work["ui"] \in {"local", "finish local"}

\* The flags of a portal that is not being started, while none, one or both of the
\* threads t and u stop it.
StopsAlone(t, u) ==
    /\ Stopping(t) => ~dns.running
    /\ work[t] = "http" => portal.running \/ portal.server = "none"
    /\ work[t] = "closing" =>
          /\ portal.running /\ portal.server = "up"
          /\ work[u] \notin {"closing", "mode", "reset"}
    /\ work[t] \in {"mode", "reset"} => portal.server = "none"
    /\ work[t] = "reset" => ap # "on" /\ ~DnsTaskLives

StopInvOf(t, u) ==
    ~Starting =>
        /\ portal.running =>
              /\ portal.runtime /\ portal.access # "none" /\ page \in {"none", portal.access}
              /\ \/ portal.server = "up"
                 \/ work[t] \in {"mode", "reset"} \/ work[u] \in {"mode", "reset"}
              /\ work[t] # "reset" /\ work[u] # "reset" => (ap = "on" <=> portal.access = "ap")
              /\ ~Stopping(t) /\ ~Stopping(u) => (portal.access = "ap" => dns.running)
        /\ ~portal.running => portal.server # "up" /\ portal.access = "none" /\ ap # "on"
        /\ port80 = "config" <=> portal.server # "none"
        /\ portal.access # "ap" => ~DnsTaskLives /\ ~dns.running
        /\ dns.running => dns.task # "none"
        /\ StopsAlone(t, u) /\ StopsAlone(u, t)

StopInv == StopInvOf("ui", "stopper")

PortalInv == Undisturbed => StartInv /\ StopInv

\* What the task will find when it serves its commands.
UartInv ==
    /\ uart.bits # {} => ~uart.running
    /\ uart.bits = {} =>
          /\ uart.running <=> uart.listening
          /\ uart.listening /\ section # "openplc" => uart.missed = "stop"
          /\ ~uart.listening /\ section = "openplc" => uart.missed = "start"
    /\ uart.bits = {"START"} /\ section # "openplc" => uart.missed = "stop"
    /\ uart.bits = {"STOP"} => section # "openplc"

\* The saved endpoint is used, or is on its way to the client.
Pending == form # Nothing \/ events # <<>> \/ async # <<>>

EndpointInv ==
    IF ui.at = "apply" THEN Pending \/ store.saved = ui.endpoint
    ELSE Pending \/ store.saved = store.used \/ "unheard" \in disturbed

IInv == TypeOK /\ ScreenInv /\ PortalInv /\ UartInv /\ EndpointInv

----------------------------------------------------------------------------
(* The portal: its own steps. *)

PortalTypes == PortalTypeOK /\ disturbed \subseteq Races

PortalSteps ==
    \/ UiWork \/ StopStep("stopper") \/ DnsStep \/ GetPage \/ SaveForm

\* The threads go on one at a time.
LEMMA ThreadGoesOn ==
    ASSUME work \in [Threads -> Steps], NEW t \in Threads, NEW from, NEW to \in Steps,
           Goes(t, from, to)
    PROVE  /\ work' \in [Threads -> Steps]
           /\ work[t] = from /\ work'[t] = to
           /\ \A u \in Threads \ {t} : work'[u] = work[u]
BY DEF Goes

LEMMA PortalStepsKeepTypes ==
    ASSUME PortalTypes, PortalSteps, UNCHANGED connected
    PROVE  PortalTypes'
<1>0. /\ "ui" \in Threads /\ "stopper" \in Threads
      /\ Threads = {"ui", "stopper"}
      /\ \A s \in {"idle", "start", "stop", "ap", "scan", "serve ap", "finish ap", "local",
                   "finish local", "http", "closing", "mode", "reset"} : s \in Steps
      /\ Late \subseteq Races /\ {"late", "double"} \subseteq Races
      /\ {"none", "ap", "local"} \subseteq Modes
      /\ {"none", "bare", "up"} \subseteq Servers
  BY DEF Threads, Steps, StartSteps, StopSteps, Late, Races, Modes, Servers
<1>a. GivenUp => portal' \in Portals
  BY DEF GivenUp, PortalTypes, PortalTypeOK, Portals
<1>b. ASSUME NEW t \in Threads, NEW from, NEW to \in Steps, Goes(t, from, to)
      PROVE  work' \in [Threads -> Steps]
  BY <1>b, ThreadGoesOn DEF PortalTypes, PortalTypeOK
<1> USE <1>0 DEF PortalTypes, PortalTypeOK
<1>1. CASE StartPortal
  <2>1. portal' \in Portals
    <3>1. portal' \in {portal, [portal EXCEPT !.starting = TRUE, !.runtime = @ \/ ~connected]}
      BY <1>1 DEF StartPortal
    <3> QED BY <3>1 DEF Portals
  <2>2. work' \in [Threads -> Steps]
    BY <1>1 DEF StartPortal
  <2> QED BY <1>1, <2>1, <2>2 DEF StartPortal, InvalidateHtmlCache
<1>l. LeftOn => ap' \in {"off", "on", "left"}
  BY DEF LeftOn, PortalTypes, PortalTypeOK
<1>2. CASE StartAccessPoint
  <2>1. work' \in [Threads -> Steps]
    BY <1>2, <1>b DEF StartAccessPoint
  <2>2. ap' \in {"off", "on", "left"}
    BY <1>2 DEF StartAccessPoint
  <2> QED BY <1>2, <2>1, <2>2, <1>a DEF StartAccessPoint
<1>3. CASE RefreshScanResults
  BY <1>3, <1>b DEF RefreshScanResults
<1>4. CASE StartHttpServer
  <2>1. work' \in [Threads -> Steps]
    BY <1>4, <1>b DEF StartHttpServer
  <2>2. portal' \in Portals
    <3>1. \/ GivenUp
          \/ portal' = [portal EXCEPT !.server = "up"]
          \/ portal' = [portal EXCEPT !.server = "bare", !.starting = FALSE]
      BY <1>4 DEF StartHttpServer
    <3> QED BY <1>a, <3>1 DEF Portals
  <2>3. port80' \in {"none", "config", "openplc"} /\ ap' \in {"off", "on", "left"}
    BY <1>4, <1>l DEF StartHttpServer
  <2> QED BY <1>4, <2>1, <2>2, <2>3 DEF StartHttpServer
<1>5. CASE FinishStart
  <2>1. work' \in [Threads -> Steps]
    BY <1>5, <1>b DEF FinishStart
  <2>2. portal' \in Portals
    <3>1. PICK access \in Modes, running \in BOOLEAN, runtime \in BOOLEAN, server \in Servers :
             portal' = [portal EXCEPT !.running = running, !.starting = FALSE,
                                      !.access = access, !.runtime = runtime,
                                      !.server = server]
      <4>1. /\ portal.access \in Modes /\ portal.running \in BOOLEAN
            /\ portal.runtime \in BOOLEAN /\ portal.server \in Servers
        BY DEF Portals
      <4>2. CASE portal' = [portal EXCEPT !.running = TRUE, !.starting = FALSE, !.access = "ap"]
        <5>1. portal' = [portal EXCEPT !.running = TRUE, !.starting = FALSE, !.access = "ap",
                                       !.runtime = portal.runtime, !.server = portal.server]
          BY <4>2 DEF Portals
        <5> QED BY <4>1, <5>1
      <4>3. CASE portal' = [portal EXCEPT !.running = TRUE, !.starting = FALSE,
                                          !.access = "local", !.runtime = TRUE]
        <5>1. portal' = [portal EXCEPT !.running = TRUE, !.starting = FALSE,
                                       !.access = "local", !.runtime = TRUE,
                                       !.server = portal.server]
          BY <4>3 DEF Portals
        <5> QED BY <4>1, <5>1
      <4>4. CASE portal' = [portal EXCEPT !.server = "none", !.starting = FALSE]
        <5>1. portal' = [portal EXCEPT !.running = portal.running, !.starting = FALSE,
                                       !.access = portal.access, !.runtime = portal.runtime,
                                       !.server = "none"]
          BY <4>4 DEF Portals
        <5> QED BY <4>1, <5>1
      <4> QED BY <1>5, <4>2, <4>3, <4>4 DEF FinishStart
    <3> QED BY <3>1 DEF Portals
  <2>3. dns' \in [running : BOOLEAN, task : {"none", "begin", "serve", "failed"}]
    <3>1. \/ dns' = dns \/ dns' = [running |-> TRUE, task |-> "begin"]
          \/ dns' = [dns EXCEPT !.running = FALSE]
      BY <1>5 DEF FinishStart, StartDns, StopDns
    <3>2. [running |-> TRUE, task |-> "begin"]
              \in [running : BOOLEAN, task : {"none", "begin", "serve", "failed"}]
      OBVIOUS
    <3>3. dns \in [running : BOOLEAN, task : {"none", "begin", "serve", "failed"}]
      OBVIOUS
    <3> QED BY <3>1, <3>2, <3>3
  <2>4. ap' \in {"off", "on", "left"} /\ port80' \in {"none", "config", "openplc"}
    BY <1>5, <1>l DEF FinishStart
  <2> QED BY <1>5, <2>1, <2>2, <2>3, <2>4 DEF FinishStart
<1>6. ASSUME NEW t \in Threads, StopStep(t)
      PROVE  PortalTypes'
  <2>1. CASE StopPortal(t)
    <3>1. work' \in [Threads -> Steps]
      BY <2>1, <1>b DEF StopPortal
    <3>2. dns' \in [running : BOOLEAN, task : {"none", "begin", "serve", "failed"}]
      BY <2>1 DEF StopPortal, StopDns
    <3> QED BY <2>1, <3>1, <3>2, <1>a DEF StopPortal, InvalidateHtmlCache
  <2>2. CASE StopHttpServer(t)
    <3>1. work' \in [Threads -> Steps]
      BY <2>2, <1>b DEF StopHttpServer
    <3>2. portal' \in Portals
      BY <2>2 DEF StopHttpServer, Portals
    <3>3. disturbed' \subseteq Races
      BY <2>2 DEF StopHttpServer
    <3> QED BY <2>2, <3>1, <3>2, <3>3 DEF StopHttpServer
  <2>3. CASE LeaveAccessPoint(t)
    <3>1. work' \in [Threads -> Steps]
      BY <2>3, <1>b DEF LeaveAccessPoint
    <3>2. ap' \in {"off", "on", "left"}
      BY <2>3, <1>l DEF LeaveAccessPoint
    <3> QED BY <2>3, <3>1, <3>2 DEF LeaveAccessPoint
  <2>4. CASE FinishStop(t)
    <3>1. work' \in [Threads -> Steps]
      BY <2>4, <1>b DEF FinishStop
    <3>2. portal' \in Portals
      BY <2>4 DEF FinishStop, Portals
    <3> QED BY <2>4, <3>1, <3>2 DEF FinishStop
  <2> QED BY <1>6, <2>1, <2>2, <2>3, <2>4 DEF StopStep
<1>7. CASE DnsStep
  BY <1>7 DEF DnsStep
<1>8. CASE GetPage
  BY <1>8 DEF GetPage, BuiltPage, Portals
<1>9. CASE SaveForm
  <2>1. work' \in [Threads -> Steps]
    BY <1>9 DEF SaveForm
  <2> QED BY <1>9, <2>1 DEF SaveForm, InvalidateHtmlCache
<1> QED
  BY <1>1, <1>2, <1>3, <1>4, <1>5, <1>6, <1>7, <1>8, <1>9 DEF PortalSteps, UiWork

LEMMA StopsInEitherOrder ==
    ASSUME NEW t, NEW u
    PROVE  (StopInvOf(t, u) <=> StopInvOf(u, t)) /\ (StopInvOf(t, u)' <=> StopInvOf(u, t)')
BY DEF StopInvOf

\* A start that gives up leaves no portal, whatever else it leaves.
LEMMA StartGivesUp ==
    ASSUME StartInv, Starting, work["stopper"] \notin StopSteps,
           work'["ui"] = "idle", work'["stopper"] = work["stopper"],
           ~portal'.starting, ~portal'.running, portal'.access = "none",
           portal'.server # "up", port80' = "config" <=> portal'.server # "none",
           ap' # "on", ~dns'.running, dns'.task = dns.task
    PROVE  StartInv' /\ StopInv'
<1>1. ~Starting' /\ ~Stopping("ui")' /\ ~Stopping("stopper")' /\ ~DnsTaskLives'
  BY DEF StartInv, Starting, Stopping, StartSteps, StopSteps, DnsTaskLives
<1>2. StartInv'
  BY <1>1 DEF StartInv
<1>3. StopsAlone("ui", "stopper")' /\ StopsAlone("stopper", "ui")'
  BY <1>1 DEF StopsAlone, Stopping, StopSteps
<1>4. StopInv'
  BY <1>1, <1>3 DEF StopInv, StopInvOf
<1> QED BY <1>2, <1>4

LEMMA StartCompletes ==
    ASSUME work["stopper"] \notin StopSteps,
           work'["ui"] = "idle", work'["stopper"] = work["stopper"],
           ~portal'.starting, portal'.running, portal'.runtime,
           portal'.access \in {"ap", "local"}, portal'.server = "up",
           port80' = "config", page' = "none",
           ap' = "on" <=> portal'.access = "ap", dns'.running <=> portal'.access = "ap",
           IF portal'.access = "ap" THEN dns'.task = "begin" ELSE ~DnsTaskLives'
    PROVE  StartInv' /\ StopInv'
<1>1. ~Starting' /\ ~Stopping("ui")' /\ ~Stopping("stopper")'
  BY DEF Starting, Stopping, StartSteps, StopSteps
<1>2. StartInv'
  BY <1>1 DEF StartInv
<1>3. StopsAlone("ui", "stopper")' /\ StopsAlone("stopper", "ui")'
  BY <1>1 DEF StopsAlone, Stopping, StopSteps
<1>4. StopInv'
  BY <1>1, <1>3 DEF StopInv, StopInvOf
<1> QED BY <1>2, <1>4

LEMMA PortalStepsKeepPortalInv ==
    ASSUME PortalTypes, PortalInv, PortalSteps, UNCHANGED connected,
           work["stopper"] \in {"idle", "stop"} \union StopSteps,
           port80 = "openplc" => work["ui"] \notin {"start"} \union StartSteps
    PROVE  PortalInv'
<1> SUFFICES ASSUME Undisturbed'
             PROVE  StartInv' /\ StopInv'
  BY DEF PortalInv
<1>0. /\ Threads = {"ui", "stopper"}
      /\ work \in [Threads -> Steps] /\ portal \in Portals
      /\ \A s \in {"idle", "start", "stop", "ap", "scan", "serve ap", "finish ap", "local",
                   "finish local", "http", "closing", "mode", "reset"} : s \in Steps
  BY DEF Threads, Steps, StartSteps, StopSteps, PortalTypes, PortalTypeOK
<1>a. ASSUME NEW t \in Threads, NEW from, NEW to \in Steps, Goes(t, from, to)
      PROVE  /\ work[t] = from /\ work'[t] = to
             /\ \A u \in Threads \ {t} : work'[u] = work[u]
  <2>1. work \in [Threads -> Steps]
    BY <1>0
  <2> QED BY ONLY <1>a, <2>1, ThreadGoesOn
<1>b. GivenUp => /\ portal'.running = portal.running /\ portal'.starting = FALSE
                 /\ portal'.runtime = portal.runtime /\ portal'.access = portal.access
                 /\ portal'.server = portal.server
  BY <1>0 DEF GivenUp, Portals
<1>c. Starting' => StopInv'
  BY DEF StopInv, StopInvOf
<1> USE DEF Undisturbed, Starting, Stopping, DnsTaskLives
<1>1. CASE StartPortal
  <2>1. StartInv /\ StopInv
    BY <1>1 DEF StartPortal, PortalInv
  <2>2. /\ work["ui"] = "start" /\ work'["stopper"] = work["stopper"]
        /\ IF portal.running \/ portal.starting
           THEN work'["ui"] = "idle"
           ELSE work'["ui"] = IF connected THEN "local" ELSE "ap"
    BY <1>0, <1>1 DEF StartPortal
  <2>3. ~portal.starting
    BY <2>1, <2>2 DEF StartInv, StartSteps
  <2>4. CASE portal.running
    <3>1. UNCHANGED <<portal, ap, port80, dns, page>> /\ work'["ui"] = "idle"
      BY <1>1, <2>2, <2>4 DEF StartPortal
    <3> QED BY <2>1, <2>2, <2>3, <3>1
            DEF StartInv, StopInv, StopInvOf, StopsAlone, StartSteps, StopSteps
  <2>5. CASE ~portal.running
    <3>1. /\ portal'.running = FALSE /\ portal'.starting = TRUE
          /\ portal'.runtime = (portal.runtime \/ ~connected)
          /\ portal'.access = portal.access /\ portal'.server = portal.server
      BY <1>0, <1>1, <2>3, <2>5 DEF StartPortal, Portals
    <3>2. work["stopper"] \notin StopSteps /\ page' = "none"
      BY <1>1, <2>3, <2>5 DEF StartPortal, InvalidateHtmlCache
    <3>3. UNCHANGED <<ap, port80, dns>>
      BY <1>1 DEF StartPortal
    <3>4. work'["ui"] \in {"ap", "local"} /\ Starting' /\ ~Starting
      BY <2>1, <2>2, <2>3, <2>5 DEF StartInv, StartSteps
    <3>5. /\ portal.server # "up" /\ portal.access = "none" /\ ap # "on"
          /\ port80 = "config" <=> portal.server # "none"
          /\ ~dns.running /\ ~DnsTaskLives
      BY <2>1, <2>5, <3>4 DEF StopInv, StopInvOf
    <3>6. portal'.runtime \/ work'["ui"] = "local"
      BY <1>0, <2>2, <2>3, <2>5, <3>1
    <3>7. StartInv'
      BY <2>2, <3>1, <3>2, <3>3, <3>4, <3>5, <3>6 DEF StartInv
    <3> QED BY <1>c, <3>4, <3>7
  <2> QED BY <2>4, <2>5
<1>2. CASE StartAccessPoint
  <2>1. StartInv /\ StopInv
    BY <1>2 DEF StartAccessPoint, PortalInv
  <2>2. /\ work["ui"] = "ap" /\ work'["stopper"] = work["stopper"]
        /\ \/ work'["ui"] = "scan" /\ ap' = "on" /\ portal' = portal
           \/ work'["ui"] = "idle" /\ GivenUp /\ ap' \in {ap, "left"}
    BY <1>0, <1>2, <1>a DEF StartAccessPoint
  <2>3. UNCHANGED <<port80, dns, page>>
    BY <1>2 DEF StartAccessPoint
  <2>4. CASE work'["ui"] = "scan" /\ ap' = "on" /\ portal' = portal
    BY <1>c, <2>1, <2>2, <2>3, <2>4 DEF StartInv, StartSteps
  <2>5. CASE work'["ui"] = "idle" /\ GivenUp /\ ap' \in {ap, "left"}
    <3>1. /\ Starting /\ ~Stopping("stopper") /\ ~portal.running /\ portal.access = "none"
          /\ portal.server # "up" /\ port80 = "config" <=> portal.server # "none"
          /\ ap # "on" /\ ~dns.running
      BY <2>1, <2>2 DEF StartInv, StartSteps
    <3> QED BY <1>b, <2>1, <2>2, <2>3, <2>5, <3>1, StartGivesUp
  <2> QED BY <2>2, <2>4, <2>5
<1>3. CASE RefreshScanResults
  <2>1. StartInv /\ StopInv
    BY <1>3 DEF RefreshScanResults, PortalInv
  <2>2. /\ work["ui"] = "scan" /\ work'["stopper"] = work["stopper"]
        /\ work'["ui"] = IF portal.starting THEN "serve ap" ELSE "idle"
    BY <1>0, <1>3, <1>a DEF RefreshScanResults
  <2>3. UNCHANGED <<portal, ap, port80, dns, page>>
    BY <1>3 DEF RefreshScanResults
  <2>4. Starting /\ portal.starting /\ work'["ui"] = "serve ap"
    BY <2>1, <2>2 DEF StartInv, StartSteps
  <2> QED BY <1>c, <2>1, <2>2, <2>3, <2>4 DEF StartInv, StartSteps
<1>4. CASE StartHttpServer
  <2>1. StartInv /\ StopInv
    BY <1>4 DEF StartHttpServer, PortalInv
  <2>2. UNCHANGED <<dns, page>>
    BY <1>4 DEF StartHttpServer
  <2>3. PICK from \in {"serve ap", "local"} :
           \/ /\ Goes("ui", from, IF from = "local" THEN "finish local" ELSE "finish ap")
              /\ port80 = "none" /\ port80' = "config" /\ UNCHANGED ap
              /\ portal' = [portal EXCEPT !.server = "up"]
           \/ /\ Goes("ui", from, "idle") /\ LeftOn
              /\ port80 = "none" /\ port80' = "config"
              /\ portal' = [portal EXCEPT !.server = "bare", !.starting = FALSE]
           \/ Goes("ui", from, "idle") /\ GivenUp /\ LeftOn /\ UNCHANGED port80
    BY <1>4 DEF StartHttpServer
  <2>4. /\ work["ui"] = from /\ work'["stopper"] = work["stopper"]
        /\ from \in StartSteps /\ Starting
    BY <1>0, <1>a, <2>3 DEF StartSteps
  <2>s. /\ ~Stopping("stopper") /\ ~portal.running /\ portal.access = "none"
        /\ portal.server # "up" /\ port80 = "config" <=> portal.server # "none"
        /\ ~dns.running
    BY <2>1, <2>4 DEF StartInv
  <2>5. CASE /\ Goes("ui", from, IF from = "local" THEN "finish local" ELSE "finish ap")
             /\ port80 = "none" /\ port80' = "config" /\ UNCHANGED ap
             /\ portal' = [portal EXCEPT !.server = "up"]
    <3>1. work'["ui"] = IF from = "local" THEN "finish local" ELSE "finish ap"
      BY <1>0, <1>a, <2>5
    <3>2. /\ portal'.running = portal.running /\ portal'.starting = portal.starting
          /\ portal'.runtime = portal.runtime /\ portal'.access = portal.access
          /\ portal'.server = "up"
      BY <1>0, <2>5 DEF Portals
    <3> QED BY <1>c, <2>1, <2>2, <2>4, <2>5, <3>1, <3>2 DEF StartInv, StartSteps
  <2>6. CASE /\ Goes("ui", from, "idle") /\ LeftOn
             /\ port80 = "none" /\ port80' = "config"
             /\ portal' = [portal EXCEPT !.server = "bare", !.starting = FALSE]
    <3>1. work'["ui"] = "idle" /\ ap' # "on"
      BY <1>0, <1>a, <2>6 DEF LeftOn
    <3>2. /\ portal'.running = portal.running /\ portal'.starting = FALSE
          /\ portal'.runtime = portal.runtime /\ portal'.access = portal.access
          /\ portal'.server = "bare"
      BY <1>0, <2>6 DEF Portals
    <3> QED BY <2>1, <2>2, <2>4, <2>s, <2>6, <3>1, <3>2, StartGivesUp
  <2>7. CASE Goes("ui", from, "idle") /\ GivenUp /\ LeftOn /\ UNCHANGED port80
    <3>1. work'["ui"] = "idle" /\ ap' # "on"
      BY <1>0, <1>a, <2>7 DEF LeftOn
    <3> QED BY <1>b, <2>1, <2>2, <2>4, <2>s, <2>7, <3>1, StartGivesUp
  <2> QED BY <2>3, <2>5, <2>6, <2>7
<1>5. CASE FinishStart
  <2>1. StartInv /\ StopInv
    BY <1>5 DEF FinishStart, PortalInv
  <2>2. UNCHANGED page
    BY <1>5 DEF FinishStart
  <2>3. CASE /\ Goes("ui", "finish ap", "idle") /\ StartDns /\ UNCHANGED <<ap, port80>>
             /\ portal' = [portal EXCEPT !.running = TRUE, !.starting = FALSE, !.access = "ap"]
    <3>1. /\ work["ui"] = "finish ap" /\ work'["ui"] = "idle"
          /\ work'["stopper"] = work["stopper"]
      BY <1>0, <1>a, <2>3
    <3>2. /\ portal'.running = TRUE /\ portal'.starting = FALSE /\ portal'.access = "ap"
          /\ portal'.runtime = portal.runtime /\ portal'.server = portal.server
      BY <1>0, <2>3 DEF Portals
    <3>3. ~DnsTaskLives => dns'.running = TRUE /\ dns'.task = "begin"
      BY <2>3 DEF StartDns
    <3>4. /\ ~Stopping("stopper") /\ page = "none" /\ ~DnsTaskLives /\ portal.runtime
          /\ portal.server = "up" /\ port80 = "config" /\ ap = "on"
      BY <2>1, <3>1 DEF StartInv, StartSteps
    <3> QED BY <2>2, <2>3, <3>1, <3>2, <3>3, <3>4, StartCompletes
  <2>4. CASE /\ Goes("ui", "finish local", "idle") /\ UNCHANGED <<ap, port80, dns>>
             /\ portal' = [portal EXCEPT !.running = TRUE, !.starting = FALSE,
                                         !.access = "local", !.runtime = TRUE]
    <3>1. /\ work["ui"] = "finish local" /\ work'["ui"] = "idle"
          /\ work'["stopper"] = work["stopper"]
      BY <1>0, <1>a, <2>4
    <3>2. /\ portal'.running = TRUE /\ portal'.starting = FALSE /\ portal'.access = "local"
          /\ portal'.runtime = TRUE /\ portal'.server = portal.server
      BY <1>0, <2>4 DEF Portals
    <3>3. /\ ~Stopping("stopper") /\ page = "none" /\ ~dns.running /\ ~DnsTaskLives
          /\ portal.server = "up" /\ port80 = "config" /\ ap # "on"
      BY <2>1, <3>1 DEF StartInv, StartSteps
    <3> QED BY <2>2, <2>4, <3>1, <3>2, <3>3, StartCompletes
  <2>5. CASE /\ Goes("ui", "finish ap", "idle") /\ ~DnsTaskLives
             /\ StopDns /\ LeftOn /\ port80' = "none"
             /\ portal' = [portal EXCEPT !.server = "none", !.starting = FALSE]
    <3>1. /\ work["ui"] = "finish ap" /\ work'["ui"] = "idle"
          /\ work'["stopper"] = work["stopper"] /\ ap' # "on"
      BY <1>0, <1>a, <2>5 DEF LeftOn
    <3>2. /\ portal'.running = portal.running /\ portal'.starting = FALSE
          /\ portal'.runtime = portal.runtime /\ portal'.access = portal.access
          /\ portal'.server = "none"
      BY <1>0, <2>5 DEF Portals
    <3>3. dns'.running = FALSE /\ dns'.task = dns.task
      BY <2>5 DEF StopDns, PortalTypes, PortalTypeOK
    <3>4. Starting /\ ~Stopping("stopper") /\ ~portal.running /\ portal.access = "none"
      BY <2>1, <3>1 DEF StartInv, StartSteps
    <3> QED BY <2>1, <2>5, <3>1, <3>2, <3>3, <3>4, StartGivesUp
  <2> QED BY <1>5, <2>3, <2>4, <2>5 DEF FinishStart
<1>6. ASSUME NEW t \in Threads, StopStep(t)
      PROVE  StartInv' /\ StopInv'
  <2>u. PICK u \in Threads : t # u /\ Threads = {t, u}
    BY <1>0
  <2>s. /\ StartInv /\ StopInv /\ ~Starting
        /\ work["stopper"] \notin StartSteps
    BY <1>0, <1>6 DEF StopStep, StopPortal, StopHttpServer, LeaveAccessPoint, FinishStop, Late,
               PortalInv, StartSteps, StopSteps
  <2>0. /\ ~Starting /\ ~portal.starting
        /\ work[t] \notin StartSteps /\ work[u] \notin StartSteps
        /\ StopInvOf(t, u)
    BY <1>0, <2>u, <2>s, StopsInEitherOrder DEF StartInv, StopInv
  <2>g. ASSUME ~portal'.starting, StopInvOf(t, u)',
               work'[t] \notin StartSteps, work'[u] \notin StartSteps
        PROVE  StartInv' /\ StopInv'
    BY <1>0, <2>u, <2>g, StopsInEitherOrder DEF StartInv, StopInv
  <2>1. CASE StopPortal(t)
    <3>1. /\ work[t] = "stop" /\ work'[t] = IF portal.running THEN "http" ELSE "idle"
          /\ work'[u] = work[u]
      BY <1>0, <1>a, <2>u, <2>1 DEF StopPortal
    <3>2. UNCHANGED <<ap, port80>> /\ GivenUp
      BY <2>1 DEF StopPortal
    <3>3. CASE portal.running
      <4>1. page' = "none" /\ dns'.running = FALSE /\ dns'.task = dns.task
        BY <2>1, <3>3 DEF StopPortal, InvalidateHtmlCache, StopDns, PortalTypes, PortalTypeOK
      <4>2. StopInvOf(t, u)'
        BY <1>0, <1>b, <2>0, <3>1, <3>2, <3>3, <4>1
           DEF StopInvOf, StopsAlone, StartSteps, StopSteps
      <4> QED BY <1>b, <2>0, <2>g, <3>1, <3>2, <3>3, <4>2 DEF StartSteps
    <3>4. CASE ~portal.running
      <4>1. UNCHANGED <<page, dns>>
        BY <2>1, <3>4 DEF StopPortal
      <4>2. StopInvOf(t, u)'
        BY <1>0, <1>b, <2>0, <3>1, <3>2, <3>4, <4>1
           DEF StopInvOf, StopsAlone, StartSteps, StopSteps
      <4> QED BY <1>b, <2>0, <2>g, <3>1, <3>2, <3>4, <4>2 DEF StartSteps
    <3> QED BY <3>3, <3>4
  <2>2. CASE StopHttpServer(t)
    <3>1. UNCHANGED <<ap, dns, page>>
      BY <2>2 DEF StopHttpServer
    <3>2. CASE /\ Goes(t, "http", IF portal.server # "none" THEN "closing" ELSE "mode")
               /\ UNCHANGED <<portal, port80>>
               /\ portal.server # "none" => work[u] # "closing"
      <4>2. CASE portal.server = "none"
        <5>0. Goes(t, "http", "mode")
          BY <3>2, <4>2
        <5>1. work[t] = "http" /\ work'[t] = "mode" /\ work'[u] = work[u]
          BY <1>0, <1>a, <2>u, <5>0
        <5>2. StopsAlone(t, u)' /\ StopsAlone(u, t)'
          BY <2>0, <3>1, <3>2, <4>2, <5>1 DEF StopInvOf, StopsAlone, StopSteps
        <5>3. StopInvOf(t, u)'
          BY <2>0, <3>1, <3>2, <4>2, <5>1, <5>2 DEF StopInvOf, StopSteps
        <5> QED BY <2>0, <2>g, <3>2, <5>1, <5>3 DEF StartSteps
      <4>3. CASE portal.server # "none"
        <5>0. Goes(t, "http", "closing")
          BY <3>2, <4>3
        <5>a. work[t] = "http" /\ work'[t] = "closing" /\ work'[u] = work[u]
          BY <1>0, <1>a, <2>u, <5>0
        <5>1. portal.running
          BY <2>0, <4>3, <5>a DEF StopInvOf, StopsAlone
        <5>2. work[u] \notin {"closing", "mode", "reset"} /\ portal.server = "up"
          BY <2>0, <3>2, <4>3, <5>a, <5>1 DEF StopInvOf, StopsAlone
        <5>3. StopInvOf(t, u)'
          BY <1>0, <2>0, <3>1, <3>2, <5>a, <5>1, <5>2
             DEF StopInvOf, StopsAlone, StartSteps, StopSteps
        <5> QED BY <2>0, <2>g, <3>2, <5>a, <5>1, <5>3 DEF StartSteps
      <4> QED BY <4>2, <4>3
    <3>3. CASE /\ Goes(t, "closing", "mode")
               /\ portal' = [portal EXCEPT !.server = "none"] /\ port80' = "none"
      <4>1. work[t] = "closing" /\ work'[t] = "mode" /\ work'[u] = work[u]
        BY <1>0, <1>a, <2>u, <3>3
      <4>2. /\ portal'.running = portal.running /\ portal'.starting = portal.starting
            /\ portal'.runtime = portal.runtime /\ portal'.access = portal.access
            /\ portal'.server = "none"
        BY <1>0, <3>3 DEF Portals
      <4>3. StopInvOf(t, u)'
        BY <1>0, <2>0, <3>1, <3>3, <4>1, <4>2 DEF StopInvOf, StopsAlone, StartSteps, StopSteps
      <4> QED BY <2>0, <2>g, <4>1, <4>2, <4>3 DEF StartSteps
    <3> QED BY <2>2, <2>u, <3>2, <3>3 DEF StopHttpServer
  <2>3. CASE LeaveAccessPoint(t)
    <3>0. Goes(t, "mode", "reset")
      BY <2>3 DEF LeaveAccessPoint
    <3>1. work[t] = "mode" /\ work'[t] = "reset" /\ work'[u] = work[u]
      BY <1>0, <1>a, <2>u, <3>0
    <3>2. /\ portal.access = "ap" => dns.running \/ ~DnsTaskLives
          /\ IF portal.access = "ap" THEN ap' # "on" ELSE ap' = ap
          /\ UNCHANGED <<portal, port80, dns, page>>
      BY <2>3 DEF LeaveAccessPoint, LeftOn
    <3>3. StopInvOf(t, u)'
      BY <1>0, <2>0, <3>1, <3>2 DEF StopInvOf, StopsAlone, StartSteps, StopSteps
    <3> QED BY <2>0, <2>g, <3>1, <3>2, <3>3 DEF StartSteps
  <2>4. CASE FinishStop(t)
    <3>1. work[t] = "reset" /\ work'[t] = "idle" /\ work'[u] = work[u]
      BY <1>0, <1>a, <2>u, <2>4 DEF FinishStop
    <3>2. /\ portal'.running = FALSE /\ portal'.starting = portal.starting
          /\ portal'.runtime = FALSE /\ portal'.access = "none"
          /\ portal'.server = portal.server
          /\ UNCHANGED <<ap, port80, dns, page>>
      BY <1>0, <2>4 DEF FinishStop, Portals
    <3>3. StopInvOf(t, u)'
      BY <1>0, <2>0, <3>1, <3>2 DEF StopInvOf, StopsAlone, StartSteps, StopSteps
    <3> QED BY <2>0, <2>g, <3>1, <3>2, <3>3 DEF StartSteps
  <2> QED BY <1>6, <2>1, <2>2, <2>3, <2>4 DEF StopStep
<1>7. CASE DnsStep
  <2>1. StartInv /\ StopInv
    BY <1>7 DEF DnsStep, PortalInv
  <2>2. /\ DnsTaskLives /\ dns'.running = dns.running
        /\ dns.running => dns'.task # "none"
    BY <1>7 DEF DnsStep, PortalTypes, PortalTypeOK
  <2>3. UNCHANGED <<portal, ap, port80, work, page>>
    BY <1>7 DEF DnsStep
  <2> QED BY <1>0, <2>1, <2>2, <2>3
             DEF StartInv, StopInv, StopInvOf, StopsAlone, StartSteps, StopSteps
<1>8. CASE GetPage
  <2>1. StartInv /\ StopInv
    BY <1>8 DEF GetPage, PortalInv
  <2>2. portal.server # "none" /\ page' = portal.access /\ UNCHANGED <<portal, ap, port80, dns, work>>
    BY <1>8 DEF GetPage, BuiltPage
  <2> QED BY <1>0, <2>1, <2>2
             DEF StartInv, StopInv, StopInvOf, StopsAlone, StartSteps, StopSteps
<1>9. CASE SaveForm
  <2>1. StartInv /\ StopInv
    BY <1>9 DEF SaveForm, PortalInv
  <2>2. /\ work["stopper"] = "idle" /\ work'["stopper"] \in {"stop", "idle"}
        /\ work'["ui"] = work["ui"] /\ page' \in {"none", page}
    BY <1>0, <1>9 DEF SaveForm, InvalidateHtmlCache
  <2>3. UNCHANGED <<portal, ap, port80, dns>>
    BY <1>9 DEF SaveForm
  <2> QED BY <1>0, <2>1, <2>2, <2>3
             DEF StartInv, StopInv, StopInvOf, StopsAlone, StartSteps, StopSteps
<1> QED
  BY <1>1, <1>2, <1>3, <1>4, <1>5, <1>6, <1>7, <1>8, <1>9 DEF PortalSteps, UiWork, Threads

\* What the portal's steps leave to the screen.
LEMMA PortalStepsSeenByScreen ==
    ASSUME PortalTypes, PortalSteps,
           work["stopper"] \in {"idle", "stop"} \union StopSteps
    PROVE  /\ work'["stopper"] \in {"idle", "stop"} \union StopSteps
           /\ work'["ui"] \in {"start"} \union StartSteps
                 => work["ui"] \in {"start"} \union StartSteps
           /\ port80' = "openplc" => port80 = "openplc"
           /\ disturbed \subseteq disturbed'
<1>0. /\ Threads = {"ui", "stopper"} /\ work \in [Threads -> Steps]
  BY DEF Threads, PortalTypes, PortalTypeOK
<1> USE <1>0 DEF Goes, StartSteps, StopSteps
<1>1. CASE StartPortal
  BY <1>1 DEF StartPortal
<1>2. CASE StartAccessPoint
  BY <1>2 DEF StartAccessPoint
<1>3. CASE RefreshScanResults
  BY <1>3 DEF RefreshScanResults
<1>4. CASE StartHttpServer
  BY <1>4 DEF StartHttpServer
<1>5. CASE FinishStart
  BY <1>5 DEF FinishStart
<1>6. ASSUME NEW t \in Threads, StopStep(t)
      PROVE  /\ work'["stopper"] \in {"idle", "stop"} \union StopSteps
             /\ work'["ui"] \in {"start"} \union StartSteps
                   => work["ui"] \in {"start"} \union StartSteps
             /\ port80' = "openplc" => port80 = "openplc"
             /\ disturbed \subseteq disturbed'
  <2>1. CASE StopPortal(t)
    BY <2>1 DEF StopPortal
  <2>2. CASE StopHttpServer(t)
    BY <2>2 DEF StopHttpServer
  <2>3. CASE LeaveAccessPoint(t)
    BY <2>3 DEF LeaveAccessPoint
  <2>4. CASE FinishStop(t)
    BY <2>4 DEF FinishStop
  <2> QED BY <1>6, <2>1, <2>2, <2>3, <2>4 DEF StopStep
<1>7. CASE DnsStep
  BY <1>7 DEF DnsStep
<1>8. CASE GetPage
  BY <1>8 DEF GetPage
<1>9. CASE SaveForm
  BY <1>9 DEF SaveForm
<1> QED
  BY <1>1, <1>2, <1>3, <1>4, <1>5, <1>6, <1>7, <1>8, <1>9 DEF PortalSteps, UiWork

----------------------------------------------------------------------------
(* What a step elsewhere leaves alone. *)

\* The LVGL task may come to a start or a stop, and the port may change hands
\* between the OpenPLC portal and nobody.
LEMMA PortalRests ==
    ASSUME PortalInv, UNCHANGED <<portal, ap, dns, page>>,
           UNCHANGED work["stopper"],
           work'["ui"] # work["ui"] =>
               {work["ui"], work'["ui"]} \intersect (StartSteps \union StopSteps) = {},
           port80 = "config" <=> port80' = "config",
           Undisturbed' => Undisturbed
    PROVE  PortalInv'
<1> SUFFICES ASSUME Undisturbed'
             PROVE  StartInv' /\ StopInv'
  BY DEF PortalInv
<1>1. StartInv /\ StopInv
  BY DEF PortalInv
<1>2. /\ Starting' <=> Starting
      /\ Stopping("ui")' <=> Stopping("ui")
      /\ Stopping("stopper")' <=> Stopping("stopper")
  BY DEF Starting, Stopping
<1>3. \A step \in StartSteps \union StopSteps : work'["ui"] = step <=> work["ui"] = step
  OBVIOUS
<1>4. StartInv'
  BY <1>1, <1>2, <1>3 DEF StartInv, StartSteps, StopSteps, DnsTaskLives
<1>5. StopInv'
  BY <1>1, <1>2, <1>3 DEF StopInv, StopInvOf, StopsAlone, StopSteps, DnsTaskLives
<1> QED BY <1>4, <1>5

LEMMA UartRests ==
    ASSUME UartInv, UNCHANGED uart, section' = "openplc" <=> section = "openplc"
    PROVE  UartInv'
BY DEF UartInv

LEMMA EndpointRests ==
    ASSUME EndpointInv, UNCHANGED endpointVars, UNCHANGED ui.endpoint,
           ui'.at = "apply" <=> ui.at = "apply", disturbed \subseteq disturbed'
    PROVE  EndpointInv'
BY DEF EndpointInv, Pending, endpointVars

\* A step of the portal disturbs nothing else.
LEMMA PortalStepsInv ==
    ASSUME IInv, PortalSteps, UNCHANGED <<connected, uart, Rest>>, inputs' \in 0..MaxInputs
    PROVE  IInv'
<1>1. /\ work'["stopper"] \in {"idle", "stop"} \union StopSteps
      /\ work'["ui"] \in {"start"} \union StartSteps
            => work["ui"] \in {"start"} \union StartSteps
      /\ port80' = "openplc" => port80 = "openplc"
      /\ disturbed \subseteq disturbed'
  BY PortalStepsSeenByScreen DEF IInv, ScreenInv, TypeOK, PortalTypes
<1>2. PortalTypes'
  BY PortalStepsKeepTypes DEF IInv, TypeOK, PortalTypes
<1>3. TypeOK'
  BY <1>2 DEF IInv, TypeOK, PortalTypes, UartTypeOK, Rest, endpointVars
<1>4. ScreenInv'
  BY <1>1 DEF IInv, ScreenInv, Rest
<1>5. PortalInv'
  <2>1. port80 = "openplc" => work["ui"] \notin {"start"} \union StartSteps
    BY DEF IInv, ScreenInv
  <2> QED BY <2>1, PortalStepsKeepPortalInv DEF IInv, ScreenInv, TypeOK, PortalTypes
<1>6. UartInv'
  BY UartRests DEF IInv, Rest
<1>7. EndpointInv'
  BY <1>1, EndpointRests DEF IInv, Rest
<1> QED BY <1>3, <1>4, <1>5, <1>6, <1>7 DEF IInv

----------------------------------------------------------------------------
(* The sections *)

LEMMA InitInv == Init => IInv
<1> SUFFICES ASSUME Init
             PROVE  IInv
  OBVIOUS
<1> USE DEF Init, PortalInit, UartInit
<1>1. TypeOK
  <2>1. PortalTypeOK
    BY DEF PortalTypeOK, Portals, Modes, Servers, Steps
  <2>2. uart \in [running : BOOLEAN, listening : BOOLEAN, bits : SUBSET {"START", "STOP"},
                missed : {"none", "start", "stop"}]
    OBVIOUS
  <2>3. store \in [saved : Endpoints, used : Endpoints]
    OBVIOUS
  <2>4. ui \in [at : Places, to : Sections, endpoint : Endpoints \union {Nothing}]
    BY DEF Places, Sections
  <2> QED BY <2>1, <2>2, <2>3, <2>4, SettingsAssumption DEF TypeOK, UartTypeOK, Sections
<1>2. ScreenInv
  BY DEF ScreenInv, Threads, StartSteps, StopSteps
<1>3. PortalInv
  <2>1. work["ui"] = "idle" /\ work["stopper"] = "idle"
    BY DEF Threads
  <2> QED BY <2>1 DEF PortalInv, StartInv, StopInv, StopInvOf, StopsAlone, Starting, Stopping,
                      StartSteps, StopSteps, DnsTaskLives
<1>4. UartInv
  BY DEF UartInv
<1>5. EndpointInv
  BY DEF EndpointInv, Pending
<1> QED BY <1>1, <1>2, <1>3, <1>4, <1>5 DEF IInv

LEMMA InputCounts ==
    ASSUME TypeOK, Input \/ UNCHANGED inputs
    PROVE  inputs' \in 0..MaxInputs
BY SettingsAssumption DEF TypeOK, Input

\* The LVGL task goes to another place.
LEMMA MovesTypes ==
    ASSUME TypeOK, NEW place \in Places, Moves(place)
    PROVE  /\ ui' \in [at : Places, to : Sections, endpoint : Endpoints \union {Nothing}]
           /\ ui'.at = place /\ ui'.to = ui.to /\ ui'.endpoint = ui.endpoint
BY DEF TypeOK, Moves

LEMMA WorkTypes ==
    ASSUME TypeOK, NEW step \in Steps, work' = [work EXCEPT !["ui"] = step]
    PROVE  /\ work' \in [Threads -> Steps]
           /\ work'["ui"] = step /\ work'["stopper"] = work["stopper"]
BY DEF TypeOK, PortalTypeOK, Threads

LEMMA OpenSettingsInv ==
    ASSUME IInv, OpenSettings, UNCHANGED connected
    PROVE  IInv'
<1> USE DEF OpenSettings, portalVars
<1>1. TypeOK'
  BY InputCounts DEF IInv, TypeOK, PortalTypeOK, UartTypeOK, Sections, endpointVars
<1>2. ScreenInv'
  BY DEF IInv, ScreenInv, At, StartSteps
<1>3. PortalInv'
  BY PortalRests DEF IInv, Undisturbed
<1>4. UartInv'
  BY UartRests DEF IInv
<1>5. EndpointInv'
  BY EndpointRests DEF IInv
<1> QED BY <1>1, <1>2, <1>3, <1>4, <1>5 DEF IInv

LEMMA LeaveSectionInv ==
    ASSUME IInv, LeaveSection, UNCHANGED connected
    PROVE  IInv'
<1>0. TypeOK /\ Input /\ At("idle")
  BY DEF IInv, LeaveSection
<1>1. PICK to \in Sections \ {section} : ui' = [ui EXCEPT !.at = "leave", !.to = to]
  BY DEF LeaveSection
<1>2. /\ ui' \in [at : Places, to : Sections, endpoint : Endpoints \union {Nothing}]
      /\ ui'.at = "leave" /\ ui'.to = to /\ ui'.endpoint = ui.endpoint
  BY <1>0, <1>1 DEF TypeOK, Places
<1>3. /\ work' \in [Threads -> Steps] /\ work'["stopper"] = work["stopper"]
      /\ work["ui"] = "idle" /\ work'["ui"] \in {"idle", "stop"}
  <2>1. work["ui"] = "idle" /\ {"idle", "stop"} \subseteq Steps
    BY <1>0 DEF At, Steps
  <2>2. CASE UNCHANGED work
    BY <1>0, <2>1, <2>2 DEF TypeOK, PortalTypeOK
  <2>3. CASE work' = [work EXCEPT !["ui"] = "stop"]
    BY <1>0, <2>1, <2>3, WorkTypes
  <2>4. work' = work \/ work' = [work EXCEPT !["ui"] = "stop"]
    BY <1>0 DEF LeaveSection, TypeOK, PortalTypeOK
  <2> QED BY <2>2, <2>3, <2>4
<1>4. menu' \in [portal : BOOLEAN, notice : BOOLEAN]
  <2>1. menu' = menu \/ menu' = [portal |-> FALSE, notice |-> FALSE]
    BY DEF LeaveSection
  <2>2. menu \in [portal : BOOLEAN, notice : BOOLEAN]
    BY <1>0 DEF TypeOK
  <2>3. [portal |-> FALSE, notice |-> FALSE] \in [portal : BOOLEAN, notice : BOOLEAN]
    OBVIOUS
  <2> QED BY <2>1, <2>2, <2>3
<1>5. UNCHANGED <<connected, portal, ap, port80, dns, page, uart, disturbed, section,
                  endpointVars>>
  BY DEF LeaveSection
<1>6. TypeOK'
  BY <1>0, <1>2, <1>3, <1>4, <1>5, InputCounts
     DEF TypeOK, PortalTypeOK, UartTypeOK, endpointVars
<1>7. ScreenInv'
  BY <1>0, <1>2, <1>3, <1>5 DEF IInv, ScreenInv, StartSteps, At
<1>8. PortalInv'
  BY <1>3, <1>5, PortalRests DEF IInv, Undisturbed, StartSteps, StopSteps
<1>9. UartInv'
  BY <1>5, UartRests DEF IInv
<1>10. EndpointInv'
  BY <1>0, <1>2, <1>5, EndpointRests DEF IInv, At
<1> QED BY <1>6, <1>7, <1>8, <1>9, <1>10 DEF IInv

LEMMA UartCalls ==
    ASSUME UartTypeOK, uart' \in {UartStart(uart), UartStop(uart), uart}
    PROVE  UartTypeOK'
<1>1. ASSUME NEW bits \in SUBSET {"START", "STOP"}, NEW missed \in {"none", "start", "stop"},
             uart' \in {[uart EXCEPT !.bits = bits, !.missed = missed],
                       [uart EXCEPT !.running = FALSE, !.bits = bits, !.missed = missed],
                       [uart EXCEPT !.missed = missed]}
      PROVE  UartTypeOK'
  BY <1>1 DEF UartTypeOK
<1>2. uart.bits \in SUBSET {"START", "STOP"}
  BY DEF UartTypeOK
<1>3. CASE uart' = UartStart(uart)
  BY <1>1, <1>2, <1>3 DEF UartStart
<1>4. CASE uart' = UartStop(uart)
  BY <1>1, <1>2, <1>4 DEF UartStop
<1> QED BY <1>3, <1>4 DEF UartTypeOK

LEMMA EnterSectionInv ==
    ASSUME IInv, EnterSection, UNCHANGED connected
    PROVE  IInv'
<1>0. /\ TypeOK /\ ScreenInv /\ UartInv /\ At("leave") /\ section' = ui.to /\ Moves("idle")
      /\ UNCHANGED <<portal, ap, dns, work, page, disturbed, menu, endpointVars, inputs>>
  BY DEF IInv, EnterSection
<1>1. /\ ui' \in [at : Places, to : Sections, endpoint : Endpoints \union {Nothing}]
      /\ ui'.at = "idle" /\ ui'.endpoint = ui.endpoint
  BY <1>0, MovesTypes DEF Places
<1>2. /\ section' \in Sections /\ section' # section
      /\ work["ui"] = "idle"
  BY <1>0 DEF TypeOK, ScreenInv, At
<1>3. /\ port80' \in {"none", "config", "openplc"}
      /\ port80' = "config" <=> port80 = "config"
      /\ port80' = "openplc" => section' = "openplc"
  BY <1>0 DEF EnterSection, Taken, Released, TypeOK, PortalTypeOK
<1>4. UartTypeOK'
  BY <1>0, UartCalls DEF EnterSection, TypeOK
<1>5. TypeOK'
  BY <1>0, <1>1, <1>2, <1>3, <1>4 DEF TypeOK, PortalTypeOK, endpointVars
<1>6. ScreenInv'
  BY <1>0, <1>1, <1>2, <1>3 DEF ScreenInv, StartSteps
<1>7. PortalInv'
  BY <1>0, <1>3, PortalRests DEF IInv, Undisturbed
<1>8. UartInv'
  <2>1. CASE section = "openplc"
    <3>1. uart' = UartStop(uart)
      BY <2>1 DEF EnterSection
    <3>2. CASE uart.running
      BY <1>0, <1>2, <2>1, <3>1, <3>2 DEF UartInv, UartStop, TypeOK, UartTypeOK
    <3>3. CASE ~uart.running
      BY <1>0, <1>2, <2>1, <3>1, <3>3 DEF UartInv, UartStop, TypeOK, UartTypeOK
    <3> QED BY <3>2, <3>3
  <2>2. CASE section # "openplc" /\ section' = "openplc"
    <3>1. uart' = UartStart(uart)
      BY <1>0, <2>2 DEF EnterSection
    <3>2. CASE uart.running
      BY <1>0, <2>2, <3>1, <3>2 DEF UartInv, UartStart, TypeOK, UartTypeOK
    <3>3. CASE ~uart.running
      <4>1. /\ "START" \in uart'.bits /\ uart'.running = uart.running
            /\ uart'.listening = uart.listening
        BY <1>0, <3>1, <3>3 DEF UartStart, TypeOK, UartTypeOK
      <4> QED BY <2>2, <3>3, <4>1 DEF UartInv
    <3> QED BY <3>2, <3>3
  <2>3. CASE section # "openplc" /\ section' # "openplc"
    BY <1>0, <2>3, UartRests DEF EnterSection
  <2> QED BY <2>1, <2>2, <2>3
<1>9. EndpointInv'
  BY <1>0, <1>1, EndpointRests DEF IInv, At
<1> QED BY <1>5, <1>6, <1>7, <1>8, <1>9 DEF IInv

LEMMA RefreshPortalInv ==
    ASSUME IInv, RefreshPortal, UNCHANGED connected
    PROVE  IInv'
<1>0. /\ TypeOK /\ ScreenInv /\ section = "openplc"
      /\ UNCHANGED <<portal, ap, dns, work, page, uart, disturbed, section, ui, menu,
                     endpointVars, inputs>>
  BY DEF IInv, RefreshPortal
<1>1. /\ port80' \in {"none", "config", "openplc"}
      /\ port80' = "config" <=> port80 = "config"
  BY <1>0 DEF RefreshPortal, Taken, Released, TypeOK, PortalTypeOK
<1>2. TypeOK'
  BY <1>0, <1>1 DEF TypeOK, PortalTypeOK, UartTypeOK, endpointVars
<1>3. ScreenInv'
  BY <1>0 DEF ScreenInv
<1>4. PortalInv'
  BY <1>0, <1>1, PortalRests DEF IInv, Undisturbed
<1>5. UartInv' /\ EndpointInv'
  BY <1>0, UartRests, EndpointRests DEF IInv
<1> QED BY <1>2, <1>3, <1>4, <1>5 DEF IInv

----------------------------------------------------------------------------
(* The Wi-Fi section *)

\* What the menu's callbacks have in common.
LEMMA MenuInv ==
    ASSUME IInv, MenuFrame, Input \/ UNCHANGED inputs, section = "wifi", work["ui"] = "idle",
           NEW place \in {"idle", "start", "starting"}, Moves(place), ui.at # "apply",
           menu' \in [portal : BOOLEAN, notice : BOOLEAN],
           \/ UNCHANGED work
           \/ work' = [work EXCEPT !["ui"] = "stop"]
           \/ work' = [work EXCEPT !["ui"] = "start"] /\ place = "starting"
    PROVE  IInv'
<1>0. TypeOK /\ ScreenInv
  BY DEF IInv
<1>1. /\ ui' \in [at : Places, to : Sections, endpoint : Endpoints \union {Nothing}]
      /\ ui'.at = place /\ ui'.endpoint = ui.endpoint
  BY <1>0, MovesTypes DEF Places
<1>2. /\ work' \in [Threads -> Steps] /\ work'["stopper"] = work["stopper"]
      /\ work'["ui"] \in {"idle", "start", "stop"}
      /\ work'["ui"] = "start" => place = "starting"
  <2>1. {"idle", "start", "stop"} \subseteq Steps
    BY DEF Steps
  <2>2. CASE UNCHANGED work
    BY <1>0, <2>2 DEF TypeOK, PortalTypeOK
  <2>3. CASE work' = [work EXCEPT !["ui"] = "stop"]
    BY <1>0, <2>1, <2>3, WorkTypes
  <2>4. CASE work' = [work EXCEPT !["ui"] = "start"] /\ place = "starting"
    BY <1>0, <2>1, <2>4, WorkTypes
  <2> QED BY <2>2, <2>3, <2>4
<1>3. TypeOK'
  BY <1>0, <1>1, <1>2, InputCounts DEF TypeOK, PortalTypeOK, UartTypeOK, MenuFrame, endpointVars
<1>4. ScreenInv'
  BY <1>0, <1>1, <1>2 DEF ScreenInv, StartSteps, MenuFrame
<1>5. PortalInv'
  BY <1>2, PortalRests DEF IInv, Undisturbed, StartSteps, StopSteps, MenuFrame
<1>6. UartInv' /\ EndpointInv'
  BY <1>1, UartRests, EndpointRests DEF IInv, MenuFrame
<1> QED BY <1>3, <1>4, <1>5, <1>6 DEF IInv

LEMMA MenuStepsInv ==
    ASSUME IInv, DisplayScanData \/ MenuStep
    PROVE  IInv'
<1>0. /\ menu \in [portal : BOOLEAN, notice : BOOLEAN]
      /\ portal.running \in BOOLEAN /\ connected \in BOOLEAN
      /\ work \in [Threads -> Steps]
      /\ ui.at \in {"start", "starting"} => section = "wifi"
  BY DEF IInv, TypeOK, PortalTypeOK, Portals, ScreenInv
<1>1. CASE DisplayScanData
  BY <1>0, <1>1, MenuInv DEF DisplayScanData, At
<1>2. CASE HearLinkChange
  <2>1. PICK place \in {"idle", "start"} : Moves(place)
    BY <1>2 DEF HearLinkChange
  <2>2. UNCHANGED work \/ work' = [work EXCEPT !["ui"] = "stop"]
    BY <1>0, <1>2 DEF HearLinkChange
  <2>3. menu' \in [portal : BOOLEAN, notice : BOOLEAN]
    <3>1. [portal |-> FALSE, notice |-> FALSE] \in [portal : BOOLEAN, notice : BOOLEAN]
      OBVIOUS
    <3> QED BY <1>2, <3>1 DEF HearLinkChange
  <2> QED BY <1>2, <2>1, <2>2, <2>3, MenuInv DEF HearLinkChange, At
<1>3. CASE StartPortalIfNeeded
  <2>1. menu' \in [portal : BOOLEAN, notice : BOOLEAN]
    BY <1>0, <1>3 DEF StartPortalIfNeeded
  <2>2. CASE connected \/ portal.running
    BY <1>0, <1>3, <2>1, <2>2, MenuInv DEF StartPortalIfNeeded, At
  <2>3. CASE ~(connected \/ portal.running)
    BY <1>0, <1>3, <2>1, <2>3, MenuInv DEF StartPortalIfNeeded, At
  <2> QED BY <2>2, <2>3
<1>4. CASE PortalStarted
  <2>1. menu' \in [portal : BOOLEAN, notice : BOOLEAN]
    BY <1>0, <1>4 DEF PortalStarted
  <2> QED BY <1>0, <1>4, <2>1, MenuInv DEF PortalStarted, At
<1> QED BY <1>1, <1>2, <1>3, <1>4 DEF MenuStep

LEMMA LinkChangesInv ==
    ASSUME IInv, LinkChanges
    PROVE  IInv'
<1>1. menu' \in [portal : BOOLEAN, notice : BOOLEAN]
  BY DEF IInv, TypeOK, LinkChanges
<1>2. TypeOK'
  BY <1>1, InputCounts
     DEF IInv, TypeOK, PortalTypeOK, UartTypeOK, LinkChanges, portalVars, endpointVars
<1>3. ScreenInv'
  BY DEF IInv, ScreenInv, LinkChanges, portalVars
<1>4. PortalInv'
  BY PortalRests DEF IInv, Undisturbed, LinkChanges, portalVars
<1>5. UartInv' /\ EndpointInv'
  BY UartRests, EndpointRests DEF IInv, LinkChanges
<1> QED BY <1>2, <1>3, <1>4, <1>5 DEF IInv

----------------------------------------------------------------------------
(* Endpoints *)

LEMMA PostTypes ==
    ASSUME TypeOK, NEW e \in Endpoints, Posts(e)
    PROVE  events' \in Seq(Endpoints) /\ Len(events') <= QueueSize /\ events' # <<>>
BY SettingsAssumption DEF TypeOK, Posts

LEMMA OneInSeq ==
    ASSUME NEW S, NEW e \in S
    PROVE  <<e>> \in Seq(S)
OBVIOUS

\* What the steps of an endpoint have in common.
LEMMA EndpointStepInv ==
    ASSUME IInv, EndpointFrame, UNCHANGED uart, Input \/ UNCHANGED inputs,
           ui' \in [at : Places, to : Sections, endpoint : Endpoints \union {Nothing}],
           UNCHANGED ui \/ (ui'.at \in {"idle", "apply"} /\ work["ui"] = "idle"),
           ui'.at = "apply" => section # "closed" /\ ui'.endpoint # Nothing,
           form' \in Endpoints \union {Nothing},
           store' \in [saved : Endpoints, used : Endpoints],
           events' \in Seq(Endpoints), Len(events') <= QueueSize,
           async' \in Seq(Endpoints),
           disturbed' \subseteq Races, Undisturbed' => Undisturbed,
           EndpointInv'
    PROVE  IInv'
<1>1. TypeOK'
  BY InputCounts DEF IInv, TypeOK, PortalTypeOK, UartTypeOK, EndpointFrame, portalVars
<1>2. ScreenInv'
  BY DEF IInv, ScreenInv, EndpointFrame, portalVars, StartSteps
<1>3. PortalInv'
  BY PortalRests DEF IInv, EndpointFrame, portalVars
<1>4. UartInv'
  BY UartRests DEF IInv, EndpointFrame
<1> QED BY <1>1, <1>2, <1>3, <1>4 DEF IInv

LEMMA SubmitFormInv ==
    ASSUME IInv, SubmitForm
    PROVE  IInv'
<1>1. PICK e \in Endpoints : form' = e /\ store' = [store EXCEPT !.saved = e]
  BY DEF SubmitForm
<1>2. store' \in [saved : Endpoints, used : Endpoints] /\ form' # Nothing
  BY <1>1, SettingsAssumption DEF IInv, TypeOK
<1>3. EndpointInv'
  BY <1>2 DEF EndpointInv, Pending
<1> QED
  BY <1>1, <1>2, <1>3, EndpointStepInv DEF SubmitForm, IInv, TypeOK, ScreenInv, Undisturbed

LEMMA PostFormInv ==
    ASSUME IInv, PostForm
    PROVE  IInv'
<1>1. form \in Endpoints
  BY DEF PostForm, IInv, TypeOK
<1>2. events' \in Seq(Endpoints) /\ Len(events') <= QueueSize /\ events' # <<>>
  BY <1>1, PostTypes DEF PostForm, IInv
<1>3. EndpointInv'
  BY <1>2 DEF EndpointInv, Pending
<1> QED
  BY <1>2, <1>3, EndpointStepInv DEF PostForm, IInv, TypeOK, ScreenInv, Undisturbed

LEMMA ReceiveLineInv ==
    ASSUME IInv, ReceiveLine
    PROVE  IInv'
<1>1. events' \in Seq(Endpoints) /\ Len(events') <= QueueSize /\ events' # <<>>
  BY PostTypes DEF ReceiveLine, IInv
<1>2. EndpointInv'
  BY <1>1 DEF EndpointInv, Pending
<1> QED
  BY <1>1, <1>2, EndpointStepInv DEF ReceiveLine, IInv, TypeOK, ScreenInv, Undisturbed

LEMMA UnheardRace ==
    ASSUME disturbed \subseteq Races, Unheard
    PROVE  /\ disturbed' \subseteq Races /\ (Undisturbed' => Undisturbed)
           /\ "unheard" \in disturbed'
BY DEF Unheard, Races, Undisturbed

LEMMA HandleEndpointInv ==
    ASSUME IInv, HandleEndpoint
    PROVE  IInv'
<1>0. /\ events \in Seq(Endpoints) /\ events # <<>> /\ events' = Tail(events)
      /\ Len(events) <= QueueSize /\ QueueSize \in Nat /\ async \in Seq(Endpoints)
      /\ disturbed \subseteq Races
  BY SettingsAssumption DEF HandleEndpoint, IInv, TypeOK
<1>1. /\ events' \in Seq(Endpoints) /\ Len(events') <= QueueSize
      /\ Head(events) \in Endpoints
  BY <1>0
<1>2. /\ UNCHANGED <<form, store, ui, uart, inputs>> /\ EndpointFrame
      /\ ui.at = "apply" => section # "closed" /\ ui.endpoint # Nothing
  BY DEF HandleEndpoint, IInv, ScreenInv
<1>3. CASE section = "closed"
  <2>1. Unheard /\ UNCHANGED async
    BY <1>3 DEF HandleEndpoint
  <2>2. EndpointInv'
    BY <1>0, <1>2, <1>3, <2>1, UnheardRace DEF EndpointInv
  <2> QED
    BY <1>0, <1>1, <1>2, <2>1, <2>2, UnheardRace, EndpointStepInv DEF IInv, TypeOK
<1>4. CASE section # "closed"
  <2>1. async' = <<Head(events)>> \o async /\ UNCHANGED disturbed
    BY <1>4 DEF HandleEndpoint
  <2>2. <<Head(events)>> \in Seq(Endpoints)
    BY <1>1, OneInSeq
  <2>3. async' \in Seq(Endpoints) /\ async' # <<>>
    BY <1>0, <1>1, <2>1, <2>2
  <2>4. EndpointInv'
    BY <2>3 DEF EndpointInv, Pending
  <2> QED
    BY <1>0, <1>1, <1>2, <2>1, <2>3, <2>4, EndpointStepInv DEF IInv, TypeOK, Undisturbed
<1> QED BY <1>3, <1>4

LEMMA SaveEndpointTypes ==
    ASSUME TypeOK, NEW e \in Endpoints, SaveEndpoint(e)
    PROVE  /\ store' \in [saved : Endpoints, used : Endpoints] /\ store'.saved = e
           /\ ui' \in [at : Places, to : Sections, endpoint : Endpoints \union {Nothing}]
           /\ ui'.at = "apply" /\ ui'.endpoint = e /\ e # Nothing
BY SettingsAssumption DEF TypeOK, SaveEndpoint, Places

LEMMA ApplyReceivedInv ==
    ASSUME IInv, ApplyReceived
    PROVE  IInv'
<1>0. /\ At("idle") /\ async # <<>> /\ async' = Tail(async) /\ async \in Seq(Endpoints)
      /\ TypeOK /\ UNCHANGED <<form, events, uart, inputs>> /\ EndpointFrame
  BY DEF ApplyReceived, IInv, TypeOK
<1>1. async' \in Seq(Endpoints) /\ Head(async) \in Endpoints
  BY <1>0
<1>2. CASE section = "closed"
  <2>1. Unheard /\ UNCHANGED <<store, ui>>
    BY <1>2 DEF ApplyReceived
  <2>2. EndpointInv'
    BY <1>0, <2>1, UnheardRace DEF EndpointInv, At, TypeOK
  <2> QED
    BY <1>0, <1>1, <2>1, <2>2, UnheardRace, EndpointStepInv DEF TypeOK, At
<1>3. CASE section # "closed"
  <2>1. SaveEndpoint(Head(async)) /\ UNCHANGED disturbed
    BY <1>3 DEF ApplyReceived
  <2>2. EndpointInv'
    BY <1>0, <1>1, <2>1, SaveEndpointTypes DEF EndpointInv
  <2> QED
    BY <1>0, <1>1, <1>3, <2>1, <2>2, SaveEndpointTypes, EndpointStepInv
       DEF TypeOK, At, Undisturbed
<1> QED BY <1>2, <1>3

LEMMA ConfirmDialogInv ==
    ASSUME IInv, ConfirmDialog
    PROVE  IInv'
<1>0. /\ TypeOK /\ Input /\ At("idle") /\ section = "openplc"
      /\ UNCHANGED <<form, events, async, uart, disturbed>> /\ EndpointFrame
  BY DEF ConfirmDialog, IInv
<1>1. PICK e \in Endpoints : SaveEndpoint(e)
  BY DEF ConfirmDialog
<1>2. EndpointInv'
  BY <1>0, <1>1, SaveEndpointTypes DEF EndpointInv
<1> QED
  BY <1>0, <1>1, <1>2, SaveEndpointTypes, EndpointStepInv DEF TypeOK, At, Undisturbed

LEMMA ApplyEndpointInv ==
    ASSUME IInv, ApplyEndpoint
    PROVE  IInv'
<1>0. /\ TypeOK /\ At("apply") /\ store' = [store EXCEPT !.used = ui.endpoint]
      /\ ui' = [ui EXCEPT !.at = "idle", !.endpoint = Nothing]
      /\ disturbed' = disturbed \ {"unheard"}
      /\ UNCHANGED <<form, events, async, uart, inputs>> /\ EndpointFrame
  BY DEF ApplyEndpoint, IInv
<1>1. /\ ui' \in [at : Places, to : Sections, endpoint : Endpoints \union {Nothing}]
      /\ ui'.at = "idle"
  BY <1>0 DEF TypeOK, Places
<1>2. ui.endpoint \in Endpoints
  BY <1>0 DEF IInv, ScreenInv, TypeOK, At
<1>3. /\ store' \in [saved : Endpoints, used : Endpoints]
      /\ store'.saved = store.saved /\ store'.used = ui.endpoint
  BY <1>0, <1>2 DEF TypeOK
<1>4. EndpointInv'
  BY <1>0, <1>1, <1>3 DEF IInv, EndpointInv, Pending, At
<1>5. disturbed' \subseteq Races /\ (Undisturbed' => Undisturbed)
  BY <1>0 DEF TypeOK, Undisturbed
<1> QED
  BY <1>0, <1>1, <1>3, <1>4, <1>5, EndpointStepInv DEF TypeOK, At

----------------------------------------------------------------------------
(* The serial line, and the whole *)

LEMMA UartStepInv ==
    ASSUME IInv, UartStep
    PROVE  IInv'
<1>0. /\ TypeOK /\ UartServes
      /\ UNCHANGED <<connected, portalVars, disturbed, section, ui, menu, endpointVars, inputs>>
  BY DEF UartStep, Rest, IInv
<1>1. /\ uart.bits \in SUBSET {"START", "STOP"} /\ uart.bits # {}
      /\ uart.missed \in {"none", "start", "stop"}
  BY <1>0 DEF TypeOK, UartTypeOK, UartServes
<1>2. CASE "STOP" \notin uart.bits
  <2>1. /\ uart' = [running |-> TRUE, listening |-> TRUE, bits |-> {}, missed |-> uart.missed]
        /\ uart.bits = {"START"}
    BY <1>0, <1>1, <1>2 DEF UartServes
  <2>2. UartTypeOK' /\ UartInv'
    BY <1>0, <1>1, <2>1 DEF IInv, UartInv, UartTypeOK
  <2> QED
    BY <1>0, <2>2, PortalRests, EndpointRests
       DEF IInv, TypeOK, PortalTypeOK, ScreenInv, Undisturbed, portalVars, endpointVars
<1>3. CASE "STOP" \in uart.bits
  <2>1. PICK missed \in {"none", "start"} :
           /\ uart' = [running |-> FALSE, listening |-> FALSE, bits |-> {}, missed |-> missed]
           /\ missed = IF "START" \in uart.bits THEN "start" ELSE "none"
    BY <1>0, <1>3 DEF UartServes
  <2>2. UartTypeOK'
    BY <2>1 DEF UartTypeOK
  <2>3. uart.bits = {"STOP"} \/ missed = "start"
    BY <1>1, <1>3, <2>1
  <2>4. UartInv'
    BY <1>0, <2>1, <2>3 DEF IInv, UartInv
  <2> QED
    BY <1>0, <2>2, <2>4, PortalRests, EndpointRests
       DEF IInv, TypeOK, PortalTypeOK, ScreenInv, Undisturbed, portalVars, endpointVars
<1> QED BY <1>2, <1>3

LEMMA NextInv == IInv /\ [Next]_vars => IInv'
<1> SUFFICES ASSUME IInv, [Next]_vars
             PROVE  IInv'
  OBVIOUS
<1>1. CASE UNCHANGED vars
  <2>1. UNCHANGED <<connected, portal, ap, port80, dns, work, page, uart, disturbed, section, ui,
                   menu, form, store, events, async, inputs>>
    BY <1>1 DEF vars, portalVars, endpointVars
  <2>2. TypeOK'
    BY <2>1 DEF IInv, TypeOK, PortalTypeOK, UartTypeOK
  <2>3. ScreenInv'
    BY <2>1 DEF IInv, ScreenInv
  <2>4. PortalInv' /\ UartInv' /\ EndpointInv'
    BY <2>1, PortalRests, UartRests, EndpointRests DEF IInv, Undisturbed, endpointVars
  <2> QED BY <2>2, <2>3, <2>4 DEF IInv
<1>2. ASSUME PortalSteps, UNCHANGED <<connected, uart, Rest>>, Input \/ UNCHANGED inputs
      PROVE  IInv'
  BY <1>2, InputCounts, PortalStepsInv DEF IInv
<1>3. CASE UiStep
  BY <1>2, <1>3, EnterSectionInv, MenuStepsInv, ApplyReceivedInv, ApplyEndpointInv
     DEF UiStep, PortalSteps
<1>4. CASE StopperStep \/ DnsTask
  BY <1>2, <1>4 DEF StopperStep, DnsTask, PortalSteps
<1>5. CASE PortalTimer
  BY <1>5, RefreshPortalInv DEF PortalTimer
<1>6. CASE User
  BY <1>2, <1>6, OpenSettingsInv, LeaveSectionInv, MenuStepsInv, SubmitFormInv, ReceiveLineInv,
     ConfirmDialogInv DEF User, PortalSteps
<1> QED
  BY <1>1, <1>3, <1>4, <1>5, <1>6, UartStepInv, PostFormInv, HandleEndpointInv, LinkChangesInv
     DEF Next

LEMMA SpecInv == Spec => []IInv
BY InitInv, NextInv, PTL DEF Spec

\* Every variable of the settings screen, of the portals and of the serial line keeps
\* its type, whatever the user, the phone and the network do.
THEOREM TypeCorrect == Spec => []TypeOK
<1>1. IInv => TypeOK
  BY DEF IInv
<1> QED BY SpecInv, <1>1, PTL

\* Whenever nothing is under way the portal's flags (config_portal.c:53-73) tell which
\* server, port, radio mode and DNS task there are, whichever calls of the drivers
\* failed: an access point without a portal is one that such a call left on, and a
\* portal without a DNS task is one whose task found no socket.  It is assumed that no
\* start met a stop and no two stops met in httpd_stop.
THEOREM PortalFlagsAreTrueHolds == Spec => []PortalFlagsAreTrue
<1>1. IInv => PortalFlagsAreTrue
  <2> SUFFICES ASSUME IInv, Undisturbed, work["ui"] = "idle", work["stopper"] = "idle"
               PROVE  /\ ~portal.starting
                      /\ portal.running =>
                            /\ portal.server = "up" /\ port80 = "config" /\ portal.runtime
                            /\ portal.access # "none" /\ page \in {"none", portal.access}
                      /\ ~portal.running =>
                            /\ portal.server # "up" /\ portal.access = "none"
                            /\ port80 = "config" <=> portal.server = "bare"
                      /\ ap = "on" <=> portal.access = "ap"
                      /\ dns.running <=> portal.access = "ap"
                      /\ portal.access = "ap" => DnsTaskLives \/ dns.task = "failed"
    BY DEF PortalFlagsAreTrue, Undisturbed, Threads
  <2>1. StartInv /\ StopInv /\ ~Starting /\ ~Stopping("ui") /\ ~Stopping("stopper")
    BY DEF IInv, PortalInv, Starting, Stopping, StartSteps, StopSteps
  <2>2. portal.server \in Servers /\ dns.task \in {"none", "begin", "serve", "failed"}
    BY DEF IInv, TypeOK, PortalTypeOK, Portals
  <2>3. /\ work["ui"] \notin {"mode", "reset"} /\ work["stopper"] \notin {"mode", "reset"}
    OBVIOUS
  <2> QED BY <2>1, <2>2, <2>3 DEF StartInv, StopInv, StopInvOf, Servers, DnsTaskLives
<1> QED BY SpecInv, <1>1, PTL

\* What the serial task does is what the OpenPLC section asked it for
\* (openplc_settings.c), except after a command that is known to have been missed.
THEOREM UartFollowsSectionHolds == Spec => []UartFollowsSection
<1>1. IInv => UartFollowsSection
  BY DEF IInv, UartInv, UartFollowsSection, TypeOK, UartTypeOK
<1> QED BY SpecInv, <1>1, PTL

\* Once every endpoint has been dealt with, the client uses the saved one, or one was
\* posted that found no settings screen.
THEOREM EndpointInUseIsSavedHolds == Spec => []EndpointInUseIsSaved
<1>1. IInv => EndpointInUseIsSaved
  BY DEF IInv, EndpointInv, Pending, EndpointInUseIsSaved
<1> QED BY SpecInv, <1>1, PTL
===============================================================================
