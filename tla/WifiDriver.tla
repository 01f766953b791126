---------------------------- MODULE WifiDriver ----------------------------
(***************************************************************************)
(* The station interface of esp_wifi as components/settings uses it: one   *)
(* configuration, one attempt or link at a time, and events posted to the  *)
(* default event loop in the order they happen.  A password is named by    *)
(* the network it opens.                                                   *)
(***************************************************************************)
EXTENDS Naturals, Sequences

CONSTANTS
    Networks,       \* names of access points
    NoText,         \* the empty string
    EventLimit      \* bound: events waiting before the environment may post another

ASSUME NoTextAssumption == NoText \notin Networks

Texts == Networks \union {NoText}
Credentials == [ssid : Texts, password : Texts]
NoCredentials == [ssid |-> NoText, password |-> NoText]
Entered(n) == [ssid |-> n, password |-> n]

VARIABLES
    wifi,           \* the interface: on, config, link, ap (what the link uses), ip
    serving,        \* the networks that can be associated with
    dhcp,           \* their DHCP servers answer
    events          \* the default event loop's queue

driverVars == <<wifi, serving, dhcp, events>>

Event(type, network) == [type |-> type, network |-> network]

DriverOff == [on |-> FALSE, config |-> NoCredentials, link |-> "down",
              ap |-> NoCredentials, ip |-> FALSE]

Interfaces ==
    [on : BOOLEAN, config : Credentials, link : {"down", "trying", "up"},
     ap : Credentials, ip : BOOLEAN]

Events ==
    [type : {"ENABLE", "START", "CONNECTED", "DISCONNECTED", "GOT_IP", "LOST_IP",
             "SET_NETWORK", "CONNECT", "DISCONNECT", "CREDENTIALS"},
     network : Credentials]

DriverTypeOK ==
    /\ wifi \in Interfaces
    /\ serving \subseteq Networks
    /\ dhcp \in BOOLEAN
    /\ events \in Seq(Events)

----------------------------------------------------------------------------
(* The calls *)

\* esp_wifi_connect is refused without a configuration and while an attempt or
\* a link exists.
CanConnect(w) == w.on /\ w.link = "down" /\ w.config.ssid # NoText
Connected(w) == IF CanConnect(w) THEN [w EXCEPT !.link = "trying", !.ap = w.config] ELSE w

\* esp_wifi_set_config is refused while the station is connecting.
Configured(w, c) == IF w.link = "trying" THEN w ELSE [w EXCEPT !.config = c]

\* wifi_connect gives up if the configuration is refused.
WifiConnect(w, c) == IF w.link = "trying" THEN w ELSE Connected(Configured(w, c))

\* esp_wifi_disconnect ends the attempt or the link; the event follows.
Left(w) == [w EXCEPT !.link = "down", !.ip = FALSE]
LeavingEvents(w) ==
    IF w.link = "down" THEN <<>> ELSE <<Event("DISCONNECTED", w.ap)>>

----------------------------------------------------------------------------
(* What the driver does by itself *)

Post(e) == events' = Append(events, e)
Room == Len(events) < EventLimit

Opens(c) == c.ssid \in serving /\ c.password = c.ssid

Associate ==
    /\ wifi.link = "trying" /\ Opens(wifi.ap) /\ Room
    /\ wifi' = [wifi EXCEPT !.link = "up"]
    /\ Post(Event("CONNECTED", wifi.ap))
    /\ UNCHANGED <<serving, dhcp>>

\* An attempt fails, or the access point of the link is gone.
LoseLink ==
    /\ wifi.link # "down" /\ ~Opens(wifi.ap) /\ Room
    /\ wifi' = Left(wifi)
    /\ Post(Event("DISCONNECTED", wifi.ap))
    /\ UNCHANGED <<serving, dhcp>>

GetAddress ==
    /\ wifi.link = "up" /\ ~wifi.ip /\ dhcp /\ Room
    /\ wifi' = [wifi EXCEPT !.ip = TRUE]
    /\ Post(Event("GOT_IP", wifi.ap))
    /\ UNCHANGED <<serving, dhcp>>

LoseAddress ==
    /\ wifi.ip /\ ~dhcp /\ Room
    /\ wifi' = [wifi EXCEPT !.ip = FALSE]
    /\ Post(Event("LOST_IP", wifi.ap))
    /\ UNCHANGED <<serving, dhcp>>

ServiceChanges ==
    /\ \/ \E n \in Networks : serving' \in {serving \union {n}, serving \ {n}} \ {serving}
          /\ UNCHANGED dhcp
       \/ dhcp' = ~dhcp /\ UNCHANGED serving
    /\ UNCHANGED <<wifi, events>>

DriverStep == Associate \/ LoseLink \/ GetAddress \/ LoseAddress
=============================================================================
