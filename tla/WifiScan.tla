------------------------------ MODULE WifiScan ------------------------------
(***************************************************************************)
(* components/settings/src/wifi_ctrl.c: the scanner task and the requests  *)
(* that start and stop it, between the event loop and the radio.  Both     *)
(* take the manager's mutex; one task notification wakes the scanner.      *)
(***************************************************************************)
EXTENDS Naturals, Sequences

CONSTANTS
    QueueSize,      \* bound: events the default event loop holds
    MaxInputs       \* bound: things the user and the network do

ASSUME ScanAssumption == QueueSize \in Nat \ {0} /\ MaxInputs \in Nat

VARIABLES
    station,        \* s_mgr: interface_started, connected
    scan,           \* s_mgr: scan_requested, scanning; its notification; a recent scan
    scanner,        \* where scanner_task is
    loop,           \* what the event loop's handler still has to do
    events,         \* the default event loop's queue
    radio,          \* the driver: scanning, link, and events it has to post
    inputs,         \* how many of MaxInputs have been used
    disturbed       \* history: a race has hit a "request" or a "scan"

scanVars == <<station, scan, scanner, loop, events, radio, inputs, disturbed>>

\* The controller has been initialised; the station has started, and perhaps been
\* connected, or starts now.
ScanInit ==
    /\ station \in [started : BOOLEAN, connected : BOOLEAN]
    /\ station.connected => station.started
    /\ scan = [requested |-> FALSE, scanning |-> FALSE, notified |-> FALSE, hot |-> FALSE]
    /\ scanner = "wait" /\ loop = "idle"
    /\ events = IF station.started THEN <<>> ELSE <<"START">>
    /\ radio = [scan |-> FALSE, link |-> IF station.connected THEN "up" ELSE "down",
                due |-> <<>>]
    /\ disturbed = {}

\* Another bound: nothing more is asked for once a request has been hit.
Input == inputs < MaxInputs /\ inputs' = inputs + 1 /\ "request" \notin disturbed

\* esp_event_post with no time to wait drops the event if the queue is full.
Posted(q, e) == IF Len(q) < QueueSize THEN Append(q, e) ELSE q
Lost(q) == {d \in {"request"} : Len(q) >= QueueSize}

----------------------------------------------------------------------------
(* The radio (external); it waits for room in the queue *)

\* esp_wifi_scan_stop ends a scan like its completion: with SCAN_DONE.
ScanEnded(r) ==
    IF r.scan THEN [r EXCEPT !.scan = FALSE, !.due = Append(@, "DONE")] ELSE r

\* esp_wifi_scan_start is refused while the station is connecting, and replaces
\* a scan under way.
CanScan(r) == r.link # "trying"
ScanStarted(r) == [ScanEnded(r) EXCEPT !.scan = TRUE]

\* A scan that blocks its caller reports nothing, but ends the one under way.
BlockingScan(r) == IF CanScan(r) THEN ScanEnded(r) ELSE r

Parted(r) ==
    IF r.link = "down" THEN r
    ELSE [r EXCEPT !.link = "down", !.due = Append(@, "DISCONNECTED")]

Trying(r) == IF r.link = "down" THEN [r EXCEPT !.link = "trying"] ELSE r

RadioPosts ==
    /\ radio.due # <<>> /\ Len(events) < QueueSize
    /\ events' = Append(events, Head(radio.due))
    /\ radio' = [radio EXCEPT !.due = Tail(@)]
    /\ UNCHANGED <<station, scan, scanner, loop, inputs, disturbed>>

\* The driver's task is not at work while it waits for room.
ScanCompletes ==
    /\ radio.scan /\ radio.due = <<>>
    /\ radio' = ScanEnded(radio)
    /\ UNCHANGED <<station, scan, scanner, loop, events, inputs, disturbed>>

AttemptEnds ==
    /\ radio.link = "trying"
    /\ radio' \in {[radio EXCEPT !.link = "up", !.due = Append(@, "CONNECTED")], Parted(radio)}
    /\ UNCHANGED <<station, scan, scanner, loop, events, inputs, disturbed>>

\* The access point leaves, or the reconnect timer tries the network again.
LinkChanges ==
    /\ Input
    /\ \/ radio.link = "up" /\ radio' = Parted(radio)
       \/ radio.link = "down" /\ station.started /\ radio' = Trying(radio)
    /\ UNCHANGED <<station, scan, scanner, loop, events, disturbed>>

----------------------------------------------------------------------------
(* scanner_task *)

\* on_ui_request holds the mutex while set_scanning(false) waits in it.
MutexFree == loop \notin {"stop", "stop_connect"}

ScannerFrame == UNCHANGED <<station, loop, events, inputs>>

ScannerWakes ==
    /\ scanner = "wait" /\ scan.notified
    /\ scan' = [scan EXCEPT !.notified = FALSE]
    /\ scanner' = "check"
    /\ UNCHANGED <<radio, disturbed>> /\ ScannerFrame

\* Soon after the last scan the cool-down may not be over.
ScannerChecks ==
    /\ scanner = "check" /\ MutexFree
    /\ LET wanted == station.started /\ scan.requested
       IN  /\ \/ wanted /\ scanner' = "start"
              \/ wanted /\ scan.hot /\ scanner' = "cooldown"
              \/ ~wanted /\ scanner' = "wait"
           /\ scan' = [scan EXCEPT !.scanning = @ \/ scanner' = "start"]
    /\ UNCHANGED <<radio, disturbed>> /\ ScannerFrame

\* The task notifies itself if the scan is still wanted.
CooldownEnds ==
    /\ scanner = "cooldown" /\ MutexFree
    /\ scan' = [scan EXCEPT !.hot = FALSE,
                            !.notified = @ \/ (station.started /\ scan.requested)]
    /\ scanner' = "wait"
    /\ UNCHANGED <<radio, disturbed>> /\ ScannerFrame

\* esp_wifi_scan_start, outside the mutex.
ScannerStarts ==
    /\ scanner = "start"
    /\ IF CanScan(radio)
       THEN radio' = ScanStarted(radio) /\ scanner' = "scanning"
       ELSE radio' = radio /\ scanner' = "failed"
    /\ disturbed' = disturbed \union {d \in {"scan"} : ~scan.requested}
    /\ UNCHANGED scan /\ ScannerFrame

\* Five seconds, longer than a scan and the cool-down, or a notification, which
\* never means that the scan is done; one second after a failure.
ScannerWaitEnds ==
    /\ \/ /\ scanner = "scanning" /\ (scan.notified \/ ~radio.scan)
          /\ scan' = [scan EXCEPT !.notified = FALSE, !.hot = scan.notified]
       \/ scanner = "failed" /\ UNCHANGED scan
    /\ scanner' = "finish"
    /\ disturbed' = disturbed \union {d \in {"scan"} : radio.scan}
    /\ UNCHANGED radio /\ ScannerFrame

\* Mutant: a request that came during the scan is not served.
ScannerFinishesForGood ==
    /\ scanner = "finish" /\ MutexFree
    /\ scan' = [scan EXCEPT !.scanning = FALSE]
    /\ scanner' = "wait"
    /\ UNCHANGED <<radio, disturbed>> /\ ScannerFrame

ScannerFinishes ==
    /\ scanner = "finish" /\ MutexFree
    /\ scan' = [scan EXCEPT !.scanning = FALSE, !.notified = @ \/ scan.requested]
    /\ scanner' = "wait"
    /\ UNCHANGED <<radio, disturbed>> /\ ScannerFrame

ScannerStep ==
    \/ ScannerWakes \/ ScannerChecks \/ CooldownEnds \/ ScannerStarts
    \/ ScannerWaitEnds \/ ScannerFinishes

----------------------------------------------------------------------------
(* The event loop's handlers in wifi_ctrl.c *)

Take(e) == loop = "idle" /\ events # <<>> /\ Head(events) = e
LoopFrame == UNCHANGED <<scanner, inputs>>

\* set_scanning(true): a scanner that is scanning notices the request later, and
\* nobody tells it when the station has started.
ScanRequested(s) ==
    IF ~station.started THEN [s EXCEPT !.requested = TRUE]
    ELSE [s EXCEPT !.requested = TRUE, !.notified = @ \/ ~s.scanning]

\* set_scanning(false); a scan the task is in is stopped.
ScanCancelled(s) == [s EXCEPT !.requested = FALSE]

\* Mutant: the scan under way is left to finish.
UnstoppedScan(s, r) == r

StoppedScan(s, r) == IF s.scanning THEN ScanEnded(r) ELSE r

StationStarts ==
    /\ Take("START")
    /\ station' = [station EXCEPT !.started = TRUE]
    /\ disturbed' = disturbed \union {d \in {"request"} : scan.requested}
    /\ events' = Tail(events)
    /\ UNCHANGED <<scan, loop, radio>> /\ LoopFrame

EnableScan ==
    /\ Take("ENABLE")
    /\ scan' = ScanRequested(scan)
    /\ events' = Tail(events)
    /\ UNCHANGED <<station, loop, radio, disturbed>> /\ LoopFrame

DisableScan ==
    /\ Take("DISABLE")
    /\ scan' = ScanCancelled(scan)
    /\ radio' = StoppedScan(scan, radio)
    /\ loop' = IF scan.scanning THEN "stop" ELSE "idle"
    /\ events' = Tail(events)
    /\ UNCHANGED <<station, disturbed>> /\ LoopFrame

\* A second passes: the scanner cannot clear the flag without the mutex.
StopWaits ==
    /\ loop = "stop"
    /\ loop' = "idle"
    /\ UNCHANGED <<station, scan, events, radio, disturbed>> /\ LoopFrame

\* CONNECT_REQ with the manager's network selected: stop the scanner, wait with
\* the mutex, and stop it again without.
ConnectRequested ==
    /\ Take("CONNECT")
    /\ IF station.started /\ ~station.connected
       THEN /\ scan' = ScanCancelled(scan)
            /\ radio' = StoppedScan(scan, radio)
            /\ loop' = IF scan.scanning THEN "stop_connect" ELSE "connect"
       ELSE UNCHANGED <<scan, radio, loop>>
    /\ disturbed' = disturbed \union {d \in {"request"} : scan.requested}
    /\ events' = Tail(events)
    /\ UNCHANGED station /\ LoopFrame

StopsAgain ==
    /\ loop = "stop_connect"
    /\ radio' = StoppedScan(scan, radio)
    /\ loop' = "connect"
    /\ UNCHANGED <<station, scan, events, disturbed>> /\ LoopFrame

\* RECIEVED_WIFI_CRED: leave the network, then connect_to_network.
CredentialsReceived ==
    /\ Take("CREDENTIALS")
    /\ scan' = ScanCancelled(scan)
    /\ radio' = StoppedScan(scan, IF station.connected THEN Parted(radio) ELSE radio)
    /\ loop' = "connect"
    /\ disturbed' = disturbed \union {d \in {"request"} : scan.requested}
    /\ events' = Tail(events)
    /\ UNCHANGED station /\ LoopFrame

\* After at most a second, sooner if the scanner gets to the end.
Connects ==
    /\ loop = "connect"
    /\ radio' = IF station.started THEN Trying(radio) ELSE radio
    /\ loop' = "idle"
    /\ UNCHANGED <<station, scan, events, disturbed>> /\ LoopFrame

DisconnectRequested ==
    /\ Take("DISCONNECT")
    /\ radio' = IF station.connected THEN Parted(radio) ELSE radio
    /\ disturbed' = disturbed \union {d \in {"request"} : ~station.connected}
    /\ events' = Tail(events)
    /\ UNCHANGED <<station, scan, loop>> /\ LoopFrame

ControlStep ==
    \/ StationStarts \/ EnableScan \/ DisableScan \/ StopWaits \/ ConnectRequested
    \/ StopsAgain \/ CredentialsReceived \/ Connects \/ DisconnectRequested

RadioStep == RadioPosts \/ ScanCompletes \/ AttemptEnds

ScanTypeOK ==
    /\ station \in [started : BOOLEAN, connected : BOOLEAN]
    /\ scan \in [requested : BOOLEAN, scanning : BOOLEAN, notified : BOOLEAN, hot : BOOLEAN]
    /\ scanner \in {"wait", "check", "cooldown", "start", "scanning",
                    "failed", "finish"}
    /\ loop \in {"idle", "stop", "stop_connect", "connect"}
    /\ Len(events) <= QueueSize
    /\ radio.scan \in BOOLEAN /\ radio.link \in {"down", "trying", "up"}
    /\ \A i \in DOMAIN radio.due : radio.due[i] \in {"DONE", "CONNECTED", "DISCONNECTED"}
    /\ inputs \in 0..MaxInputs
=============================================================================
