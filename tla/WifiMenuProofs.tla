--------------------------- MODULE WifiMenuProofs ---------------------------
(***************************************************************************)
(* Proofs about the scanner, the event loop and the Wi-Fi section, for     *)
(* every length of the event queue and any number of inputs.               *)
(***************************************************************************)
EXTENDS WifiMenu, SequenceTheorems, FiniteSetTheorems, TLAPS

----------------------------------------------------------------------------
(* The scan makes way.  The flag of the manager follows the scanner; the   *)
(* radio scans only in the scanner's wait, and from the moment a request   *)
(* to connect has stopped the scan neither can start another.              *)

Reports == {"DONE", "CONNECTED", "DISCONNECTED"}

Radios == [scan : BOOLEAN, link : {"down", "trying", "up"}, due : Seq(Reports)]

ScanTypes ==
    /\ station \in [started : BOOLEAN, connected : BOOLEAN]
    /\ scan \in [requested : BOOLEAN, scanning : BOOLEAN, notified : BOOLEAN, hot : BOOLEAN]
    /\ scanner \in {"wait", "check", "cooldown", "start", "scanning", "failed", "finish"}
    /\ loop \in {"idle", "stop", "stop_connect", "connect"}
    /\ radio \in Radios

\* What holds until a race hits a scan.
MakesWay ==
    /\ scan.scanning <=> scanner \in {"start", "scanning", "failed", "finish"}
    /\ radio.scan => scanner = "scanning"
    /\ loop \in {"stop_connect", "connect"} => ~scan.requested
    /\ loop = "connect" => ~radio.scan

ScanInv == ScanTypes /\ ("scan" \notin disturbed => MakesWay)

\* Each call of the driver leaves a radio; only a start lets it scan.
LEMMA DriverCalls ==
    ASSUME NEW r \in Radios
    PROVE  /\ ScanEnded(r) \in Radios /\ ~ScanEnded(r).scan
           /\ ScanStarted(r) \in Radios
           /\ BlockingScan(r) \in Radios /\ (BlockingScan(r).scan => r.scan)
           /\ Parted(r) \in Radios /\ Parted(r).scan = r.scan
           /\ Trying(r) \in Radios /\ Trying(r).scan = r.scan
<1>1. \A report \in Reports : Append(r.due, report) \in Seq(Reports)
    BY AppendProperties DEF Radios
<1>2. ScanEnded(r) \in Radios /\ ~ScanEnded(r).scan
    <2>1. [r EXCEPT !.scan = FALSE, !.due = Append(@, "DONE")] \in Radios
        BY <1>1 DEF Radios, Reports
    <2> QED BY <2>1 DEF ScanEnded, Radios
<1>3. ScanStarted(r) \in Radios
    BY <1>2 DEF ScanStarted, Radios
<1>4. BlockingScan(r) \in Radios /\ (BlockingScan(r).scan => r.scan)
    BY <1>2 DEF BlockingScan
<1>5. Parted(r) \in Radios /\ Parted(r).scan = r.scan
    <2>1. [r EXCEPT !.link = "down", !.due = Append(@, "DISCONNECTED")] \in Radios
        BY <1>1 DEF Radios, Reports
    <2> QED BY <2>1 DEF Parted, Radios
<1>6. Trying(r) \in Radios /\ Trying(r).scan = r.scan
    BY DEF Trying, Radios
<1> QED BY <1>2, <1>3, <1>4, <1>5, <1>6

\* What does not go into the manager or the scanner, and lets the radio scan less.
LEMMA OutsideScan ==
    ASSUME ScanInv, UNCHANGED <<station, scan, scanner, loop>>, radio' \in Radios,
           radio'.scan => radio.scan, disturbed \subseteq disturbed'
    PROVE  ScanInv'
BY DEF ScanInv, ScanTypes, MakesWay

LEMMA ScanStarts == Init => ScanInv
<1> SUFFICES ASSUME ScanInit PROVE ScanInv
    BY DEF Init
<1>1. radio \in Radios /\ ~radio.scan
    BY EmptySeq DEF ScanInit, Radios, Reports
<1> QED BY <1>1 DEF ScanInit, ScanInv, ScanTypes, MakesWay

LEMMA ScannerKeeps == ScanInv /\ ScannerStep => ScanInv'
<1> SUFFICES ASSUME ScanInv, ScannerStep PROVE ScanInv'
    OBVIOUS
<1> USE DEF ScanInv, ScanTypes, MakesWay, ScannerFrame
<1>1. CASE ScannerWakes
    BY <1>1 DEF ScannerWakes
<1>2. CASE ScannerChecks
    BY <1>2 DEF ScannerChecks, MutexFree
<1>3. CASE CooldownEnds
    BY <1>3 DEF CooldownEnds, MutexFree
<1>4. CASE ScannerStarts
    <2>1. radio' \in Radios /\ (radio'.scan => radio.scan \/ scanner' = "scanning")
        BY <1>4, DriverCalls DEF ScannerStarts
    <2> QED BY <1>4, <2>1 DEF ScannerStarts
<1>5. CASE ScannerWaitEnds
    BY <1>5 DEF ScannerWaitEnds
<1>6. CASE ScannerFinishes
    BY <1>6 DEF ScannerFinishes, MutexFree
<1> QED BY <1>1, <1>2, <1>3, <1>4, <1>5, <1>6 DEF ScannerStep

LEMMA ControlKeeps == ScanInv /\ ControlStep => ScanInv'
<1> SUFFICES ASSUME ScanInv, ControlStep PROVE ScanInv'
    OBVIOUS
<1>0. radio \in Radios
    BY DEF ScanInv, ScanTypes
<1>a. /\ StoppedScan(scan, radio) \in Radios
      /\ StoppedScan(scan, radio).scan => radio.scan /\ ~scan.scanning
    BY <1>0, DriverCalls DEF StoppedScan
<1>b. UNCHANGED scanner
    BY DEF ControlStep, StationStarts, EnableScan, DisableScan, StopWaits, ConnectRequested,
           StopsAgain, CredentialsReceived, Connects, DisconnectRequested, LoopFrame
<1> USE <1>0, <1>b DEF ScanInv, ScanTypes, MakesWay, Take
<1>1. CASE StationStarts
    BY <1>1 DEF StationStarts
<1>2. CASE EnableScan
    BY <1>2 DEF EnableScan, ScanRequested
<1>3. CASE DisableScan
    BY <1>3, <1>a DEF DisableScan, ScanCancelled
<1>4. CASE StopWaits
    BY <1>4 DEF StopWaits
<1>5. CASE ConnectRequested
    BY <1>5, <1>a DEF ConnectRequested, ScanCancelled
<1>6. CASE StopsAgain
    BY <1>6, <1>a DEF StopsAgain
<1>7. CASE CredentialsReceived
    <2> DEFINE left == IF station.connected THEN Parted(radio) ELSE radio
    <2>1. left \in Radios /\ left.scan = radio.scan
        BY DriverCalls
    <2>2. /\ StoppedScan(scan, left) \in Radios
          /\ StoppedScan(scan, left).scan => radio.scan /\ ~scan.scanning
        BY <2>1, DriverCalls DEF StoppedScan
    <2>3. radio' = StoppedScan(scan, left) /\ scan' = ScanCancelled(scan) /\ loop' = "connect"
          /\ UNCHANGED station /\ disturbed \subseteq disturbed'
        BY <1>7 DEF CredentialsReceived
    <2> QED BY <2>2, <2>3 DEF ScanCancelled
<1>8. CASE Connects
    <2>1. radio' \in Radios /\ radio'.scan = radio.scan
        BY <1>8, DriverCalls DEF Connects
    <2> QED BY <1>8, <2>1 DEF Connects
<1>9. CASE DisconnectRequested
    <2>1. radio' \in Radios /\ radio'.scan = radio.scan
        BY <1>9, DriverCalls DEF DisconnectRequested
    <2> QED BY <1>9, <2>1 DEF DisconnectRequested
<1> QED BY <1>1, <1>2, <1>3, <1>4, <1>5, <1>6, <1>7, <1>8, <1>9 DEF ControlStep

LEMMA RadioKeeps == ScanInv /\ (RadioStep \/ LinkChanges) => ScanInv'
<1> SUFFICES ASSUME ScanInv, RadioStep \/ LinkChanges PROVE ScanInv'
    OBVIOUS
<1>0. radio \in Radios
    BY DEF ScanInv, ScanTypes
<1>a. UNCHANGED <<station, scan, scanner, loop, disturbed>>
    BY DEF RadioStep, RadioPosts, ScanCompletes, AttemptEnds, LinkChanges
<1>1. CASE RadioPosts
    <2>1. Tail(radio.due) \in Seq(Reports)
        BY <1>0, <1>1, HeadTailProperties DEF RadioPosts, Radios
    <2>2. radio' \in Radios /\ radio'.scan = radio.scan
        BY <1>0, <1>1, <2>1 DEF RadioPosts, Radios
    <2> QED BY <1>a, <2>2, OutsideScan
<1>2. CASE ScanCompletes
    BY <1>0, <1>a, <1>2, DriverCalls, OutsideScan DEF ScanCompletes
<1>3. CASE AttemptEnds
    <2>1. Append(radio.due, "CONNECTED") \in Seq(Reports)
        BY <1>0, AppendProperties DEF Radios, Reports
    <2>2. [radio EXCEPT !.link = "up", !.due = Append(@, "CONNECTED")] \in Radios
        BY <1>0, <2>1 DEF Radios
    <2>3. [radio EXCEPT !.link = "up", !.due = Append(@, "CONNECTED")].scan = radio.scan
        BY <1>0 DEF Radios
    <2>4. Parted(radio) \in Radios /\ Parted(radio).scan = radio.scan
        BY <1>0, DriverCalls
    <2>5. radio' \in Radios /\ radio'.scan = radio.scan
        BY <1>3, <2>2, <2>3, <2>4, Zenon DEF AttemptEnds
    <2> QED BY <1>a, <2>5, OutsideScan
<1>4. CASE LinkChanges
    <2>1. radio' \in Radios /\ radio'.scan = radio.scan
        BY <1>0, <1>4, DriverCalls DEF LinkChanges
    <2> QED BY <1>a, <2>1, OutsideScan
<1> QED BY <1>1, <1>2, <1>3, <1>4 DEF RadioStep

\* The menu reaches the scan through events and the portal's blocking scan.
LEMMA MenuKeeps == ScanInv /\ (ScanDone \/ LinkReported \/ UiStep \/ UserStep) => ScanInv'
<1> SUFFICES ASSUME ScanInv, ScanDone \/ LinkReported \/ UiStep \/ UserStep PROVE ScanInv'
    OBVIOUS
<1>0. radio \in Radios
    BY DEF ScanInv, ScanTypes
<1>1. CASE LinkReported
    BY <1>1 DEF LinkReported, LoopFrame, ScanInv, ScanTypes, MakesWay
<1>2. CASE DisplayScanData \/ OnDisconnected
    <2>1. radio' = radio \/ radio' = BlockingScan(radio)
        BY <1>2 DEF DisplayScanData, OnDisconnected, StartPortal
    <2>2. UNCHANGED <<station, scan, scanner, loop>> /\ disturbed \subseteq disturbed'
        BY <1>2 DEF DisplayScanData, OnDisconnected, Post
    <2> QED BY <1>0, <2>1, <2>2, DriverCalls, OutsideScan
<1>3. CASE ScanDone \/ OnConnected \/ Rescan \/ AskToDisconnect \/ UserStep
    <2>1. UNCHANGED <<station, scan, scanner, loop, radio>> /\ disturbed \subseteq disturbed'
        BY <1>3 DEF ScanDone, OnConnected, Rescan, AskToDisconnect, UserStep, OpenSettings,
            ShowWifi, HideWifi, PressDisconnect, AskToConnect, PortalSaves, Post, LoopFrame,
            RadioFrame, UserFrame
    <2> QED BY <1>0, <2>1, OutsideScan
<1> QED BY <1>1, <1>2, <1>3 DEF UiStep

LEMMA ScanNext == ScanInv /\ [Next]_vars => ScanInv'
<1> SUFFICES ASSUME ScanInv, [Next]_vars PROVE ScanInv'
    OBVIOUS
<1>1. CASE UNCHANGED vars
    BY <1>1 DEF vars, scanVars, ScanInv, ScanTypes, MakesWay
<1> QED BY <1>1, ScannerKeeps, ControlKeeps, RadioKeeps, MenuKeeps DEF Next, LoopStep, Others

\* The flag of the manager, the radio and the requests agree with the scanner's place
\* until a race hits a scan (set_scanning, scanner_task).
THEOREM ScanInvHolds == Spec => []ScanInv
BY ScanStarts, ScanNext, PTL DEF Spec

\* When the station is told to connect the radio is not scanning, whatever the user,
\* the network and the scanner have done in between, but for the two races the
\* property names (set_scanning, scanner_task, on_ui_request).
THEOREM ScanMakesWayHolds == Spec => []ScanMakesWay
<1>1. ScanInv => ScanMakesWay
    BY DEF ScanInv, MakesWay, ScanMakesWay
<1> QED BY <1>1, ScanInvHolds, PTL

----------------------------------------------------------------------------
(* The types.  An event is dropped when there is no room; every set of     *)
(* handlers of an open or active menu is counted.                          *)

EventNames ==
    Reports \cup {"START", "ENABLE", "DISABLE", "CONNECT", "DISCONNECT", "CREDENTIALS"}

Calls == {"display", "CONNECTED", "DISCONNECTED"}

QueueOK(q) == q \in Seq(EventNames) /\ Len(q) <= QueueSize

Menus ==
    [open : BOOLEAN, active : BOOLEAN, registered : BOOLEAN,
     in_progress : BOOLEAN, cached : BOOLEAN, label : BOOLEAN, button : BOOLEAN]

MenuInv ==
    /\ menu \in Menus
    /\ menu.active => menu.open /\ menu.registered
    /\ menu.registered => handlers > 0
    /\ handlers \in 0..(MaxHandlers + 1)
    /\ ui \in {"idle", "rescan", "leave"} /\ portal \in BOOLEAN

InputsInv == inputs \in 0..MaxInputs /\ disturbed \subseteq {"request", "scan"}

QueuesInv == QueueOK(events) /\ async \in Seq(Calls)

LEMMA PostedOK ==
    ASSUME NEW q, QueueOK(q), NEW e \in EventNames
    PROVE  QueueOK(Posted(q, e))
<1>1. Append(q, e) \in Seq(EventNames) /\ Len(Append(q, e)) = Len(q) + 1 /\ Len(q) \in Nat
    BY AppendProperties, LenProperties DEF QueueOK
<1> QED BY <1>1, ScanAssumption DEF QueueOK, Posted

LEMMA TailOK ==
    ASSUME NEW q, QueueOK(q), q # <<>>
    PROVE  QueueOK(Tail(q))
<1>1. Tail(q) \in Seq(EventNames) /\ Len(Tail(q)) = Len(q) - 1 /\ Len(q) \in Nat
    BY HeadTailProperties, LenProperties DEF QueueOK
<1> QED BY <1>1, ScanAssumption DEF QueueOK

LEMMA EventsKeep == ScanInv /\ QueueOK(events) /\ [Next]_vars => QueueOK(events)'
<1> SUFFICES ASSUME ScanInv, QueueOK(events), [Next]_vars PROVE QueueOK(events')
    BY DEF QueueOK
<1>0. {"DISABLE", "ENABLE", "DISCONNECT", "CONNECT", "CREDENTIALS"} \subseteq EventNames
    BY DEF EventNames
<1>1. CASE events' = events
    BY <1>1
<1>2. CASE events # <<>> /\ events' = Tail(events)
    BY <1>2, TailOK
<1>3. CASE \E e \in EventNames : events' = Posted(events, e)
    BY <1>3, PostedOK
<1>4. CASE \E e \in EventNames : events # <<>> /\ events' = Posted(Tail(events), e)
    BY <1>4, PostedOK, TailOK
<1>5. CASE \E d, e \in EventNames : events' = Posted(Posted(events, d), e)
    BY <1>5, PostedOK
<1>6. CASE RadioPosts
    <2>1. /\ radio.due # <<>> /\ radio.due \in Seq(Reports)
          /\ events' = Append(events, Head(radio.due)) /\ Len(events) < QueueSize
        BY <1>6 DEF RadioPosts, ScanInv, ScanTypes, Radios
    <2>2. Head(radio.due) \in EventNames
        BY <2>1, HeadTailProperties DEF EventNames
    <2>3. Posted(events, Head(radio.due)) = events'
        BY <2>1 DEF Posted
    <2> QED BY <2>2, <2>3, PostedOK
<1>7. CASE ControlStep \/ ScanDone \/ LinkReported
    <2>1. \/ events # <<>> /\ events' = Tail(events)
          \/ events # <<>> /\ events' = Posted(Tail(events), "DISABLE")
          \/ events' = events
        BY <1>7 DEF ControlStep, StationStarts, EnableScan, DisableScan, StopWaits,
            ConnectRequested, StopsAgain, CredentialsReceived, Connects, DisconnectRequested,
            ScanDone, LinkReported, Take
    <2> QED BY <1>0, <1>1, <1>2, <1>4, <2>1
<1>8. CASE ScannerStep \/ ScanCompletes \/ AttemptEnds \/ LinkChanges
    BY <1>1, <1>8 DEF ScannerStep, ScannerWakes, ScannerChecks, CooldownEnds, ScannerStarts,
        ScannerWaitEnds, ScannerFinishes, ScannerFrame, ScanCompletes, AttemptEnds, LinkChanges
<1>9. CASE UiStep \/ UserStep
    <2>1. \/ events' = events
          \/ \E e \in {"DISABLE", "ENABLE", "DISCONNECT", "CONNECT", "CREDENTIALS"} :
                events' = Posted(events, e)
          \/ events' = Posted(Posted(events, "DISABLE"), "ENABLE")
        BY <1>9 DEF UiStep, UserStep, DisplayScanData, OnConnected, OnDisconnected, Rescan,
            AskToDisconnect, OpenSettings, ShowWifi, HideWifi, PressDisconnect, AskToConnect,
            PortalSaves, Post
    <2> QED BY <1>0, <1>1, <1>3, <1>5, <2>1
<1>10. CASE UNCHANGED vars
    BY <1>1, <1>10 DEF vars, scanVars
<1> QED BY <1>6, <1>7, <1>8, <1>9, <1>10 DEF Next, LoopStep, Others, RadioStep

LEMMA AsyncKeeps ==
    MenuInv /\ async \in Seq(Calls) /\ [Next]_vars => (async \in Seq(Calls))'
<1> SUFFICES ASSUME MenuInv, async \in Seq(Calls), [Next]_vars PROVE async' \in Seq(Calls)
    OBVIOUS
<1>1. CASE async' = async
    BY <1>1
<1>2. CASE async # <<>> /\ async' = Tail(async)
    BY <1>2, HeadTailProperties
<1>3. CASE async' = <<"display">> \o async
    <2>1. <<"display">> \in Seq(Calls)
        BY DEF Calls
    <2> QED BY <1>3, <2>1, ConcatProperties
<1>4. CASE LinkReported
    <2> DEFINE call == Head(events)
    <2>1. call \in Calls /\ (async' = Called(call) \/ async' = async)
        BY <1>4 DEF LinkReported, Take, Calls
    <2>2. handlers \in Nat
        BY HandlersAssumption DEF MenuInv
    <2> HIDE DEF call
    <2>3. [i \in 1..handlers |-> call] \in Seq(Calls)
        BY <2>1, <2>2, IsASeq
    <2> QED BY <2>1, <2>3, ConcatProperties DEF Called
<1>5. CASE HideWifi
    <2> DEFINE left == {c \in DOMAIN async : async[c] = "CONNECTED"}
    <2>1. async' = [i \in 1..Cardinality(left) |-> "CONNECTED"] \/ async' = async
        BY <1>5 DEF HideWifi
    <2>2. Cardinality(left) \in Nat
        <3>1. left \subseteq 1..Len(async) /\ Len(async) \in Nat
            BY LenProperties
        <3>2. IsFiniteSet(1..Len(async))
            BY <3>1, FS_Interval
        <3> HIDE DEF left
        <3> QED BY <3>1, <3>2, FS_Subset, FS_CardinalityType
    <2>3. "CONNECTED" \in Calls
        BY DEF Calls
    <2> HIDE DEF left
    <2>4. [i \in 1..Cardinality(left) |-> "CONNECTED"] \in Seq(Calls)
        BY <2>2, <2>3, IsASeq
    <2> QED BY <2>1, <2>4
<1>6. CASE ScanDone \/ UiStep \/ OpenSettings \/ ShowWifi \/ PressDisconnect \/ AskToConnect
           \/ PortalSaves
    <2>1. \/ async' = async
          \/ async # <<>> /\ async' = Tail(async)
          \/ async' = <<"display">> \o async
        BY <1>6 DEF ScanDone, UiStep, DisplayScanData, OnConnected, OnDisconnected, Runs,
            Rescan, AskToDisconnect, OpenSettings, ShowWifi, PressDisconnect, AskToConnect,
            PortalSaves
    <2> QED BY <1>1, <1>2, <1>3, <2>1
<1>7. CASE UNCHANGED menuVars
    BY <1>1, <1>7 DEF menuVars
<1> QED BY <1>4, <1>5, <1>6, <1>7 DEF Next, LoopStep, UserStep, Others, vars

LEMMA InputsKeep == InputsInv /\ [Next]_vars => InputsInv'
<1> SUFFICES ASSUME InputsInv, [Next]_vars PROVE InputsInv'
    OBVIOUS
<1>1. CASE Input /\ disturbed' \subseteq disturbed \cup {"request"}
    BY <1>1, ScanAssumption DEF Input, InputsInv
<1>2. CASE UNCHANGED inputs /\ disturbed' \subseteq disturbed \cup {"request", "scan"}
    BY <1>2 DEF InputsInv
<1>3. CASE UserStep
    <2>1. Input
        BY <1>3 DEF UserStep, OpenSettings, ShowWifi, HideWifi, PressDisconnect, AskToConnect,
            PortalSaves, User
    <2>2. disturbed' \subseteq disturbed \cup {"request"}
        BY <1>3 DEF UserStep, OpenSettings, ShowWifi, HideWifi, PressDisconnect, AskToConnect,
            PortalSaves, Post, Lost
    <2> QED BY <1>1, <2>1, <2>2
<1>4. CASE LinkChanges
    BY <1>1, <1>4 DEF LinkChanges
<1>5. CASE ControlStep \/ ScanDone \/ LinkReported
    BY <1>2, <1>5 DEF ControlStep, StationStarts, EnableScan, DisableScan, StopWaits,
        ConnectRequested, StopsAgain, CredentialsReceived, Connects, DisconnectRequested,
        ScanDone, LinkReported, LoopFrame
<1>6. CASE ScannerStep \/ RadioStep
    BY <1>2, <1>6 DEF ScannerStep, RadioStep, ScannerWakes, ScannerChecks, CooldownEnds,
        ScannerStarts, ScannerWaitEnds, ScannerFinishes, ScannerFrame, RadioPosts,
        ScanCompletes, AttemptEnds
<1>7. CASE UiStep
    BY <1>2, <1>7 DEF UiStep, DisplayScanData, OnConnected, OnDisconnected, Rescan,
        AskToDisconnect, Post, Lost, RadioFrame
<1>8. CASE UNCHANGED vars
    BY <1>2, <1>8 DEF vars, scanVars
<1> QED BY <1>3, <1>4, <1>5, <1>6, <1>7, <1>8 DEF Next, LoopStep, Others

LEMMA MenuNext == ScanInv /\ MenuInv /\ [Next]_vars => MenuInv'
<1> SUFFICES ASSUME ScanInv, MenuInv, [Next]_vars PROVE MenuInv'
    OBVIOUS
<1>0. MaxHandlers \in Nat /\ station.connected \in BOOLEAN
    BY ScanAssumption, HandlersAssumption DEF ScanInv, ScanTypes
<1> USE <1>0 DEF MenuInv, Menus
<1>1. CASE UNCHANGED menuVars
    BY <1>1 DEF menuVars
<1>2. CASE ScanDone
    BY <1>2 DEF ScanDone
<1>3. CASE LinkReported
    BY <1>3 DEF LinkReported
<1>4. CASE DisplayScanData
    BY <1>4 DEF DisplayScanData, StartPortal
<1>5. CASE OnConnected
    BY <1>5 DEF OnConnected
<1>6. CASE OnDisconnected
    BY <1>6 DEF OnDisconnected, StartPortal
<1>7. CASE Rescan
    BY <1>7 DEF Rescan
<1>8. CASE OpenSettings
    <2>1. menu' = Opened /\ handlers' = handlers + 1 /\ handlers < MaxHandlers
          /\ UNCHANGED <<ui, portal>>
        BY <1>8 DEF OpenSettings
    <2>2. Opened \in Menus /\ ~Opened.active
        BY DEF Opened, Closed
    <2>3. handlers' > 0 /\ handlers' \in 0..(MaxHandlers + 1)
        BY <2>1
    <2> QED BY <2>1, <2>2, <2>3
<1>9. CASE ShowWifi
    <2> DEFINE progress == menu.in_progress \/ ~menu.cached
    <2> DEFINE label == menu.label \/ ~menu.cached
    <2>1. progress \in BOOLEAN /\ label \in BOOLEAN
        OBVIOUS
    <2>2. menu' = [menu EXCEPT !.active = TRUE, !.registered = TRUE,
                               !.button = station.connected, !.in_progress = progress,
                               !.label = label]
        BY <1>9 DEF ShowWifi
    <2> HIDE DEF progress, label
    <2>3. menu' \in Menus /\ menu'.open = menu.open /\ menu'.registered
        BY <2>1, <2>2
    <2>4. /\ menu.open /\ handlers < MaxHandlers + 1 /\ UNCHANGED <<ui, portal>>
          /\ handlers' = IF menu.registered THEN handlers ELSE handlers + 1
        BY <1>9 DEF ShowWifi
    <2>5. handlers' > 0 /\ handlers' \in 0..(MaxHandlers + 1)
        BY <2>4
    <2> QED BY <2>3, <2>4, <2>5
<1>10. CASE HideWifi
    <2>1. CASE menu.active
        <3>1. PICK close \in BOOLEAN :
                 menu' = [Closed EXCEPT !.open = ~close, !.label = menu.label,
                                        !.button = menu.button]
            BY <1>10, <2>1 DEF HideWifi
        <3>2. menu' \in Menus /\ ~menu'.active /\ ~menu'.registered
            BY <3>1 DEF Closed
        <3>3. handlers' = handlers - 1 /\ portal' = FALSE /\ ui' = ui
            BY <1>10, <2>1 DEF HideWifi
        <3>4. handlers' \in 0..(MaxHandlers + 1)
            BY <2>1, <3>3
        <3>5. ui' \in {"idle", "rescan", "leave"} /\ portal' \in BOOLEAN
            BY <3>3
        <3> QED BY <3>2, <3>4, <3>5, Zenon
    <2>2. CASE ~menu.active
        BY <1>10, <2>2 DEF HideWifi
    <2> QED BY <2>1, <2>2
<1>11. CASE PressDisconnect
    BY <1>11 DEF PressDisconnect
<1>12. CASE AskToDisconnect \/ AskToConnect \/ PortalSaves
    BY <1>12 DEF AskToDisconnect, AskToConnect, PortalSaves
<1> QED BY <1>1, <1>2, <1>3, <1>4, <1>5, <1>6, <1>7, <1>8, <1>9, <1>10, <1>11, <1>12
        DEF Next, LoopStep, UiStep, UserStep, Others, vars

\* Queues, menu, scanner and radio keep their types and bounds, and an active menu
\* has its handlers registered, however often the section was left and shown
\* (wifi_menu_create, wifi_menu_activate, wifi_menu_deactivate).
THEOREM TypeCorrect == Spec => []TypeOK
<1>1. Init => MenuInv /\ InputsInv /\ QueueOK(events) /\ async \in Seq(Calls)
    <2> SUFFICES ASSUME Init PROVE MenuInv /\ InputsInv /\ QueueOK(events) /\ async \in Seq(Calls)
        OBVIOUS
    <2>1. MenuInv
        <3>1. menu \in Menus /\ ~menu.active
            BY DEF Init, Opened, Closed, Menus
        <3>2. handlers > 0 /\ handlers \in 0..(MaxHandlers + 1)
            BY HandlersAssumption, ScanAssumption DEF Init
        <3> QED BY <3>1, <3>2 DEF Init, MenuInv
    <2>2. InputsInv
        BY HandlersAssumption, ScanAssumption DEF Init, InputsInv, ScanInit
    <2>3. async \in Seq(Calls)
        BY EmptySeq DEF Init
    <2>4. events = <<>> \/ events = <<"START">>
        BY DEF Init, ScanInit
    <2>5. <<>> \in Seq(EventNames) /\ <<"START">> \in Seq(EventNames)
        BY EmptySeq DEF EventNames
    <2>6. Len(<<>>) <= QueueSize /\ Len(<<"START">>) <= QueueSize
        BY ScanAssumption
    <2>7. QueueOK(events)
        BY <2>4, <2>5, <2>6 DEF QueueOK
    <2> QED BY <2>1, <2>2, <2>3, <2>7
<1>2. ScanInv /\ MenuInv /\ InputsInv /\ QueueOK(events) /\ async \in Seq(Calls) => TypeOK
    <2> SUFFICES ASSUME ScanInv, MenuInv, InputsInv, QueueOK(events), async \in Seq(Calls)
                 PROVE  TypeOK
        OBVIOUS
    <2>1. \A i \in DOMAIN radio.due : radio.due[i] \in Reports
        BY ElementOfSeq DEF ScanInv, ScanTypes, Radios
    <2>2. ScanTypeOK
        BY <2>1 DEF ScanTypeOK, ScanInv, ScanTypes, Radios, Reports, InputsInv, QueueOK
    <2>3. \A i \in DOMAIN async : async[i] \in Calls
        BY ElementOfSeq
    <2> QED BY <2>2, <2>3 DEF TypeOK, MenuInv, Menus, InputsInv, Calls
<1>3. Spec => [](MenuInv /\ InputsInv /\ QueueOK(events) /\ async \in Seq(Calls))
    BY <1>1, MenuNext, InputsKeep, EventsKeep, AsyncKeeps, ScanInvHolds, PTL DEF Spec
<1> QED BY <1>2, <1>3, ScanInvHolds, PTL
=============================================================================
