----------------------------- MODULE StationProofs -----------------------------
(***************************************************************************)
(* Proofs about the two models that include the repository's station       *)
(* server.  Leaving automatic mode neither starts nor stops the            *)
(* compressor, for every queue length, number of taps and set of           *)
(* discoveries that missed something.  The table of alarms follows the     *)
(* server's and the alarm page shows the table, for every set of alarms,   *)
(* capacity and number of losses.                                          *)
(***************************************************************************)
EXTENDS OperatingCommand, AlarmDisplay, SequenceTheorems, FiniteSetTheorems,
        WellFoundedInduction, TLAPS

----------------------------------------------------------------------------
(* The operating command (OperatingCommand). *)

\* The server's variables and the model's fields stay what they are.
StationDomains ==
    /\ DOMAIN nodes = Variables
    /\ DOMAIN compressor = {"automatic_mode", "manual_run_command", "is_running"}

\* A command that is not a client's is the published running state, except between
\* the update and the publication of an automatic cycle; the command that was read
\* is that of the node.
CommandInv ==
    ~commanded =>
        /\ (cycle \in {"read_mode", "read_command", "update"} \/ ~compressor.automatic_mode)
              => nodes["run_command"] = compressor.is_running
        /\ cycle = "update" => compressor.manual_run_command = compressor.is_running

CommandsInv == StationDomains /\ CommandInv

LEMMA CommandsInit == Init => CommandsInv
<1> SUFFICES ASSUME StationInit PROVE CommandsInv
    BY DEF Init
<1>1. StationDomains
    BY DEF StationInit, StationDomains
<1>2. nodes["run_command"] = FALSE /\ compressor.is_running = FALSE /\ cycle = "read_mode"
    BY DEF StationInit, Variables
<1> QED BY <1>1, <1>2 DEF CommandsInv, CommandInv

\* A client's write of the run command says so; one of another variable leaves the
\* run command alone.
LEMMA WriteStep ==
    ASSUME CommandsInv, NEW variable, NEW value, ClientWrites(variable, value)
    PROVE  CommandsInv'
<1>1. StationDomains'
    BY DEF ClientWrites, CommandsInv, StationDomains
<1>2. CASE variable = "run_command"
    BY <1>1, <1>2 DEF ClientWrites, CommandsInv, CommandInv
<1>3. CASE variable # "run_command"
    <2>1. nodes'["run_command"] = nodes["run_command"]
        BY <1>3 DEF ClientWrites, CommandsInv, StationDomains, Variables
    <2> QED BY <1>1, <2>1 DEF ClientWrites, CommandsInv, CommandInv
<1> QED BY <1>2, <1>3

LEMMA CycleStep ==
    ASSUME CommandsInv, StationCycle
    PROVE  CommandsInv'
<1> USE DEF CommandsInv, StationDomains, CommandInv, Variables
<1>1. CASE ReadMode
    BY <1>1 DEF ReadMode
<1>2. CASE ReadCommand
    BY <1>2 DEF ReadCommand
<1>3. CASE Update
    <2>1. PICK automatic_request \in BOOLEAN : UpdateCompressor(automatic_request)
        BY <1>3 DEF Update
    <2>2. /\ cycle = "update" /\ cycle' = "publish_status"
          /\ nodes' = nodes /\ commanded' = commanded
        BY <1>3 DEF Update
    <2>3. /\ DOMAIN compressor' = DOMAIN compressor
          /\ compressor'.automatic_mode = compressor.automatic_mode
          /\ ~compressor.automatic_mode
                => compressor'.is_running = compressor.manual_run_command
        BY <2>1 DEF UpdateCompressor
    <2> QED BY <2>2, <2>3
<1>4. CASE PublishStatus
    BY <1>4 DEF PublishStatus
<1>5. CASE PublishCommand
    BY <1>5 DEF PublishCommand
<1> QED BY <1>1, <1>2, <1>3, <1>4, <1>5 DEF StationCycle

\* The screen and the client touch the server only by writes.
LEMMA CommandsNext == CommandsInv /\ [Next]_vars => CommandsInv'
<1> SUFFICES ASSUME CommandsInv, [Next]_vars PROVE CommandsInv'
    OBVIOUS
<1>1. ASSUME UNCHANGED stationVars PROVE CommandsInv'
    BY <1>1 DEF stationVars, CommandsInv, StationDomains, CommandInv
<1>2. CASE Station
    BY <1>2, CycleStep DEF Station
<1>3. CASE Serve
    BY <1>1, <1>3, WriteStep DEF Serve
<1>4. CASE Refresh
    BY <1>1, <1>4 DEF Refresh, ShowState, ShowTag, HoldEnds, PageFrame
<1>5. CASE Tap
    BY <1>1, <1>5 DEF Tap, TapAutomatic, TapRun
<1>6. CASE QueueRun
    BY <1>1, <1>6 DEF QueueRun
<1>7. CASE Deliver
    BY <1>1, <1>7 DEF Deliver, DataChange
<1>8. CASE UNCHANGED vars
    BY <1>1, <1>8 DEF vars
<1> QED BY <1>2, <1>3, <1>4, <1>5, <1>6, <1>7, <1>8 DEF Next

\* Only the update changes the running state, and in manual mode it takes the
\* command that was read.
LEMMA BumplessStep ==
    ASSUME CommandsInv, [Next]_vars, cycle = "update", ~compressor.automatic_mode,
           compressor'.is_running # compressor.is_running
    PROVE  commanded
<1>1. compressor' # compressor
    OBVIOUS
<1>2. Station
    BY <1>1 DEF Next, vars, stationVars, Refresh, ShowState, ShowTag, HoldEnds, PageFrame,
                Tap, TapAutomatic, TapRun, QueueRun, Serve, ClientWrites, Deliver, DataChange
<1>3. Update
    BY <1>2 DEF Station, StationCycle, ReadMode, ReadCommand, PublishStatus, PublishCommand
<1>4. compressor'.is_running = compressor.manual_run_command
    BY <1>3 DEF Update, UpdateCompressor, CommandsInv, StationDomains
<1> QED BY <1>4 DEF CommandsInv, CommandInv

\* Leaving automatic mode never starts or stops the compressor by itself
\* (boolean_switch_event, OpcUaStationServer.publish, CompressorModel.update).
THEOREM BumplessTransferHolds == Spec => BumplessTransfer
<1>1. Spec => []CommandsInv
    BY CommandsInit, CommandsNext, PTL DEF Spec
<1>2. CommandsInv /\ [Next]_vars =>
        [cycle = "update" /\ ~compressor.automatic_mode
         /\ compressor'.is_running # compressor.is_running => commanded]_vars
    BY BumplessStep
<1> QED BY <1>1, <1>2, PTL DEF Spec, BumplessTransfer

----------------------------------------------------------------------------
(* The alarm page.  A page of the current generation shows as many of the  *)
(* active alarms as it has read, whatever the client stored meanwhile.     *)

\* The page's cards are a sequence; what one says is no matter here.
PageIsSequence == \E keys : alarms_host \in Seq(keys)

PageShows(number) ==
    /\ Len(alarms_host) = number
    /\ \A i \in DOMAIN alarms_host : alarms_host[i] = ActiveAlarm(i).key

PageInv ==
    /\ alarm_generation \in Nat /\ observed_alarm_generation \in Nat
    /\ observed_alarm_generation <= alarm_generation
    /\ alarms \in Seq(AlarmEntry) /\ reading \in [next : Nat, count : Nat]
    /\ PageIsSequence
    /\ observed_alarm_generation = alarm_generation =>
          IF reading = NotReading THEN PageShows(ActiveAlarmCount)
          ELSE IF reading.count = 0 THEN alarms_host = <<>>
          ELSE /\ reading.count = ActiveAlarmCount /\ reading.next \in 1..reading.count
               /\ PageShows(reading.next - 1)

LEMMA CountType ==
    ASSUME alarms \in Seq(AlarmEntry)
    PROVE  ActiveAlarmCount \in Nat
<1>1. ActiveSlots \subseteq 1..Len(alarms) /\ Len(alarms) \in Nat
    BY LenProperties DEF ActiveSlots
<1>2. IsFiniteSet(1..Len(alarms))
    BY <1>1, FS_Interval
<1> QED BY <1>1, <1>2, FS_Subset, FS_CardinalityType DEF ActiveAlarmCount

LEMMA PageInit == AlarmDisplayInit => PageInv
<1> SUFFICES ASSUME AlarmDisplayInit PROVE PageInv
    OBVIOUS
<1>1. /\ alarms = <<>> /\ alarm_generation = 0 /\ observed_alarm_generation = 0
      /\ alarms_host = <<>> /\ reading = NotReading
    BY DEF AlarmDisplayInit, AlarmEventsInit, AlarmInit
<1>2. ActiveAlarmCount = 0
    BY <1>1, FS_EmptySet DEF ActiveAlarmCount, ActiveSlots
<1>3. PageIsSequence /\ PageShows(ActiveAlarmCount)
    BY <1>1, <1>2, EmptySeq DEF PageIsSequence, PageShows
<1> QED BY <1>1, <1>3, EmptySeq DEF PageInv, NotReading

\* Every change of the table gets a generation of its own.
LEMMA TableSteps ==
    ASSUME alarms \in Seq(AlarmEntry), alarm_generation \in Nat, NEW key \in AlarmKeys,
           NEW active \in BOOLEAN, UpdateAlarm(key, active)
    PROVE  /\ alarms' \in Seq(AlarmEntry)
           /\ \/ alarm_generation' = alarm_generation + 1
              \/ UNCHANGED <<alarms, alarm_generation>>
<1>1. ASSUME NEW i \in DOMAIN alarms
      PROVE  [alarms EXCEPT ![i].active = active] \in Seq(AlarmEntry)
    <2>1. /\ i \in 1..Len(alarms) /\ alarms[i] \in AlarmEntry
          /\ [alarms EXCEPT ![i].active = active]
                = [alarms EXCEPT ![i] = [alarms[i] EXCEPT !.active = active]]
        BY ElementOfSeq, LenProperties
    <2>2. [alarms[i] EXCEPT !.active = active] \in AlarmEntry
        BY <2>1 DEF AlarmEntry
    <2> QED BY <2>1, <2>2, ExceptSeq
<1>2. [key |-> key, active |-> TRUE] \in AlarmEntry
    BY DEF AlarmEntry
<1>3. Append(alarms, [key |-> key, active |-> TRUE]) \in Seq(AlarmEntry)
    BY <1>2, AppendProperties
<1> QED BY <1>1, <1>3 DEF UpdateAlarm, SlotsOf

\* What the client and the server do leaves a current page alone or outdates it.
LEMMA OutdatedPage ==
    ASSUME PageInv, UNCHANGED displayVars, alarms' \in Seq(AlarmEntry),
           \/ alarm_generation' = alarm_generation + 1
           \/ UNCHANGED <<alarms, alarm_generation>>
    PROVE  PageInv'
<1>1. CASE alarm_generation' = alarm_generation + 1
    BY <1>1 DEF PageInv, displayVars, PageIsSequence
<1>2. CASE UNCHANGED <<alarms, alarm_generation>>
    <2>1. ActiveAlarmCount' = ActiveAlarmCount /\ \A i : ActiveAlarm(i)' = ActiveAlarm(i)
        BY <1>2 DEF ActiveAlarmCount, ActiveSlots, ActiveAlarm
    <2> QED BY <1>2, <2>1 DEF PageInv, displayVars, PageIsSequence, PageShows
<1> QED BY <1>1, <1>2

LEMMA RefreshPage == PageInv /\ RefreshAlarms => PageInv'
<1> SUFFICES ASSUME PageInv, RefreshAlarms PROVE PageInv'
    OBVIOUS
<1>1. /\ UNCHANGED alarms /\ UNCHANGED alarm_generation
      /\ ActiveAlarmCount' = ActiveAlarmCount /\ \A i : ActiveAlarm(i)' = ActiveAlarm(i)
    BY DEF RefreshAlarms, NoteGeneration, ReadCount, ReadAlarm, alarmVars, ActiveAlarmCount,
        ActiveSlots, ActiveAlarm
<1>2. CASE NoteGeneration
    <2>1. /\ alarms_host' = <<>> /\ reading' = [next |-> 1, count |-> 0]
          /\ observed_alarm_generation' = alarm_generation
        BY <1>2 DEF NoteGeneration
    <2>2. reading' # NotReading /\ reading' \in [next : Nat, count : Nat] /\ PageIsSequence'
        BY <2>1, EmptySeq DEF NotReading, PageIsSequence
    <2> QED BY <1>1, <2>1, <2>2 DEF PageInv
<1>3. CASE ReadCount
    <2>1. /\ UNCHANGED <<alarms_host, observed_alarm_generation>>
          /\ reading.next = 1 /\ reading.count = 0 /\ alarms_host = <<>>
          /\ IF ActiveAlarmCount = 0 THEN reading' = NotReading
             ELSE reading' = [reading EXCEPT !.count = ActiveAlarmCount]
        BY <1>3 DEF ReadCount, AlarmClearState
    <2>2. ActiveAlarmCount \in Nat /\ PageShows(0)' /\ PageIsSequence'
        BY <2>1, CountType, EmptySeq DEF PageInv, PageShows, PageIsSequence
    <2>3. CASE ActiveAlarmCount = 0
        BY <1>1, <2>1, <2>2, <2>3 DEF PageInv, NotReading
    <2>4. CASE ActiveAlarmCount # 0
        <3>1. /\ reading' \in [next : Nat, count : Nat]
              /\ reading'.next = 1 /\ reading'.count = ActiveAlarmCount
            BY <2>1, <2>2, <2>4 DEF PageInv
        <3> QED BY <1>1, <2>1, <2>2, <2>4, <3>1 DEF PageInv, NotReading
    <2> QED BY <2>3, <2>4
<1>4. CASE ReadAlarm
    <2> DEFINE shown_card == ActiveAlarm(reading.next).key
    <2>1. PICK keys : alarms_host \in Seq(keys)
        BY DEF PageInv, PageIsSequence
    <2>2. /\ reading.count > 0 /\ UNCHANGED observed_alarm_generation
          /\ alarms_host' = IF reading.next <= ActiveAlarmCount
                            THEN Append(alarms_host, shown_card) ELSE alarms_host
          /\ reading' = IF reading.next < reading.count
                        THEN [reading EXCEPT !.next = reading.next + 1] ELSE NotReading
        BY <1>4 DEF ReadAlarm
    <2>3. /\ alarms_host \in Seq(keys \cup {shown_card})
          /\ Append(alarms_host, shown_card) \in Seq(keys \cup {shown_card})
          /\ Len(Append(alarms_host, shown_card)) = Len(alarms_host) + 1
          /\ \A i \in 1..Len(alarms_host) : Append(alarms_host, shown_card)[i] = alarms_host[i]
          /\ Append(alarms_host, shown_card)[Len(alarms_host) + 1] = shown_card
          /\ DOMAIN alarms_host = 1..Len(alarms_host) /\ Len(alarms_host) \in Nat
          /\ DOMAIN Append(alarms_host, shown_card) = 1..Len(Append(alarms_host, shown_card))
        <3>1. alarms_host \in Seq(keys \cup {shown_card})
            BY <2>1, SeqMonotonic
        <3>2. shown_card \in keys \cup {shown_card}
            OBVIOUS
        <3> HIDE DEF shown_card
        <3> QED BY <3>1, <3>2, AppendProperties, LenProperties
    <2>4. PageIsSequence' /\ reading' \in [next : Nat, count : Nat]
        BY <2>2, <2>3 DEF PageInv, PageIsSequence, NotReading
    <2>5. ASSUME observed_alarm_generation = alarm_generation
          PROVE  /\ Len(alarms_host') = reading.next
                 /\ \A i \in DOMAIN alarms_host' : alarms_host'[i] = (ActiveAlarm(i)').key
                 /\ reading.count = ActiveAlarmCount /\ reading.next \in 1..reading.count
        <3>1. /\ reading.count = ActiveAlarmCount /\ reading.next \in 1..reading.count
              /\ PageShows(reading.next - 1)
            BY <2>2, <2>5 DEF PageInv, NotReading
        <3>2. Len(alarms_host) = reading.next - 1 /\ alarms_host' = Append(alarms_host, shown_card)
            BY <2>2, <2>3, <3>1 DEF PageInv, PageShows
        <3>3. /\ Len(alarms_host') = reading.next
              /\ \A i \in 1..reading.next : alarms_host'[i] = ActiveAlarm(i).key
            BY <2>3, <3>1, <3>2 DEF PageInv, PageShows
        <3> QED BY <1>1, <2>3, <3>1, <3>2, <3>3
    <2>6. CASE reading.next < reading.count
        <3>1. /\ reading'.next = reading.next + 1 /\ reading'.count = reading.count
              /\ reading' # NotReading
            BY <2>2, <2>6 DEF PageInv, NotReading
        <3> QED BY <1>1, <2>2, <2>4, <2>5, <2>6, <3>1 DEF PageInv, PageShows
    <2>7. CASE ~(reading.next < reading.count)
        <3>1. reading' = NotReading
            BY <2>2, <2>7
        <3>2. observed_alarm_generation = alarm_generation => reading.next = ActiveAlarmCount
            BY <2>5, <2>7 DEF PageInv
        <3> QED BY <1>1, <2>2, <2>4, <2>5, <3>1, <3>2 DEF PageInv, PageShows
    <2> QED BY <2>6, <2>7
<1> QED BY <1>2, <1>3, <1>4 DEF RefreshAlarms

----------------------------------------------------------------------------
(* The alarm table.  While an event of an alarm is on its way, the table   *)
(* may be behind the server; the last one of the alarm, wherever it is by  *)
(* now, says what the server says.                                         *)

SlotKeys == {alarms[i].key : i \in DOMAIN alarms}
Pending(queue, key) == \E i \in DOMAIN queue : queue[i].key = key
Tells(queue, i) == queue[i].active <=> queue[i].key \in active_alarms

TableTypes ==
    /\ alarms \in Seq(AlarmEntry) /\ alarm_generation \in Nat
    /\ transitions \in Seq(AlarmEntry) /\ notifications \in Seq(AlarmEntry)
    /\ active_alarms \subseteq AlarmKeys /\ known \subseteq AlarmKeys
    /\ monitored \subseteq AlarmKeys
    /\ session \in {"none", "browsed", "live"} /\ discarded \in BOOLEAN
    /\ Len(notifications) <= NotificationLimit

\* An alarm has one slot, and all that were raised have one as long as they fit.
SlotsInv ==
    /\ \A i, j \in DOMAIN alarms : alarms[i].key = alarms[j].key => i = j
    /\ SlotKeys \subseteq known
    /\ Cardinality(known) <= AlarmCapacity => known \subseteq SlotKeys

\* Events and slots of a session are those of monitored alarms.
SessionInv ==
    /\ session # "live" => monitored = {} /\ notifications = <<>>
    /\ session = "browsed" => alarms = <<>>
    /\ session = "live" => SlotKeys \subseteq monitored
    /\ \A i \in DOMAIN notifications : notifications[i].key \in monitored

NewsInv ==
    /\ \A i \in DOMAIN transitions : Tells(transitions, i)
    /\ \A i \in DOMAIN notifications :
          \/ Pending(transitions, notifications[i].key)
          \/ \E j \in DOMAIN notifications : j > i /\ notifications[j].key = notifications[i].key
          \/ Tells(notifications, i)

SlotsTell ==
    session = "live" /\ ~discarded =>
        \A i \in DOMAIN alarms :
           \/ Pending(transitions, alarms[i].key) \/ Pending(notifications, alarms[i].key)
           \/ Tells(alarms, i)

TableInv == TableTypes /\ SlotsInv /\ SessionInv /\ NewsInv /\ SlotsTell

LEMMA QueueKeys ==
    ASSUME NEW queue \in Seq(AlarmEntry)
    PROVE  /\ DOMAIN queue = 1..Len(queue) /\ Len(queue) \in Nat
           /\ \A i \in DOMAIN queue : queue[i] \in AlarmEntry /\ queue[i].key \in AlarmKeys
<1>1. DOMAIN queue = 1..Len(queue) /\ Len(queue) \in Nat
    BY LenProperties
<1>2. \A i \in DOMAIN queue : queue[i] \in AlarmEntry
    BY <1>1, ElementOfSeq
<1> QED BY <1>1, <1>2 DEF AlarmEntry

LEMMA TableInit == AlarmDisplayInit => TableInv
<1> SUFFICES ASSUME AlarmDisplayInit PROVE TableInv
    OBVIOUS
<1>1. /\ alarms = <<>> /\ alarm_generation = 0 /\ known = {}
      /\ active_alarms = {} /\ transitions = <<>>
      /\ session = "none" /\ monitored = {} /\ notifications = <<>> /\ discarded = FALSE
    BY DEF AlarmDisplayInit, AlarmEventsInit, AlarmInit, Faults!FaultInit
<1>2. SlotKeys = {} /\ DOMAIN <<>> = {}
    BY <1>1 DEF SlotKeys
<1>3. TableTypes
    <2>1. Len(<<>>) <= NotificationLimit
        BY AlarmEventsAssumption
    <2> QED BY <1>1, <2>1, EmptySeq DEF TableTypes
<1> QED BY <1>1, <1>2, <1>3 DEF TableInv, SlotsInv, SessionInv, NewsInv, SlotsTell

\* The server's module counts as this one does.
LEMMA OneCardinality == \A S : Faults!Cardinality(S) = Cardinality(S)
BY DEF Faults!Cardinality, Cardinality

\* All changes of a cycle are reported, in whatever order.
LEMMA AllReported ==
    ASSUME NEW keys \in SUBSET AlarmKeys, NEW active \in BOOLEAN,
           NEW reports \in Faults!Reports(keys, active)
    PROVE  /\ reports \in Seq(AlarmEntry)
           /\ \A i \in DOMAIN reports : reports[i].key \in keys /\ reports[i].active = active
           /\ \A key \in keys : Pending(reports, key)
<1>1. PICK order \in Faults!SetToSeqs(keys) :
         reports = [i \in DOMAIN order |-> [key |-> order[i], active |-> active]]
    BY DEF Faults!Reports, Faults!Transition
<1> DEFINE D == 1..Cardinality(keys)
<1>2. order \in [D -> keys] /\ \A i, j \in D : i # j => order[i] # order[j]
    BY <1>1, OneCardinality DEF Faults!SetToSeqs
<1>3. IsFiniteSet(keys) /\ Cardinality(keys) \in Nat
    BY AlarmAssumption, FS_Subset, FS_CardinalityType
<1>4. IsFiniteSet(D) /\ Cardinality(D) = Cardinality(keys)
    BY <1>3, FS_Interval
<1>5. order \in Surjection(D, keys)
    <2>1. order \in Injection(D, keys)
        BY <1>2 DEF Injection, IsInjective
    <2> QED BY <1>3, <1>4, <2>1, FS_Injection
<1>6. \A key \in keys : \E i \in D : order[i] = key
    BY <1>5 DEF Surjection
<1>7. DOMAIN reports = D /\ \A i \in D : reports[i].key = order[i] /\ reports[i].active = active
    BY <1>1, <1>2
<1>8. reports \in Seq(AlarmEntry)
    <2>1. \A i \in D : [key |-> order[i], active |-> active] \in AlarmEntry
        BY <1>2 DEF AlarmEntry
    <2>2. reports \in [D -> AlarmEntry]
        BY <1>1, <1>2, <2>1
    <2> QED BY <1>3, <2>2, SeqDef
<1> QED BY <1>2, <1>6, <1>7, <1>8 DEF Pending

LEMMA CycleTable == TableInv /\ ServerCycle => TableInv'
<1> SUFFICES ASSUME TableInv, ServerCycle PROVE TableInv'
    OBVIOUS
<1>1. PICK keys \in SUBSET AlarmKeys, active \in BOOLEAN :
         /\ transitions = <<>> /\ transitions' \in Faults!Reports(keys, active)
         /\ active_alarms' \subseteq AlarmKeys
         /\ \A key \in keys : active <=> key \in active_alarms'
         /\ \A key \in AlarmKeys \ keys : key \in active_alarms' <=> key \in active_alarms
    <2>1. CASE Faults!Evaluate
        <3>1. PICK conditions \in SUBSET AlarmKeys :
                 /\ transitions = <<>>
                 /\ active_alarms' = active_alarms \union conditions
                 /\ transitions' \in Faults!Reports(conditions \ active_alarms, TRUE)
            BY <2>1 DEF Faults!Evaluate, Faults!Raised
        <3> QED BY <3>1 DEF TableInv, TableTypes
    <2>2. CASE Faults!Reset
        BY <2>2 DEF Faults!Reset, TableInv, TableTypes
    <2> QED BY <2>1, <2>2 DEF ServerCycle
<1>2. UNCHANGED <<alarmVars, session, monitored, notifications, discarded>>
    BY DEF ServerCycle
<1>3. /\ transitions' \in Seq(AlarmEntry)
      /\ \A i \in DOMAIN transitions' : /\ transitions'[i].key \in keys
                                        /\ transitions'[i].active = active
      /\ \A key \in keys : Pending(transitions', key)
    BY <1>1, AllReported
<1>4. \A key : ~Pending(transitions, key)
    BY <1>1 DEF Pending
<1>5. TableTypes'
    BY <1>1, <1>2, <1>3 DEF TableInv, TableTypes, alarmVars
<1>6. SlotsInv' /\ SessionInv'
    BY <1>2 DEF TableInv, SlotsInv, SessionInv, SlotKeys, alarmVars
<1>7. NewsInv'
    <2>1. \A i \in DOMAIN notifications : notifications[i].key \in AlarmKeys
        BY QueueKeys DEF TableInv, TableTypes
    <2>2. \A i \in DOMAIN transitions' : Tells(transitions, i)'
        BY <1>1, <1>3 DEF Tells
    <2> QED BY <1>1, <1>2, <1>3, <1>4, <2>1, <2>2 DEF TableInv, NewsInv, Tells
<1>8. SlotsTell'
    <2>1. \A i \in DOMAIN alarms : alarms[i].key \in AlarmKeys
        BY QueueKeys DEF TableInv, TableTypes
    <2> QED BY <1>1, <1>2, <1>3, <1>4, <2>1 DEF TableInv, SlotsTell, Tells, alarmVars
<1> QED BY <1>5, <1>6, <1>7, <1>8 DEF TableInv

\* A report leaves the server: it reaches the queue if its alarm is monitored.
LEMMA ReportTable == TableInv /\ ServerReports => TableInv'
<1> SUFFICES ASSUME TableInv, ServerReports PROVE TableInv'
    OBVIOUS
<1> DEFINE sent == Head(transitions)
<1>1. /\ transitions \in Seq(AlarmEntry) /\ transitions # <<>> /\ transitions' = Tail(transitions)
      /\ UNCHANGED <<active_alarms, alarmVars, session, monitored>>
      /\ IF sent.key \in monitored
         THEN /\ notifications' = Queued(sent)
              /\ discarded' = (discarded \/ Len(notifications) = NotificationLimit)
         ELSE UNCHANGED <<notifications, discarded>>
    BY DEF ServerReports, Faults!EmitAlarmEvent, Faults!Emitted, TableInv, TableTypes
<1>2. /\ sent \in AlarmEntry /\ sent = transitions[1] /\ transitions' \in Seq(AlarmEntry)
      /\ 1 \in DOMAIN transitions
      /\ Len(transitions') = Len(transitions) - 1 /\ Len(transitions) \in Nat
      /\ \A i \in 1..Len(transitions') : transitions'[i] = transitions[i + 1]
      /\ DOMAIN transitions = 1..Len(transitions) /\ DOMAIN transitions' = 1..Len(transitions')
    BY <1>1, HeadTailProperties, LenProperties, EmptySeq
<1>3. sent.active <=> sent.key \in active_alarms
    BY <1>2 DEF TableInv, NewsInv, Tells
<1>4. /\ \A i \in DOMAIN transitions' : Tells(transitions, i)'
      /\ \A key : Pending(transitions, key) => Pending(transitions', key) \/ key = sent.key
    <2>1. \A i \in DOMAIN transitions' : Tells(transitions, i)'
        BY <1>1, <1>2 DEF TableInv, NewsInv, Tells
    <2>2. ASSUME NEW i \in DOMAIN transitions, i # 1
          PROVE  i - 1 \in DOMAIN transitions' /\ transitions'[i - 1] = transitions[i]
        BY <1>2, <2>2
    <2> QED BY <1>2, <2>1, <2>2 DEF Pending
<1> HIDE DEF sent
<1>5. SlotsInv' /\ (session # "live" => sent.key \notin monitored)
    BY <1>1 DEF TableInv, SlotsInv, SlotKeys, SessionInv, alarmVars
<1>6. CASE sent.key \notin monitored
    <2>1. UNCHANGED <<notifications, discarded>>
        BY <1>1, <1>6
    <2>2. TableTypes' /\ SessionInv'
        BY <1>1, <1>2, <2>1 DEF TableInv, TableTypes, SessionInv, SlotKeys, alarmVars
    <2>3. /\ \A i \in DOMAIN notifications : notifications[i].key # sent.key
          /\ session = "live" => \A i \in DOMAIN alarms : alarms[i].key # sent.key
        BY <1>6 DEF TableInv, SessionInv, SlotKeys
    <2>4. NewsInv' /\ SlotsTell'
        BY <1>1, <1>4, <2>1, <2>3 DEF TableInv, NewsInv, SlotsTell, Tells, alarmVars
    <2> QED BY <1>5, <2>2, <2>4 DEF TableInv
<1>7. CASE sent.key \in monitored
    <2> DEFINE longer == Append(notifications, sent)
    <2>1. /\ notifications \in Seq(AlarmEntry) /\ Len(notifications) \in Nat
          /\ longer \in Seq(AlarmEntry) /\ longer # <<>> /\ Len(longer) = Len(notifications) + 1
          /\ \A i \in 1..Len(notifications) : longer[i] = notifications[i]
          /\ longer[Len(notifications) + 1] = sent
          /\ DOMAIN notifications = 1..Len(notifications) /\ DOMAIN longer = 1..Len(longer)
        BY <1>2, AppendProperties, LenProperties DEF TableInv, TableTypes
    <2> HIDE DEF longer
    <2>2. PICK dropped \in {0, 1} :
             /\ notifications' \in Seq(AlarmEntry)
             /\ Len(notifications') = Len(longer) - dropped /\ Len(longer) > dropped
             /\ \A i \in 1..Len(notifications') : notifications'[i] = longer[i + dropped]
             /\ DOMAIN notifications' = 1..Len(notifications')
             /\ dropped = 1 <=> Len(longer) > NotificationLimit
        <3>1. notifications' = IF Len(longer) > NotificationLimit THEN Tail(longer) ELSE longer
            BY <1>1, <1>7 DEF Queued, longer
        <3>2. CASE Len(longer) > NotificationLimit
            <4>1. /\ Tail(longer) \in Seq(AlarmEntry) /\ Len(Tail(longer)) = Len(longer) - 1
                  /\ \A i \in 1..Len(Tail(longer)) : Tail(longer)[i] = longer[i + 1]
                  /\ DOMAIN Tail(longer) = 1..Len(Tail(longer))
                BY <2>1, HeadTailProperties, LenProperties
            <4>2. Len(longer) > 1
                BY <2>1, <3>2, AlarmEventsAssumption
            <4> QED BY <3>1, <3>2, <4>1, <4>2
        <3>3. CASE ~(Len(longer) > NotificationLimit)
            BY <2>1, <3>1, <3>3
        <3> QED BY <3>2, <3>3
    <2>8. \A i \in DOMAIN notifications' :
             i + dropped \in DOMAIN longer /\ notifications'[i] = longer[i + dropped]
        BY <2>1, <2>2
    <2>3. TableTypes'
        <3>1. Len(notifications') <= NotificationLimit
            BY <2>1, <2>2, AlarmEventsAssumption DEF TableInv, TableTypes
        <3> QED BY <1>1, <1>2, <1>7, <2>2, <3>1 DEF TableInv, TableTypes, alarmVars
    <2>4. SessionInv'
        <3>1. \A i \in DOMAIN longer : longer[i].key \in monitored
            BY <1>7, <2>1 DEF TableInv, SessionInv
        <3>2. \A i \in DOMAIN notifications' : notifications'[i].key \in monitored
            BY <2>8, <3>1
        <3> QED BY <1>1, <1>5, <1>7, <3>2 DEF TableInv, SessionInv, SlotKeys, alarmVars
    <2>5. /\ Pending(notifications', sent.key)
          /\ ~discarded' => \A key : Pending(notifications, key) => Pending(notifications', key)
        <3>1. /\ Len(notifications') \in DOMAIN notifications'
              /\ notifications'[Len(notifications')] = sent
            BY <2>1, <2>2
        <3>2. ASSUME ~discarded' PROVE notifications' = longer
            <4>1. Len(notifications) # NotificationLimit
                BY <1>1, <1>7, <3>2
            <4>2. Len(notifications) <= NotificationLimit /\ NotificationLimit \in Nat
                BY AlarmEventsAssumption DEF TableInv, TableTypes
            <4>3. ~(Len(longer) > NotificationLimit)
                <5>1. \A a, b \in Nat : a <= b /\ a # b => ~(a + 1 > b)
                    OBVIOUS
                <5> QED BY <2>1, <4>1, <4>2, <5>1
            <4> QED BY <1>1, <1>7, <4>3 DEF Queued, longer
        <3> QED BY <2>1, <3>1, <3>2 DEF Pending
    <2>6. NewsInv'
        <3>1. ASSUME NEW i \in DOMAIN longer
              PROVE  \/ Pending(transitions', longer[i].key)
                     \/ \E j \in DOMAIN longer : j > i /\ longer[j].key = longer[i].key
                     \/ longer[i].active <=> longer[i].key \in active_alarms
            <4>1. CASE i = Len(notifications) + 1
                BY <1>3, <2>1, <4>1
            <4>2. CASE i # Len(notifications) + 1
                <5>1. i \in DOMAIN notifications /\ longer[i] = notifications[i]
                      /\ Len(notifications) + 1 > i
                    BY <2>1, <4>2
                <5>2. CASE notifications[i].key = sent.key
                    BY <2>1, <5>1, <5>2
                <5>3. CASE notifications[i].key # sent.key
                    <6>1. \/ Pending(transitions', notifications[i].key)
                          \/ \E j \in DOMAIN notifications :
                                j > i /\ notifications[j].key = notifications[i].key
                          \/ Tells(notifications, i)
                        BY <1>4, <5>1, <5>3 DEF TableInv, NewsInv
                    <6>2. \A j \in DOMAIN notifications :
                             j \in DOMAIN longer /\ longer[j] = notifications[j]
                        BY <2>1
                    <6> QED BY <5>1, <6>1, <6>2 DEF Tells
                <5> QED BY <5>2, <5>3
            <4> QED BY <4>1, <4>2
        <3>2. ASSUME NEW i \in DOMAIN notifications'
              PROVE  \/ Pending(transitions', notifications'[i].key)
                     \/ \E j \in DOMAIN notifications' :
                           j > i /\ notifications'[j].key = notifications'[i].key
                     \/ notifications'[i].active <=> notifications'[i].key \in active_alarms
            <4>1. i + dropped \in DOMAIN longer /\ notifications'[i] = longer[i + dropped]
                BY <2>8
            <4>2. ASSUME NEW j \in DOMAIN longer, j > i + dropped
                  PROVE  /\ j - dropped \in DOMAIN notifications' /\ j - dropped > i
                         /\ notifications'[j - dropped] = longer[j]
                <5>1. j \in Nat /\ i \in Nat /\ j <= Len(longer) /\ i > 0
                    BY <2>1, <2>2
                <5>2. j - dropped \in 1..Len(notifications') /\ j - dropped > i
                    BY <2>1, <2>2, <4>2, <5>1
                <5>3. notifications'[j - dropped] = longer[(j - dropped) + dropped]
                    BY <2>2, <5>2
                <5>4. (j - dropped) + dropped = j
                    BY <5>1
                <5> QED BY <2>2, <5>2, <5>3, <5>4
            <4> QED BY <3>1, <4>1, <4>2
        <3> QED BY <1>1, <1>4, <3>2 DEF NewsInv, Tells
    <2>7. SlotsTell'
        <3> SUFFICES ASSUME session' = "live", ~discarded', NEW i \in DOMAIN alarms'
                     PROVE  \/ Pending(transitions', alarms'[i].key)
                            \/ Pending(notifications', alarms'[i].key)
                            \/ Tells(alarms, i)'
            BY DEF SlotsTell
        <3>1. session = "live" /\ ~discarded /\ i \in DOMAIN alarms /\ alarms' = alarms
            BY <1>1, <1>7 DEF alarmVars
        <3>2. \/ Pending(transitions, alarms[i].key) \/ Pending(notifications, alarms[i].key)
              \/ Tells(alarms, i)
            BY <3>1 DEF TableInv, SlotsTell
        <3> QED BY <1>1, <1>4, <2>5, <3>1, <3>2 DEF Tells
    <2> QED BY <1>5, <2>3, <2>4, <2>6, <2>7 DEF TableInv
<1> QED BY <1>6, <1>7

----------------------------------------------------------------------------
\* The client stores an event.

LEMMA UpdateCases ==
    ASSUME TableInv, NEW key \in AlarmKeys, NEW active \in BOOLEAN, UpdateAlarm(key, active)
    PROVE  /\ alarms' \in Seq(AlarmEntry)
           /\ SlotKeys \subseteq SlotKeys' /\ SlotKeys' \subseteq SlotKeys \cup {key}
           /\ \A i \in DOMAIN alarms' :
                 \/ alarms'[i].key = key /\ alarms'[i].active = active
                 \/ i \in DOMAIN alarms /\ alarms'[i] = alarms[i] /\ alarms[i].key # key
           /\ SlotsInv'
<1>1. /\ alarms \in Seq(AlarmEntry) /\ DOMAIN alarms = 1..Len(alarms) /\ Len(alarms) \in Nat
      /\ \A i \in DOMAIN alarms : alarms[i] \in AlarmEntry
    BY QueueKeys DEF TableInv, TableTypes
<1>2. /\ \A i, j \in DOMAIN alarms : alarms[i].key = alarms[j].key => i = j
      /\ SlotKeys \subseteq known
      /\ Cardinality(known) <= AlarmCapacity => known \subseteq SlotKeys
    BY DEF TableInv, SlotsInv
<1>3. known' = IF active THEN known \union {key} ELSE known
    BY DEF UpdateAlarm, NoteEvent
<1>4. IsFiniteSet(known) /\ IsFiniteSet(known') /\ Cardinality(known) \in Nat
      /\ Cardinality(known') \in Nat /\ Cardinality(known) <= Cardinality(known')
    <2>1. known \subseteq AlarmKeys /\ known' \subseteq AlarmKeys /\ known \subseteq known'
        BY <1>3 DEF TableInv, TableTypes
    <2> QED BY <2>1, AlarmAssumption, FS_Subset, FS_CardinalityType
<1>5. ASSUME NEW slot \in SlotsOf(key), alarms' = [alarms EXCEPT ![slot].active = active]
      PROVE  /\ alarms' \in Seq(AlarmEntry) /\ SlotKeys' = SlotKeys /\ key \in SlotKeys
             /\ \A i \in DOMAIN alarms' :
                   \/ alarms'[i].key = key /\ alarms'[i].active = active
                   \/ i \in DOMAIN alarms /\ alarms'[i] = alarms[i] /\ alarms[i].key # key
             /\ \A i, j \in DOMAIN alarms' : alarms'[i].key = alarms'[j].key => i = j
    <2>1. slot \in DOMAIN alarms /\ alarms[slot].key = key
        BY <1>5 DEF SlotsOf
    <2>2. alarms' = [alarms EXCEPT ![slot] = [key |-> key, active |-> active]]
        <3>1. [alarms[slot] EXCEPT !.active = active] = [key |-> key, active |-> active]
            BY <1>1, <2>1 DEF AlarmEntry
        <3> QED BY <1>5, <3>1
    <2>3. alarms' \in Seq(AlarmEntry) /\ DOMAIN alarms' = DOMAIN alarms
        <3>1. [key |-> key, active |-> active] \in AlarmEntry
            BY DEF AlarmEntry
        <3> QED BY <1>1, <2>1, <2>2, <3>1, ExceptSeq
    <2>4. \A i \in DOMAIN alarms :
             alarms'[i] = IF i = slot THEN [key |-> key, active |-> active] ELSE alarms[i]
        BY <2>2
    <2>5. \A i \in DOMAIN alarms : alarms'[i].key = alarms[i].key
        BY <2>1, <2>4
    <2> QED BY <1>2, <2>1, <2>3, <2>4, <2>5 DEF SlotKeys
<1>6. ASSUME SlotsOf(key) = {}, alarms' = Append(alarms, [key |-> key, active |-> TRUE]), active
      PROVE  /\ alarms' \in Seq(AlarmEntry) /\ SlotKeys' = SlotKeys \cup {key}
             /\ \A i \in DOMAIN alarms' :
                   \/ alarms'[i].key = key /\ alarms'[i].active = active
                   \/ i \in DOMAIN alarms /\ alarms'[i] = alarms[i] /\ alarms[i].key # key
             /\ \A i, j \in DOMAIN alarms' : alarms'[i].key = alarms'[j].key => i = j
    <2>1. /\ alarms' \in Seq(AlarmEntry) /\ DOMAIN alarms' = 1..(Len(alarms) + 1)
          /\ \A i \in DOMAIN alarms : alarms'[i] = alarms[i]
          /\ alarms'[Len(alarms) + 1] = [key |-> key, active |-> TRUE]
        <3>1. [key |-> key, active |-> TRUE] \in AlarmEntry
            BY DEF AlarmEntry
        <3> QED BY <1>1, <1>6, <3>1, AppendProperties, LenProperties
    <2>2. \A i \in DOMAIN alarms : alarms[i].key # key
        BY <1>6 DEF SlotsOf
    <2>3. \A i \in DOMAIN alarms' : i \in DOMAIN alarms \/ i = Len(alarms) + 1
        BY <1>1, <2>1
    <2>4. \A i \in DOMAIN alarms : i \in DOMAIN alarms'
        BY <1>1, <2>1
    <2>5. Len(alarms) + 1 \in DOMAIN alarms'
        BY <1>1, <2>1
    <2>6. \A k : k \in SlotKeys' <=> k \in SlotKeys \cup {key}
        BY <2>1, <2>3, <2>4, <2>5 DEF SlotKeys
    <2>7. \A i, j \in DOMAIN alarms' : alarms'[i].key = alarms'[j].key => i = j
        BY <1>2, <2>1, <2>2, <2>3
    <2>8. \A i \in DOMAIN alarms' :
             \/ alarms'[i].key = key /\ alarms'[i].active = active
             \/ i \in DOMAIN alarms /\ alarms'[i] = alarms[i] /\ alarms[i].key # key
        <3>1. alarms'[Len(alarms) + 1].key = key /\ alarms'[Len(alarms) + 1].active = TRUE
            BY <2>1
        <3>2. active = TRUE
            BY <1>6
        <3> QED BY <2>1, <2>2, <2>3, <3>1, <3>2
    <2> QED BY <2>1, <2>6, <2>7, <2>8
<1>7. ASSUME SlotsOf(key) = {}, active, Len(alarms) >= AlarmCapacity
      PROVE  Cardinality(known') > AlarmCapacity
    <2> SUFFICES ASSUME Cardinality(known') <= AlarmCapacity PROVE FALSE
        BY <1>4, AlarmAssumption
    <2>1. known = SlotKeys
        <3>1. Cardinality(known) <= AlarmCapacity
            BY <1>4, AlarmAssumption
        <3> QED BY <1>2, <3>1
    <2>2. key \notin known
        BY <1>7, <2>1 DEF SlotsOf, SlotKeys
    <2>3. Cardinality(known') = Cardinality(known) + 1
        BY <1>3, <1>4, <1>7, <2>2, FS_AddElement
    <2>4. Len(alarms) <= Cardinality(known)
        <3> DEFINE place == [i \in 1..Len(alarms) |-> alarms[i].key]
        <3>1. place \in Injection(1..Len(alarms), known)
            BY <1>1, <1>2 DEF Injection, IsInjective, SlotKeys
        <3>2. Cardinality(1..Len(alarms)) = Len(alarms)
            BY <1>1, FS_Interval
        <3> HIDE DEF place
        <3> QED BY <1>4, <3>1, <3>2, FS_Injection
    <2> QED BY <1>1, <1>4, <1>7, <2>3, <2>4, AlarmAssumption
<1>a. Cardinality(known') <= AlarmCapacity => known \subseteq SlotKeys
    <2>1. Cardinality(known') <= AlarmCapacity => Cardinality(known) <= AlarmCapacity
        BY <1>4, AlarmAssumption
    <2> QED BY <1>2, <2>1
<1>8. CASE \E slot \in SlotsOf(key) : alarms' = [alarms EXCEPT ![slot].active = active]
    <2>1. PICK slot \in SlotsOf(key) : alarms' = [alarms EXCEPT ![slot].active = active]
        BY <1>8
    <2>2. SlotKeys' = SlotKeys /\ key \in SlotKeys
        BY <1>5, <2>1
    <2>3. \A i, j \in DOMAIN alarms' : alarms'[i].key = alarms'[j].key => i = j
        BY <1>5, <2>1
    <2>4. SlotsInv'
        BY <1>2, <1>3, <1>a, <2>2, <2>3 DEF SlotsInv
    <2> QED BY <1>5, <2>1, <2>2, <2>4
<1>9. CASE /\ SlotsOf(key) = {} /\ active
           /\ alarms' = Append(alarms, [key |-> key, active |-> TRUE])
    <2>1. SlotKeys' = SlotKeys \cup {key}
        BY <1>6, <1>9
    <2>2. \A i, j \in DOMAIN alarms' : alarms'[i].key = alarms'[j].key => i = j
        BY <1>6, <1>9
    <2>3. SlotsInv'
        BY <1>2, <1>3, <1>9, <1>a, <2>1, <2>2 DEF SlotsInv
    <2> QED BY <1>6, <1>9, <2>1, <2>3
<1>10. CASE /\ SlotsOf(key) = {} /\ (active => Len(alarms) >= AlarmCapacity)
            /\ UNCHANGED alarms
    <2>1. /\ SlotKeys' = SlotKeys
          /\ \A i \in DOMAIN alarms : alarms[i].key # key
        BY <1>10 DEF SlotKeys, SlotsOf
    <2>2. SlotsInv'
        BY <1>2, <1>3, <1>4, <1>7, <1>10, <2>1, AlarmAssumption DEF SlotsInv
    <2> QED BY <1>1, <1>10, <2>1, <2>2
<1> QED BY <1>8, <1>9, <1>10 DEF UpdateAlarm

LEMMA TailFacts ==
    ASSUME NEW queue \in Seq(AlarmEntry), queue # <<>>
    PROVE  /\ Head(queue) = queue[1] /\ Head(queue) \in AlarmEntry /\ 1 \in DOMAIN queue
           /\ Tail(queue) \in Seq(AlarmEntry) /\ Len(Tail(queue)) <= Len(queue)
           /\ \A i \in DOMAIN Tail(queue) :
                 i + 1 \in DOMAIN queue /\ Tail(queue)[i] = queue[i + 1]
           /\ \A i \in DOMAIN queue :
                 i > 1 => i - 1 \in DOMAIN Tail(queue) /\ Tail(queue)[i - 1] = queue[i]
           /\ \A key : Pending(queue, key) => Pending(Tail(queue), key) \/ key = Head(queue).key
<1>1. /\ Len(queue) \in Nat \ {0} /\ Head(queue) = queue[1] /\ Head(queue) \in AlarmEntry
      /\ Tail(queue) \in Seq(AlarmEntry) /\ Len(Tail(queue)) = Len(queue) - 1
      /\ \A i \in 1..Len(Tail(queue)) : Tail(queue)[i] = queue[i + 1]
      /\ DOMAIN queue = 1..Len(queue) /\ DOMAIN Tail(queue) = 1..Len(Tail(queue))
    BY HeadTailProperties, LenProperties, EmptySeq
<1>2. ASSUME NEW i \in DOMAIN queue, i > 1
      PROVE  i - 1 \in DOMAIN Tail(queue) /\ Tail(queue)[i - 1] = queue[i]
    BY <1>1, <1>2
<1>3. \A i \in DOMAIN Tail(queue) : i + 1 \in DOMAIN queue /\ Tail(queue)[i] = queue[i + 1]
    BY <1>1
<1>4. ASSUME NEW key, Pending(queue, key) PROVE Pending(Tail(queue), key) \/ key = Head(queue).key
    <2>1. PICK i \in DOMAIN queue : queue[i].key = key
        BY <1>4 DEF Pending
    <2>2. i = 1 \/ i > 1
        BY <1>1
    <2> QED BY <1>1, <1>2, <2>1, <2>2 DEF Pending
<1> QED BY <1>1, <1>2, <1>3, <1>4

LEMMA ReceiveTable == TableInv /\ ReceiveEvent => TableInv'
<1> SUFFICES ASSUME TableInv, ReceiveEvent PROVE TableInv'
    OBVIOUS
<1> DEFINE news == Head(notifications)
<1>1. /\ notifications \in Seq(AlarmEntry) /\ notifications # <<>>
      /\ UpdateAlarm(news.key, news.active) /\ notifications' = Tail(notifications)
      /\ UNCHANGED <<active_alarms, transitions, session, monitored, discarded>>
    BY DEF ReceiveEvent, faultVars, TableInv, TableTypes
<1>2. /\ news = notifications[1] /\ news \in AlarmEntry /\ 1 \in DOMAIN notifications
      /\ notifications' \in Seq(AlarmEntry) /\ Len(notifications') <= Len(notifications)
      /\ \A i \in DOMAIN notifications' :
            i + 1 \in DOMAIN notifications /\ notifications'[i] = notifications[i + 1]
      /\ \A i \in DOMAIN notifications :
            i > 1 => i - 1 \in DOMAIN notifications' /\ notifications'[i - 1] = notifications[i]
      /\ \A key : Pending(notifications, key)
                     => Pending(notifications', key) \/ key = news.key
    BY <1>1, TailFacts
<1> HIDE DEF news
<1>3. news.key \in AlarmKeys /\ news.active \in BOOLEAN /\ news.key \in monitored
    BY <1>2 DEF AlarmEntry, TableInv, SessionInv
<1>4. /\ alarms' \in Seq(AlarmEntry) /\ SlotKeys' \subseteq SlotKeys \cup {news.key}
      /\ \A i \in DOMAIN alarms' :
            \/ alarms'[i].key = news.key /\ alarms'[i].active = news.active
            \/ i \in DOMAIN alarms /\ alarms'[i] = alarms[i] /\ alarms[i].key # news.key
      /\ SlotsInv'
    BY <1>1, <1>3, UpdateCases
<1>5. DOMAIN notifications = 1..Len(notifications) /\ DOMAIN notifications' = 1..Len(notifications')
      /\ Len(notifications) \in Nat /\ Len(notifications') \in Nat
    BY <1>1, <1>2, QueueKeys
<1>6. TableTypes'
    <2>1. alarm_generation' \in Nat
        BY <1>1 DEF UpdateAlarm, TableInv, TableTypes
    <2>2. known' \subseteq AlarmKeys
        BY <1>1, <1>3 DEF UpdateAlarm, NoteEvent, TableInv, TableTypes
    <2>3. Len(notifications') <= NotificationLimit
        <3>1. Len(notifications) <= NotificationLimit /\ NotificationLimit \in Nat
            BY AlarmEventsAssumption DEF TableInv, TableTypes
        <3>2. \A a, b, c \in Nat : a <= b /\ b <= c => a <= c
            OBVIOUS
        <3> QED BY <1>2, <1>5, <3>1, <3>2
    <2> QED BY <1>1, <1>2, <1>4, <2>1, <2>2, <2>3 DEF TableInv, TableTypes
<1>7. SessionInv'
    <2>1. session = "live" /\ SlotKeys \subseteq monitored
        BY <1>1 DEF TableInv, TableTypes, SessionInv
    <2>2. \A i \in DOMAIN notifications' : notifications'[i].key \in monitored
        BY <1>2 DEF TableInv, SessionInv
    <2> QED BY <1>1, <1>3, <1>4, <2>1, <2>2 DEF SessionInv
<1>8. NewsInv'
    <2>1. ASSUME NEW i \in DOMAIN notifications'
          PROVE  \/ Pending(transitions, notifications'[i].key)
                 \/ \E j \in DOMAIN notifications' :
                       j > i /\ notifications'[j].key = notifications'[i].key
                 \/ notifications'[i].active <=> notifications'[i].key \in active_alarms
        <3>1. i + 1 \in DOMAIN notifications /\ notifications'[i] = notifications[i + 1]
            BY <1>2
        <3>2. \/ Pending(transitions, notifications[i + 1].key)
              \/ \E j \in DOMAIN notifications :
                    j > i + 1 /\ notifications[j].key = notifications[i + 1].key
              \/ Tells(notifications, i + 1)
            BY <3>1 DEF TableInv, NewsInv
        <3>3. ASSUME NEW j \in DOMAIN notifications, j > i + 1
              PROVE  /\ j - 1 \in DOMAIN notifications' /\ j - 1 > i
                     /\ notifications'[j - 1] = notifications[j]
            <4>1. j > 1 /\ j - 1 > i
                BY <1>5, <3>3
            <4> QED BY <1>2, <4>1
        <3> QED BY <3>1, <3>2, <3>3 DEF Tells
    <2> QED BY <1>1, <2>1 DEF TableInv, NewsInv, Tells
<1>9. SlotsTell'
    <2> SUFFICES ASSUME session = "live", ~discarded, NEW i \in DOMAIN alarms'
                 PROVE  \/ Pending(transitions, alarms'[i].key)
                        \/ Pending(notifications', alarms'[i].key)
                        \/ alarms'[i].active <=> alarms'[i].key \in active_alarms
        BY <1>1 DEF SlotsTell, Tells
    <2>1. CASE alarms'[i].key = news.key /\ alarms'[i].active = news.active
        <3>1. \/ Pending(transitions, news.key)
              \/ \E j \in DOMAIN notifications : j > 1 /\ notifications[j].key = news.key
              \/ news.active <=> news.key \in active_alarms
            BY <1>2 DEF TableInv, NewsInv, Tells
        <3>2. ASSUME NEW j \in DOMAIN notifications, j > 1, notifications[j].key = news.key
              PROVE  Pending(notifications', news.key)
            BY <1>2, <3>2 DEF Pending
        <3> QED BY <2>1, <3>1, <3>2
    <2>2. CASE i \in DOMAIN alarms /\ alarms'[i] = alarms[i] /\ alarms[i].key # news.key
        <3>1. \/ Pending(transitions, alarms[i].key) \/ Pending(notifications, alarms[i].key)
              \/ Tells(alarms, i)
            BY <2>2 DEF TableInv, SlotsTell
        <3> QED BY <1>2, <2>2, <3>1 DEF Tells
    <2> QED BY <1>4, <2>1, <2>2
<1> QED BY <1>4, <1>6, <1>7, <1>8, <1>9 DEF TableInv

\* The session begins, makes its subscriptions and ends.
LEMMA SessionTable ==
    ASSUME TableInv, DiscoverAnew \/ CreateEventSubscriptions \/ SessionEnds
    PROVE  TableInv'
<1>1. UNCHANGED <<active_alarms, transitions>>
    BY DEF DiscoverAnew, CreateEventSubscriptions, SessionEnds, faultVars
<1>2. CASE DiscoverAnew
    <2>1. /\ session = "none" /\ session' \in {"browsed", "none"} /\ alarms' = <<>>
          /\ alarm_generation' = alarm_generation + 1 /\ known' = {}
          /\ UNCHANGED <<monitored, notifications, discarded>>
        BY <1>2 DEF DiscoverAnew, ClearAlarms
    <2>2. SlotKeys' = {}
        BY <2>1 DEF SlotKeys
    <2> QED BY <1>1, <2>1, <2>2, EmptySeq DEF TableInv, TableTypes, SlotsInv, SessionInv,
            NewsInv, SlotsTell, Tells
<1>3. CASE CreateEventSubscriptions
    <2>1. /\ session = "browsed" /\ session' = "live" /\ monitored' \in SUBSET AlarmKeys
          /\ UNCHANGED <<alarms, alarm_generation, known, notifications, discarded>>
        BY <1>3 DEF CreateEventSubscriptions, alarmVars
    <2>2. alarms = <<>> /\ notifications = <<>> /\ SlotKeys = {} /\ SlotKeys' = {}
        BY <2>1 DEF TableInv, SessionInv, SlotKeys
    <2> QED BY <1>1, <2>1, <2>2 DEF TableInv, TableTypes, SlotsInv, SessionInv, NewsInv,
            SlotsTell, Tells
<1>4. CASE SessionEnds
    <2>1. /\ session' = "none" /\ monitored' = {} /\ notifications' = <<>>
          /\ discarded' = FALSE /\ UNCHANGED <<alarms, alarm_generation, known>>
        BY <1>4 DEF SessionEnds, alarmVars
    <2>2. SlotKeys' = SlotKeys /\ Len(<<>>) <= NotificationLimit
        BY <2>1, AlarmEventsAssumption DEF SlotKeys
    <2>3. TableTypes'
        BY <1>1, <2>1, <2>2, EmptySeq DEF TableInv, TableTypes
    <2>4. SlotsInv' /\ SlotsTell'
        BY <2>1, <2>2 DEF TableInv, SlotsInv, SlotsTell
    <2>5. SessionInv' /\ NewsInv'
        BY <1>1, <2>1 DEF TableInv, SessionInv, NewsInv, Tells
    <2> QED BY <2>3, <2>4, <2>5 DEF TableInv
<1> QED BY <1>2, <1>3, <1>4

LEMMA AlarmNext ==
    PageInv /\ TableInv /\ [AlarmDisplayNext]_alarmDisplayVars => PageInv' /\ TableInv'
<1> SUFFICES ASSUME PageInv, TableInv, [AlarmDisplayNext]_alarmDisplayVars
             PROVE  PageInv' /\ TableInv'
    OBVIOUS
<1>1. ASSUME UNCHANGED <<alarmVars, eventVars>> PROVE TableInv'
    BY <1>1 DEF alarmVars, eventVars, faultVars, TableInv, TableTypes, SlotsInv, SlotKeys,
        SessionInv, NewsInv, SlotsTell, Tells
<1>2. CASE Report
    <2>1. UNCHANGED displayVars /\ AlarmEventsNext
        BY <1>2 DEF Report
    <2>2. TableInv'
        BY <2>1, CycleTable, ReportTable, ReceiveTable, SessionTable DEF AlarmEventsNext
    <2>3. \/ alarm_generation' = alarm_generation + 1
          \/ UNCHANGED <<alarms, alarm_generation>>
        BY <2>1 DEF AlarmEventsNext, ServerCycle, ServerReports, DiscoverAnew, ClearAlarms,
            CreateEventSubscriptions, ReceiveEvent, UpdateAlarm, SessionEnds, alarmVars
    <2> QED BY <2>1, <2>2, <2>3, OutdatedPage DEF TableInv, TableTypes
<1>3. CASE RefreshAlarms
    <2>1. UNCHANGED <<alarmVars, eventVars>>
        BY <1>3 DEF RefreshAlarms, NoteGeneration, ReadCount, ReadAlarm
    <2> QED BY <1>1, <1>3, <2>1, RefreshPage
<1>4. CASE UNCHANGED alarmDisplayVars
    <2>1. UNCHANGED <<alarmVars, eventVars>> /\ UNCHANGED displayVars
        BY <1>4 DEF alarmDisplayVars
    <2>2. TableInv'
        BY <1>1, <2>1
    <2>3. UNCHANGED <<alarms, alarm_generation>>
        BY <2>1 DEF alarmVars
    <2> QED BY <2>1, <2>2, <2>3, OutdatedPage DEF TableInv, TableTypes
<1> QED BY <1>2, <1>3, <1>4 DEF AlarmDisplayNext

\* Whatever is reported, lost or read in between: what the page has read agrees with
\* the table it read, and the table with what the session was told
\* (rebuild_alarm_list, data_model_update_alarm).
THEOREM AlarmInvHolds == AlarmDisplaySpec => [](PageInv /\ TableInv)
BY PageInit, TableInit, AlarmNext, PTL DEF AlarmDisplaySpec

\* A page whose generation is current shows exactly the active alarms, although
\* the client may store an event between any two of its reads
\* (refresh_timer_callback, rebuild_alarm_list).
THEOREM AlarmPageIsCurrentHolds == AlarmDisplaySpec => []AlarmPageIsCurrent
<1>1. PageInv => AlarmPageIsCurrent
    BY DEF PageInv, PageShows, AlarmPageIsCurrent
<1> QED BY <1>1, AlarmInvHolds, PTL

\* In a session whose events have arrived the table shows no alarm that does not
\* stand at the server, and as long as all raised alarms had room every standing one
\* the session was told of (data_model_update_alarm, event_notification_callback).
THEOREM AlarmTableFollowsServerHolds == AlarmDisplaySpec => []AlarmTableFollowsServer
<1>1. TableInv => AlarmTableFollowsServer
    <2> DEFINE shown == {alarms[i].key : i \in ActiveSlots}
    <2> SUFFICES ASSUME TableInv, session = "live", transitions = <<>>, notifications = <<>>,
                        ~discarded
                 PROVE  /\ shown \subseteq active_alarms
                        /\ Cardinality(known) <= AlarmCapacity => shown = active_alarms \cap known
        BY DEF AlarmTableFollowsServer
    <2>1. \A i \in DOMAIN alarms : alarms[i].active <=> alarms[i].key \in active_alarms
        BY DEF TableInv, SlotsTell, Pending, Tells
    <2>2. shown = SlotKeys \cap active_alarms
        BY <2>1 DEF ActiveSlots, SlotKeys
    <2>3. Cardinality(known) <= AlarmCapacity => SlotKeys = known
        BY DEF TableInv, SlotsInv
    <2> QED BY <2>2, <2>3
<1> QED BY <1>1, AlarmInvHolds, PTL

----------------------------------------------------------------------------
(* What an index reads.  The active slots, counted up to a slot, number    *)
(* them: each index up to the count reads one of them, and each of them is *)
(* read by its own.                                                        *)

Rank(i) == Cardinality({j \in ActiveSlots : j <= i})

LEMMA LeastNumber ==
    ASSUME NEW S \in SUBSET Nat, S # {}
    PROVE  \E m \in S : \A k \in S : m <= k
<1>1. PICK m \in S : \A k \in S : ~(<<k, m>> \in OpToRel(<, Nat))
    BY NatLessThanWellFounded, WFMin, Zenon
<1>2. \A k \in S : ~(k < m)
    BY <1>1 DEF OpToRel
<1> QED BY <1>2

LEMMA ActiveSlotsFinite ==
    ASSUME alarms \in Seq(AlarmEntry)
    PROVE  /\ \A i \in ActiveSlots : i \in Nat /\ 0 < i /\ i <= Len(alarms)
           /\ Len(alarms) \in Nat /\ IsFiniteSet(ActiveSlots) /\ ActiveAlarmCount \in Nat
<1>1. ActiveSlots \subseteq 1..Len(alarms) /\ Len(alarms) \in Nat
    BY LenProperties DEF ActiveSlots
<1>2. IsFiniteSet(1..Len(alarms))
    BY <1>1, FS_Interval
<1>3. IsFiniteSet(ActiveSlots)
    BY <1>1, <1>2, FS_Subset
<1> QED BY <1>1, <1>3, CountType

\* The rank begins at nothing, ends at the count, and grows by one at the active slots.
LEMMA RankSteps ==
    ASSUME alarms \in Seq(AlarmEntry)
    PROVE  /\ \A i \in Nat : Rank(i) \in Nat
           /\ Rank(0) = 0 /\ Rank(Len(alarms)) = ActiveAlarmCount
           /\ \A i \in Nat \ {0} :
                 Rank(i) = IF i \in ActiveSlots THEN Rank(i - 1) + 1 ELSE Rank(i - 1)
<1>1. /\ \A j \in ActiveSlots : j \in Nat /\ 0 < j /\ j <= Len(alarms)
      /\ Len(alarms) \in Nat /\ IsFiniteSet(ActiveSlots)
    BY ActiveSlotsFinite
<1> DEFINE upTo(i) == {j \in ActiveSlots : j <= i}
<1>2. \A i \in Nat : IsFiniteSet(upTo(i)) /\ Cardinality(upTo(i)) \in Nat
    BY <1>1, FS_Subset, FS_CardinalityType
<1>3. upTo(0) = {} /\ upTo(Len(alarms)) = ActiveSlots
    BY <1>1
<1>4. ASSUME NEW i \in Nat \ {0}
      PROVE  Rank(i) = IF i \in ActiveSlots THEN Rank(i - 1) + 1 ELSE Rank(i - 1)
    <2>1. CASE i \in ActiveSlots
        <3>0. \A j \in ActiveSlots : j <= i <=> j <= i - 1 \/ j = i
            BY <1>1
        <3>1. upTo(i) = upTo(i - 1) \cup {i} /\ i \notin upTo(i - 1)
            <4>1. i \notin upTo(i - 1)
                OBVIOUS
            <4>2. \A j : j \in upTo(i) <=> j \in upTo(i - 1) \cup {i}
                BY <2>1, <3>0
            <4> QED BY <4>1, <4>2
        <3>2. IsFiniteSet(upTo(i - 1)) /\ i - 1 \in Nat
            BY <1>2
        <3> HIDE DEF upTo
        <3>3. Cardinality(upTo(i)) = Cardinality(upTo(i - 1)) + 1
            BY <3>1, <3>2, FS_AddElement
        <3> QED BY <2>1, <3>3 DEF Rank, upTo
    <2>2. CASE i \notin ActiveSlots
        <3>1. upTo(i) = upTo(i - 1)
            BY <1>1, <2>2
        <3> QED BY <2>2, <3>1 DEF Rank
    <2> QED BY <2>1, <2>2
<1>5. Rank(0) = 0 /\ Rank(Len(alarms)) = ActiveAlarmCount
    BY <1>3, FS_EmptySet DEF Rank, ActiveAlarmCount
<1> QED BY <1>2, <1>4, <1>5 DEF Rank

\* Two active slots have two ranks.
LEMMA RankOfSlot ==
    ASSUME alarms \in Seq(AlarmEntry), NEW i \in ActiveSlots
    PROVE  /\ Rank(i) \in 1..ActiveAlarmCount
           /\ \A k \in ActiveSlots : Rank(k) = Rank(i) => k = i
<1>1. /\ \A j \in ActiveSlots : j \in Nat /\ 0 < j /\ j <= Len(alarms)
      /\ IsFiniteSet(ActiveSlots) /\ ActiveAlarmCount \in Nat
    BY ActiveSlotsFinite
<1> DEFINE upTo(k) == {j \in ActiveSlots : j <= k}
<1>2. \A k \in Nat : IsFiniteSet(upTo(k)) /\ upTo(k) \subseteq ActiveSlots
    BY <1>1, FS_Subset
<1>3. Rank(i) <= ActiveAlarmCount
    BY <1>1, <1>2, FS_Subset DEF Rank, ActiveAlarmCount
<1>4. Rank(i) = Rank(i - 1) + 1 /\ Rank(i - 1) \in Nat
    <2>1. i \in Nat \ {0} /\ i - 1 \in Nat
        BY <1>1
    <2>2. Rank(i) = IF i \in ActiveSlots THEN Rank(i - 1) + 1 ELSE Rank(i - 1)
        BY <2>1, RankSteps, Zenon
    <2>3. Rank(i - 1) \in Nat
        BY <2>1, RankSteps, Zenon
    <2> QED BY <2>2, <2>3, Zenon
<1>5. ASSUME NEW k \in ActiveSlots, NEW l \in ActiveSlots, k < l
      PROVE  Rank(k) # Rank(l)
    <2>1. upTo(k) \subseteq upTo(l) /\ l \in upTo(l) /\ l \notin upTo(k)
        BY <1>1, <1>5
    <2>2. IsFiniteSet(upTo(l))
        BY <1>1, <1>2
    <2> HIDE DEF upTo
    <2>3. Cardinality(upTo(k)) # Cardinality(upTo(l))
        BY <2>1, <2>2, FS_Subset
    <2> QED BY <2>3 DEF Rank, upTo
<1>6. \A k \in ActiveSlots : Rank(k) = Rank(i) => k = i
    BY <1>1, <1>5
<1> QED BY <1>1, <1>3, <1>4, <1>6

\* Every index up to the count is the rank of an active slot, which it reads.
LEMMA ActiveAlarmFound ==
    ASSUME alarms \in Seq(AlarmEntry), NEW index \in 1..ActiveAlarmCount
    PROVE  \E i \in ActiveSlots : Rank(i) = index
<1>1. ActiveAlarmCount \in Nat /\ Len(alarms) \in Nat
    BY ActiveSlotsFinite
<1> DEFINE S == {i \in Nat : Rank(i) >= index}
<1>2. Len(alarms) \in S
    BY <1>1, RankSteps
<1>3. PICK i \in S : \A k \in S : i <= k
    <2> HIDE DEF S
    <2>1. S # {}
        BY <1>2
    <2>2. S \in SUBSET Nat
        BY DEF S
    <2> QED BY <2>1, <2>2, LeastNumber
<1>4. i # 0
    BY <1>1, RankSteps
<1>5. i - 1 \in Nat /\ ~(Rank(i - 1) >= index)
    BY <1>3, <1>4
<1>6. Rank(i - 1) \in Nat /\ Rank(i) = IF i \in ActiveSlots THEN Rank(i - 1) + 1 ELSE Rank(i - 1)
    BY <1>4, <1>5, RankSteps
<1> QED BY <1>1, <1>5, <1>6

LEMMA ActiveAlarmReads ==
    ASSUME alarms \in Seq(AlarmEntry), NEW i \in ActiveSlots
    PROVE  ActiveAlarm(Rank(i)) = alarms[i]
<1>1. \A k \in ActiveSlots : Rank(k) = Rank(i) => k = i
    BY RankOfSlot
<1>2. i = CHOOSE k \in ActiveSlots : Rank(k) = Rank(i)
    BY <1>1
<1> QED BY <1>2 DEF ActiveAlarm, Rank

\* The page: a current one lists each active alarm, and lists it once.
PageListsActiveAlarms ==
    reading = NotReading /\ observed_alarm_generation = alarm_generation =>
        /\ {alarms_host[n] : n \in DOMAIN alarms_host} = {alarms[i].key : i \in ActiveSlots}
        /\ \A m, n \in DOMAIN alarms_host : alarms_host[m] = alarms_host[n] => m = n

\* Between two refreshes a page whose generation is current has one card for each
\* active alarm and no other, whatever the order of its slots
\* (data_model_get_active_alarm, rebuild_alarm_list).
THEOREM AlarmPageListsActiveAlarms == AlarmDisplaySpec => []PageListsActiveAlarms
<1>1. PageInv /\ TableInv => PageListsActiveAlarms
    <2> SUFFICES ASSUME PageInv, TableInv, reading = NotReading,
                        observed_alarm_generation = alarm_generation
                 PROVE  PageListsActiveAlarms
        BY DEF PageListsActiveAlarms
    <2>1. alarms \in Seq(AlarmEntry) /\ PageShows(ActiveAlarmCount)
        BY DEF PageInv
    <2>2. DOMAIN alarms_host = 1..ActiveAlarmCount
        BY <2>1, LenProperties DEF PageInv, PageIsSequence, PageShows
    <2>3. ASSUME NEW n \in DOMAIN alarms_host
          PROVE  \E i \in ActiveSlots : Rank(i) = n /\ alarms_host[n] = alarms[i].key
        BY <2>1, <2>2, ActiveAlarmFound, ActiveAlarmReads DEF PageShows
    <2>4. ASSUME NEW i \in ActiveSlots
          PROVE  Rank(i) \in DOMAIN alarms_host /\ alarms_host[Rank(i)] = alarms[i].key
        BY <2>1, <2>2, RankOfSlot, ActiveAlarmReads DEF PageShows
    <2>5. \A i, j \in ActiveSlots : alarms[i].key = alarms[j].key => i = j
        BY DEF ActiveSlots, TableInv, SlotsInv
    <2>6. \A m, n \in DOMAIN alarms_host : alarms_host[m] = alarms_host[n] => m = n
        BY <2>3, <2>5
    <2>7. {alarms_host[n] : n \in DOMAIN alarms_host} = {alarms[i].key : i \in ActiveSlots}
        BY <2>3, <2>4
    <2> QED BY <2>6, <2>7 DEF PageListsActiveAlarms
<1> QED BY <1>1, AlarmInvHolds, PTL

----------------------------------------------------------------------------
(* The types of table and page: what a card says was in a slot, and a slot *)
(* is only taken while there is one.                                       *)

CardsInv ==
    /\ Len(alarms) <= AlarmCapacity
    /\ alarms_host \in Seq(AlarmKeys)
    /\ reading.count > 0 => reading.next > 0

LEMMA CardsInit == AlarmDisplayInit => CardsInv
BY AlarmAssumption, EmptySeq
    DEF AlarmDisplayInit, AlarmEventsInit, AlarmInit, CardsInv, NotReading

\* The table grows only within its capacity.
LEMMA TableBound ==
    ASSUME TableInv, Len(alarms) <= AlarmCapacity, AlarmEventsNext
    PROVE  Len(alarms') <= AlarmCapacity
<1>1. alarms \in Seq(AlarmEntry) /\ Len(alarms) \in Nat /\ AlarmCapacity \in Nat
    BY LenProperties, AlarmAssumption DEF TableInv, TableTypes
<1>2. CASE ReceiveEvent
    <2> DEFINE news == Head(notifications)
    <2>1. UpdateAlarm(news.key, news.active)
        BY <1>2 DEF ReceiveEvent
    <2>2. ASSUME NEW i \in DOMAIN alarms, alarms' = [alarms EXCEPT ![i].active = news.active]
          PROVE  Len(alarms') = Len(alarms)
        BY <1>1, <2>2
    <2>3. ASSUME Len(alarms) < AlarmCapacity,
                 alarms' = Append(alarms, [key |-> news.key, active |-> TRUE])
          PROVE  Len(alarms') = Len(alarms) + 1
        BY <1>1, <2>3
    <2> HIDE DEF news
    <2>4. \/ \E i \in DOMAIN alarms : alarms' = [alarms EXCEPT ![i].active = news.active]
          \/ /\ Len(alarms) < AlarmCapacity
             /\ alarms' = Append(alarms, [key |-> news.key, active |-> TRUE])
          \/ alarms' = alarms
        BY <2>1 DEF UpdateAlarm, SlotsOf
    <2> QED BY <1>1, <2>2, <2>3, <2>4
<1>3. CASE DiscoverAnew
    BY <1>1, <1>3 DEF DiscoverAnew, ClearAlarms
<1>4. CASE ServerCycle \/ ServerReports \/ CreateEventSubscriptions \/ SessionEnds
    BY <1>4 DEF ServerCycle, ServerReports, CreateEventSubscriptions, SessionEnds, alarmVars
<1> QED BY <1>2, <1>3, <1>4 DEF AlarmEventsNext

LEMMA CardsNext ==
    PageInv /\ TableInv /\ CardsInv /\ [AlarmDisplayNext]_alarmDisplayVars => CardsInv'
<1> SUFFICES ASSUME PageInv, TableInv, CardsInv, [AlarmDisplayNext]_alarmDisplayVars
             PROVE  CardsInv'
    OBVIOUS
<1>1. CASE Report
    BY <1>1, TableBound DEF Report, displayVars, CardsInv
<1>2. CASE NoteGeneration \/ ReadCount
    <2>1. UNCHANGED alarms /\ (alarms_host' = alarms_host \/ alarms_host' = <<>>)
        BY <1>2 DEF NoteGeneration, ReadCount, alarmVars
    <2>2. reading'.count > 0 => reading'.next > 0
        BY <1>2 DEF NoteGeneration, ReadCount, AlarmClearState, NotReading, PageInv
    <2> QED BY <2>1, <2>2, EmptySeq DEF CardsInv
<1>3. CASE ReadAlarm
    <2>1. /\ reading.count > 0 /\ UNCHANGED alarms
          /\ alarms_host' = IF reading.next <= ActiveAlarmCount
                            THEN Append(alarms_host, ActiveAlarm(reading.next).key)
                            ELSE alarms_host
          /\ reading' = IF reading.next < reading.count
                        THEN [reading EXCEPT !.next = reading.next + 1] ELSE NotReading
        BY <1>3 DEF ReadAlarm, alarmVars
    <2>2. reading'.count > 0 => reading'.next > 0
        BY <2>1 DEF NotReading, PageInv
    <2>3. ASSUME reading.next <= ActiveAlarmCount
          PROVE  ActiveAlarm(reading.next).key \in AlarmKeys
        <3>1. alarms \in Seq(AlarmEntry) /\ ActiveAlarmCount \in Nat
            BY CountType DEF PageInv
        <3>2. reading.next \in 1..ActiveAlarmCount
            BY <2>1, <2>3, <3>1 DEF CardsInv, PageInv
        <3>3. PICK i \in ActiveSlots : Rank(i) = reading.next
            BY <3>1, <3>2, ActiveAlarmFound
        <3>4. ActiveAlarm(reading.next) = alarms[i]
            BY <3>1, <3>3, ActiveAlarmReads
        <3>5. alarms[i] \in AlarmEntry
            BY <3>1, ElementOfSeq DEF ActiveSlots
        <3> QED BY <3>4, <3>5 DEF AlarmEntry
    <2>4. alarms_host' \in Seq(AlarmKeys)
        <3> DEFINE shown_card == ActiveAlarm(reading.next).key
        <3>1. CASE reading.next <= ActiveAlarmCount
            <4>1. shown_card \in AlarmKeys /\ alarms_host' = Append(alarms_host, shown_card)
                BY <2>1, <2>3, <3>1
            <4> HIDE DEF shown_card
            <4> QED BY <4>1, AppendProperties DEF CardsInv
        <3>2. CASE ~(reading.next <= ActiveAlarmCount)
            BY <2>1, <3>2 DEF CardsInv
        <3> QED BY <3>1, <3>2
    <2> QED BY <2>1, <2>2, <2>4 DEF CardsInv
<1>4. CASE UNCHANGED alarmDisplayVars
    BY <1>4 DEF alarmDisplayVars, alarmVars, displayVars, CardsInv
<1> QED BY <1>1, <1>2, <1>3, <1>4 DEF AlarmDisplayNext, RefreshAlarms

\* Table and page keep their types, the table its bound, and every card is an
\* alarm's, also in a page that is outdated while it is built
\* (data_model_get_active_alarm, rebuild_alarm_list).
THEOREM AlarmTypes == AlarmDisplaySpec => []AlarmTypeOK
<1>1. AlarmDisplaySpec => []CardsInv
    BY CardsInit, CardsNext, AlarmInvHolds, PTL DEF AlarmDisplaySpec
<1>2. PageInv /\ CardsInv => AlarmTypeOK
    BY DEF PageInv, CardsInv, AlarmTypeOK
<1> QED BY <1>1, <1>2, AlarmInvHolds, PTL
=============================================================================
