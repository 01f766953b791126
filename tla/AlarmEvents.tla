---------------------------- MODULE AlarmEvents ----------------------------
(***************************************************************************)
(* Where the alarms come from: the server's events, the subscriptions a    *)
(* session makes for them (opcua_client.c, create_event_subscriptions) and *)
(* the notifications it takes (event_notification_callback).  An event is  *)
(* reported once, to the session there is; nothing asks for the alarms     *)
(* that stand when a session begins, and the table an ended session leaves *)
(* behind stays until the next discovery clears it.                        *)
(***************************************************************************)
EXTENDS AlarmTable

CONSTANTS
    NotificationLimit,      \* the queue size a monitored item asks for
    MaxAlarmGeneration      \* bound: no event or discovery is taken beyond it

ASSUME AlarmEventsAssumption ==
    NotificationLimit \in Nat \ {0} /\ MaxAlarmGeneration \in Nat

VARIABLES
    active_alarms, transitions,     \* the server's, see FaultManager
    session,        \* "none", "browsed" (before the subscriptions) or "live"
    monitored,      \* the keys whose events the session gets
    notifications,  \* events on their way to the client
    discarded       \* history: the session lost an event to a full queue

Faults == INSTANCE FaultManager

faultVars == <<active_alarms, transitions>>
eventVars == <<faultVars, session, monitored, notifications, discarded>>

AlarmEventsInit ==
    /\ AlarmInit
    /\ Faults!FaultInit
    /\ session = "none" /\ monitored = {} /\ notifications = <<>> /\ discarded = FALSE

\* A full queue drops its oldest event.
Queued(event) ==
    LET events == Append(notifications, event)
    IN  IF Len(events) > NotificationLimit THEN Tail(events) ELSE events

\* The server decides on its alarms, or reports the next change.  An event nobody
\* monitors is gone.
ServerCycle ==
    /\ Faults!Evaluate \/ Faults!Reset
    /\ UNCHANGED <<alarmVars, session, monitored, notifications, discarded>>

ServerReports ==
    /\ Faults!EmitAlarmEvent
    /\ IF Faults!Emitted.key \in monitored
       THEN /\ notifications' = Queued(Faults!Emitted)
            /\ discarded' = (discarded \/ Len(notifications) = NotificationLimit)
       ELSE UNCHANGED <<notifications, discarded>>
    /\ UNCHANGED <<alarmVars, session, monitored>>

\* Mutant: a discovery leaves the alarms alone.
DiscoverKeepsAlarms ==
    /\ session = "none" /\ alarm_generation < MaxAlarmGeneration
    /\ session' = "browsed"
    /\ UNCHANGED <<alarmVars, faultVars, monitored, notifications, discarded>>

\* data_model_clear at the start of a discovery, which then succeeds.  A failed one
\* clears the table too and leaves no session.
DiscoverAnew ==
    /\ session = "none" /\ alarm_generation < MaxAlarmGeneration
    /\ ClearAlarms
    /\ session' \in {"browsed", "none"}
    /\ UNCHANGED <<faultVars, monitored, notifications, discarded>>

\* create_event_subscriptions: any object may turn out to notify nothing or refuse
\* to be monitored, and without the subscription or memory for a filter the rest
\* are left out.  The session goes on all the same.
CreateEventSubscriptions ==
    /\ session = "browsed"
    /\ session' = "live"
    /\ monitored' \in SUBSET AlarmKeys
    /\ UNCHANGED <<alarmVars, faultVars, notifications, discarded>>

\* event_notification_callback.  An event without source, code or state is ignored.
ReceiveEvent ==
    /\ notifications # <<>> /\ alarm_generation < MaxAlarmGeneration
    /\ UpdateAlarm(Head(notifications).key, Head(notifications).active)
    /\ notifications' = Tail(notifications)
    /\ UNCHANGED <<faultVars, session, monitored, discarded>>

\* A pause, a new endpoint or a lost connection: the subscription and what was on
\* its way are gone, the table stays as it is.
SessionEnds ==
    /\ session # "none"
    /\ session' = "none" /\ monitored' = {} /\ notifications' = <<>> /\ discarded' = FALSE
    /\ UNCHANGED <<alarmVars, faultVars>>

AlarmEventsNext ==
    \/ ServerCycle \/ ServerReports \/ DiscoverAnew \/ CreateEventSubscriptions
    \/ ReceiveEvent \/ SessionEnds
=============================================================================
