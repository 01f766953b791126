---------------------------- MODULE AlarmDisplay ----------------------------
(***************************************************************************)
(* The alarm page (ui_generator.c, refresh_timer_callback and              *)
(* rebuild_alarm_list) over the alarm table.  The LVGL task reads the      *)
(* generation, the number of active alarms and each alarm under separate   *)
(* locks; the client task stores alarm events in between.                  *)
(***************************************************************************)
EXTENDS AlarmEvents

VARIABLES
    observed_alarm_generation,
    alarms_host,                \* the keys of the cards on the alarm page
    reading                     \* alarms to read: [next, count]; next = 0: none

displayVars == <<observed_alarm_generation, alarms_host, reading>>
alarmDisplayVars == <<alarmVars, eventVars, displayVars>>

NotReading == [next |-> 0, count |-> 0]

AlarmDisplayInit ==
    /\ AlarmEventsInit
    /\ observed_alarm_generation = 0
    /\ alarms_host = <<>>
    /\ reading = NotReading

\* The client task and the server.
Report == AlarmEventsNext /\ UNCHANGED displayVars

\* Mutant: the page is rebuilt and the generation not noted.
RebuildWithoutNote ==
    /\ reading = NotReading /\ alarm_generation # observed_alarm_generation
    /\ alarms_host' = <<>>
    /\ reading' = [next |-> 1, count |-> 0]
    /\ UNCHANGED <<alarmVars, eventVars, observed_alarm_generation>>

\* The refresh timer finds another generation, notes it and empties the page.
NoteGeneration ==
    /\ reading = NotReading /\ alarm_generation # observed_alarm_generation
    /\ observed_alarm_generation' = alarm_generation
    /\ alarms_host' = <<>>
    /\ reading' = [next |-> 1, count |-> 0]
    /\ UNCHANGED <<alarmVars, eventVars>>

\* create_alarm_clear_state: a card that says that all is normal.
AlarmClearState == reading' = NotReading

\* data_model_active_alarm_count.  Without objects the page shows no alarm either;
\* alarms come only of objects and are cleared with them.
ReadCount ==
    /\ reading.next = 1 /\ reading.count = 0 /\ alarms_host = <<>>
    /\ IF ActiveAlarmCount = 0 THEN AlarmClearState
       ELSE reading' = [reading EXCEPT !.count = ActiveAlarmCount]
    /\ UNCHANGED <<alarmVars, eventVars, observed_alarm_generation, alarms_host>>

\* data_model_get_active_alarm: an index beyond the active alarms is passed over.
ReadAlarm ==
    /\ reading.count > 0
    /\ alarms_host' = IF reading.next <= ActiveAlarmCount
                      THEN Append(alarms_host, ActiveAlarm(reading.next).key)
                      ELSE alarms_host
    /\ reading' = IF reading.next < reading.count
                  THEN [reading EXCEPT !.next = reading.next + 1] ELSE NotReading
    /\ UNCHANGED <<alarmVars, eventVars, observed_alarm_generation>>

RefreshAlarms == NoteGeneration \/ ReadCount \/ ReadAlarm

AlarmDisplayNext == Report \/ RefreshAlarms

\* The refresh timer fires again and again, and a callback once begun ends.
AlarmDisplaySpec ==
    /\ AlarmDisplayInit /\ [][AlarmDisplayNext]_alarmDisplayVars
    /\ WF_alarmDisplayVars(RefreshAlarms)

----------------------------------------------------------------------------
\* Properties.

\* Every variable keeps its type and the table its bound.
AlarmTypeOK ==
    /\ alarms \in Seq(AlarmEntry) /\ Len(alarms) <= AlarmCapacity
    /\ alarm_generation \in Nat /\ observed_alarm_generation \in Nat
    /\ alarms_host \in Seq(AlarmKeys)
    /\ reading \in [next : Nat, count : Nat]

\* In a session whose events have arrived the table shows no alarm that does not
\* stand at the server, and until more keys than slots were raised it shows every
\* standing alarm the session was told of.  It cannot show more: an alarm raised
\* before the session, or on an object that is not monitored, stays unseen
\* (data_model_update_alarm, data_model_clear, create_event_subscriptions).
AlarmTableFollowsServer ==
    LET shown == {alarms[i].key : i \in ActiveSlots} IN
    session = "live" /\ transitions = <<>> /\ notifications = <<>> /\ ~discarded =>
        /\ shown \subseteq active_alarms
        /\ Cardinality(known) <= AlarmCapacity => shown = active_alarms \cap known

\* A page whose generation is current shows exactly the active alarms, although
\* count and alarms were read under separate locks while events came in
\* (refresh_timer_callback, rebuild_alarm_list).
AlarmPageIsCurrent ==
    reading = NotReading /\ observed_alarm_generation = alarm_generation
        => /\ Len(alarms_host) = ActiveAlarmCount
           /\ \A i \in DOMAIN alarms_host : alarms_host[i] = ActiveAlarm(i).key

\* When events cease, the page comes to show the active alarms and keeps to them.
AlarmPageCatchesUp ==
    <>[][UNCHANGED alarmVars]_alarmDisplayVars
        => <>[](reading = NotReading /\ observed_alarm_generation = alarm_generation)
=============================================================================
