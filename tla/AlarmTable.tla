----------------------------- MODULE AlarmTable -----------------------------
(***************************************************************************)
(* The alarm table of components/data_model: slots for the alarms that     *)
(* were raised, each found again by its source and alarm code, and the     *)
(* generation readers watch.  Every operation runs under the model's mutex *)
(* and is one step.  An alarm's texts and severity are left out.           *)
(***************************************************************************)
EXTENDS Naturals, Sequences, FiniteSets

CONSTANTS
    AlarmKeys,          \* pairs of a source node and an alarm code
    AlarmCapacity       \* DATA_MODEL_MAX_ALARMS

ASSUME AlarmAssumption == AlarmCapacity \in Nat /\ IsFiniteSet(AlarmKeys)

VARIABLES
    alarms,             \* the used slots: sequence of [key, active]
    alarm_generation,
    known               \* history: keys raised since the table was cleared

alarmVars == <<alarms, alarm_generation, known>>

AlarmEntry == [key : AlarmKeys, active : BOOLEAN]

AlarmInit ==
    /\ alarms = <<>> /\ alarm_generation = 0 /\ known = {}

SlotsOf(key) == {i \in DOMAIN alarms : alarms[i].key = key}

NoteEvent(key, active) == known' = IF active THEN known \union {key} ELSE known

\* Mutant: only a raised alarm is announced.
UpdateAlarmQuietly(key, active) ==
    /\ \/ \E i \in SlotsOf(key) : alarms' = [alarms EXCEPT ![i].active = active]
       \/ /\ SlotsOf(key) = {} /\ active /\ Len(alarms) < AlarmCapacity
          /\ alarms' = Append(alarms, [key |-> key, active |-> TRUE])
    /\ alarm_generation' = alarm_generation + (IF active THEN 1 ELSE 0)
    /\ NoteEvent(key, active)

\* data_model_update_alarm: the key's own slot is overwritten, a cleared alarm
\* keeps it; a new key needs an active event and a slot never used before.
UpdateAlarm(key, active) ==
    /\ \/ /\ \E i \in SlotsOf(key) : alarms' = [alarms EXCEPT ![i].active = active]
          /\ alarm_generation' = alarm_generation + 1
       \/ /\ SlotsOf(key) = {} /\ active /\ Len(alarms) < AlarmCapacity
          /\ alarms' = Append(alarms, [key |-> key, active |-> TRUE])
          /\ alarm_generation' = alarm_generation + 1
       \/ /\ SlotsOf(key) = {} /\ (active => Len(alarms) >= AlarmCapacity)
          /\ UNCHANGED <<alarms, alarm_generation>>
    /\ NoteEvent(key, active)

\* data_model_clear_alarms, and the same lines of data_model_clear.
ClearAlarms ==
    /\ alarms' = <<>>
    /\ alarm_generation' = alarm_generation + 1
    /\ known' = {}

ActiveSlots == {i \in DOMAIN alarms : alarms[i].active}

\* data_model_active_alarm_count
ActiveAlarmCount == Cardinality(ActiveSlots)

\* data_model_get_active_alarm: the active slots, densely indexed.
ActiveAlarm(index) ==
    alarms[CHOOSE i \in ActiveSlots : Cardinality({j \in ActiveSlots : j <= i}) = index]
=============================================================================
