---------------------------- MODULE FaultManager ----------------------------
(***************************************************************************)
(* The alarms of the OPC UA server the repository brings along             *)
(* (simulator/fault_scenarios.py and the cycle of simulator/main.py).      *)
(* Alarms are latched: a condition raises one, only the reset command      *)
(* clears them, all together.  Each change is reported once, by an event   *)
(* of its own after the cycle has decided on all of them.                  *)
(*                                                                         *)
(* Temperatures, currents, pressures and their delays are left out: any    *)
(* set of alarm conditions may hold in any cycle.                          *)
(***************************************************************************)
EXTENDS SequencesExt

CONSTANT AlarmKeys      \* pairs of a source and an alarm code

VARIABLES
    active_alarms,      \* the keys of FaultManager.active_alarms
    transitions         \* changes whose events are still to be emitted

Transition(key, active) == [key |-> key, active |-> active]

FaultInit == active_alarms = {} /\ transitions = <<>>

\* The changes of these keys, in whatever order the rules or the dictionary of
\* active alarms give.
Reports(keys, active) ==
    {[i \in DOMAIN order |-> Transition(order[i], active)] : order \in SetToSeqs(keys)}

\* _set_alarm: a condition that holds latches its alarm, one that no longer holds
\* clears nothing.
Raised(conditions) == conditions \ active_alarms

\* evaluate, all rules of a cycle.
Evaluate ==
    /\ transitions = <<>>
    /\ \E conditions \in SUBSET AlarmKeys :
          /\ active_alarms' = active_alarms \union conditions
          /\ transitions' \in Reports(Raised(conditions), TRUE)

\* FaultManager.reset, for the reset_alarms command.
Reset ==
    /\ transitions = <<>> /\ active_alarms # {}
    /\ active_alarms' = {}
    /\ transitions' \in Reports(active_alarms, FALSE)

\* emit_alarm_event, for the next transition of the cycle.
Emitted == Head(transitions)
EmitAlarmEvent ==
    /\ transitions # <<>>
    /\ transitions' = Tail(transitions)
    /\ UNCHANGED active_alarms
=============================================================================
