---------------------------- MODULE StationNodes ----------------------------
(***************************************************************************)
(* The address space of the simulator (simulator/opcua_server.py and       *)
(* configuration/equipment.yaml): objects, their variables, and the        *)
(* properties that describe both.  One of the three compressors, which are *)
(* alike, stands for all.                                                  *)
(***************************************************************************)
EXTENDS Sequences

Property(name, type, value) == [name |-> name, type |-> type, value |-> value]

\* The simulator writes what a variable means and, for a measurement, its range.
DescribeNode(role, measured) ==
    {Property("SemanticRole", "String", role)} \union
        (IF measured THEN {Property("EngineeringUnit", "String", "unit"),
                           Property("Minimum", "Float", "low"),
                           Property("Maximum", "Float", "high")}
         ELSE {})

FloatVariable(name, role) ==
    [name |-> name, type |-> "Float", writable |-> FALSE,
     properties |-> DescribeNode(role, TRUE)]

BooleanVariable(name, role, writable) ==
    [name |-> name, type |-> "Boolean", writable |-> writable,
     properties |-> DescribeNode(role, FALSE)]

EntityKindProperty(kind) == {Property("EntityKind", "String", kind)}

\* Every object hangs below the station, which is object 1.
EquipmentObject(name, kind, variables) ==
    [name |-> name, parent |-> 1, properties |-> EntityKindProperty(kind),
     variables |-> variables]

CompressorObject ==
    EquipmentObject("compressor", "ActiveEquipment",
        <<FloatVariable("temperature", "temperature"),
          FloatVariable("motor_current", "motor_current"),
          FloatVariable("runtime", "runtime"),
          BooleanVariable("run_status", "operating_status", FALSE),
          BooleanVariable("run_command", "operating_command", TRUE),
          BooleanVariable("automatic_mode", "automatic_mode", TRUE),
          BooleanVariable("alarm_status", "alarm_status", FALSE),
          BooleanVariable("sensor_fault_command", "fault_command", TRUE)>>)

\* _build_address_space.
AddressSpace ==
    <<[name |-> "station", parent |-> 0, properties |-> EntityKindProperty("System"),
       variables |-> <<BooleanVariable("reset_alarms", "alarm_reset_command", TRUE)>>],
      CompressorObject,
      EquipmentObject("receiver", "PassiveEquipment",
          <<FloatVariable("receiver_pressure", "pressure")>>),
      EquipmentObject("dryer", "ActiveEquipment",
          <<BooleanVariable("dryer_status", "operating_status", FALSE)>>),
      EquipmentObject("air_network", "Process",
          <<FloatVariable("network_pressure", "pressure"),
            FloatVariable("air_demand", "demand"),
            FloatVariable("total_power", "power")>>)>>
=============================================================================
