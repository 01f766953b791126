------------------------------ MODULE DataModel ------------------------------
(***************************************************************************)
(* components/data_model: the discovered objects and tags with their       *)
(* values, and the generations by which readers notice a change.  Every    *)
(* operation runs under the model's mutex and is one step.  Indices are    *)
(* one-based and a root has parent 0.  Generations are uint32 in the code: *)
(* that 2^32 changes go by between two looks is not modelled.              *)
(***************************************************************************)
EXTENDS AlarmTable, EntityKinds

CONSTANTS
    Nodes,              \* NodeIds of objects and variables
    Values,             \* values a tag can take
    SemanticRoles,      \* roles of the tags
    EquipmentCapacity,
    TagCapacity

ASSUME DataModelAssumption == EquipmentCapacity \in Nat /\ TagCapacity \in Nat

VARIABLES
    equipment,                \* sequence of [node, parent, explicit, kind]
    tags,                     \* sequence of [node, equipment, semantic_role, writable, value]
    structure_generation,
    value_generation,
    structure_update_active,
    structure_dirty

structureVars == <<equipment, tags, structure_generation,
                   structure_update_active, structure_dirty>>
modelVars == <<structureVars, value_generation, alarmVars>>

\* The part of the model the structure generation stands for: all but the values.
Structure ==
    [equipment |-> equipment,
     tags |-> [i \in DOMAIN tags |->
                [node |-> tags[i].node, equipment |-> tags[i].equipment,
                 semantic_role |-> tags[i].semantic_role, writable |-> tags[i].writable]]]

EquipmentEntry == [node : Nodes, parent : Nat, explicit : BOOLEAN, kind : Kinds]
TagEntry ==
    [node : Nodes, equipment : Nat, semantic_role : SemanticRoles,
     writable : BOOLEAN, value : Values]

DataModelInit ==
    /\ equipment = <<>> /\ tags = <<>>
    /\ structure_generation = 1
    /\ value_generation = 0
    /\ structure_update_active = FALSE
    /\ structure_dirty = FALSE
    /\ AlarmInit

----------------------------------------------------------------------------
\* The operations.

\* Mutant: a change inside a batch is not remembered.
MarkOnlyOutsideBatch ==
    /\ structure_generation' = structure_generation + (IF structure_update_active THEN 0 ELSE 1)
    /\ UNCHANGED structure_dirty

\* mark_structure_changed: a batch announces its changes when it ends.
MarkStructureChanged ==
    IF structure_update_active
    THEN structure_dirty' = TRUE /\ UNCHANGED structure_generation
    ELSE structure_dirty' = FALSE /\ structure_generation' = structure_generation + 1

\* data_model_begin_structure_update.
Begin ==
    /\ structure_update_active' = TRUE
    /\ structure_dirty' = FALSE
    /\ UNCHANGED <<equipment, tags, structure_generation, value_generation, alarmVars>>

\* data_model_clear: structure, values and alarms at once.
Clear ==
    /\ equipment' = <<>> /\ tags' = <<>>
    /\ ClearAlarms
    /\ MarkStructureChanged
    /\ value_generation' = value_generation + 1
    /\ UNCHANGED structure_update_active

Classified == ClassifyEntities(equipment, tags)

\* data_model_end_structure_update: classify and announce what the batch changed.
End ==
    /\ IF structure_update_active /\ structure_dirty
       THEN /\ equipment' = Classified
            /\ structure_generation' = structure_generation + 1
       ELSE UNCHANGED <<equipment, structure_generation>>
    /\ structure_update_active' = FALSE
    /\ structure_dirty' = FALSE
    /\ UNCHANGED <<tags, value_generation, alarmVars>>

\* Mutant: the tag table is not bounded.
AddTagUnbounded(tag) ==
    /\ tags' = Append(tags, tag)
    /\ MarkStructureChanged
    /\ UNCHANGED <<equipment, value_generation, structure_update_active, alarmVars>>

\* data_model_add_equipment and data_model_add_tag: a full table refuses.
AddEquipment(object) ==
    /\ Len(equipment) < EquipmentCapacity
    /\ equipment' = Append(equipment, object)
    /\ MarkStructureChanged
    /\ UNCHANGED <<tags, value_generation, structure_update_active, alarmVars>>

AddTag(tag) ==
    /\ Len(tags) < TagCapacity
    /\ tags' = Append(tags, tag)
    /\ MarkStructureChanged
    /\ UNCHANGED <<equipment, value_generation, structure_update_active, alarmVars>>

\* Mutant: the change is not counted.
UpdateValueQuietly(i, value) ==
    /\ i \in DOMAIN tags
    /\ tags' = [tags EXCEPT ![i].value = value]
    /\ UNCHANGED <<equipment, structure_generation, value_generation,
                   structure_update_active, structure_dirty, alarmVars>>

\* data_model_update_value.
UpdateValue(i, value) ==
    /\ i \in DOMAIN tags
    /\ tags' = [tags EXCEPT ![i].value = value]
    /\ value_generation' = value_generation + 1
    /\ UNCHANGED <<equipment, structure_generation, structure_update_active,
                   structure_dirty, alarmVars>>

----------------------------------------------------------------------------
\* Properties.

\* Every variable keeps its type.
DataModelTypeOK ==
    /\ equipment \in Seq(EquipmentEntry) /\ tags \in Seq(TagEntry)
    /\ structure_generation \in Nat /\ value_generation \in Nat
    /\ structure_update_active \in BOOLEAN /\ structure_dirty \in BOOLEAN
    /\ Len(equipment) <= EquipmentCapacity /\ Len(tags) <= TagCapacity
=============================================================================
