--------------------------- MODULE EquipmentPage ---------------------------
(***************************************************************************)
(* The pages that ui_equipment.c generates from a data model: a card for   *)
(* every physical asset on the equipment page, one for every object with   *)
(* something to write on the controls page, and on the cards a badge for   *)
(* the operating state, controls, and on the first page measurements.      *)
(*                                                                         *)
(* model: [equipment, tags] as NodeMetadata!Discover returns it.           *)
(***************************************************************************)
EXTENDS EntityKinds, SequencesExt

\* The first tag with the role, 0 if there is none.
FindTagByRole(model, equipment, role) ==
    SelectInSeq(model.tags, LAMBDA tag : tag.equipment = equipment /\ tag.semantic_role = role)

IsStatusRole(tag) == tag.semantic_role \in {"operating_status", "alarm_status"}

\* The tags of an object, in the order of the model.
TagsOf(model, equipment) ==
    SelectSeq([t \in DOMAIN model.tags |-> t],
              LAMBDA t : model.tags[t].equipment = equipment)

CreateControl(model, t) ==
    [tag |-> t,
     type |-> CASE model.tags[t].data_type = "BOOLEAN" -> "SWITCH"
                [] model.tags[t].data_type \in {"INTEGER", "FLOAT", "DOUBLE"} -> "SLIDER"
                [] OTHER -> "VALUE"]

CreateMetric(model, t) == [tag |-> t, type |-> "VALUE"]

Controls(model, equipment) ==
    LET writable == SelectSeq(TagsOf(model, equipment), LAMBDA t : model.tags[t].writable)
    IN  [k \in DOMAIN writable |-> CreateControl(model, writable[k])]

Metrics(model, equipment) ==
    LET Measured(tag) == tag.readable /\ ~tag.writable /\ ~IsStatusRole(tag)
        measured == SelectSeq(TagsOf(model, equipment), LAMBDA t : Measured(model.tags[t]))
    IN  [k \in DOMAIN measured |-> CreateMetric(model, measured[k])]

\* create_equipment_header: the badge, with the tag that tells the state.
EquipmentHeader(model, equipment) ==
    [equipment |-> equipment, kind |-> model.equipment[equipment].kind,
     status |-> FindTagByRole(model, equipment, "operating_status")]

\* create_identity: the same badge on a card of the controls page.
Identity(model, equipment) == EquipmentHeader(model, equipment)

EquipmentCard(model, equipment) ==
    [badge |-> EquipmentHeader(model, equipment),
     bindings |-> Controls(model, equipment) \o Metrics(model, equipment)]

ControlsCard(model, equipment) ==
    [badge |-> Identity(model, equipment), bindings |-> Controls(model, equipment)]

\* ui_equipment_create: the cards of a page.
CreateView(model, mode) ==
    LET objects == [i \in DOMAIN model.equipment |-> i]
        Listed(i) == IF mode = "details" THEN IsEquipment(model.equipment[i].kind)
                     ELSE Controls(model, i) # <<>>
        listed == SelectSeq(objects, Listed)
    IN  [k \in DOMAIN listed |->
            IF mode = "details" THEN EquipmentCard(model, listed[k])
            ELSE ControlsCard(model, listed[k])]
=============================================================================
