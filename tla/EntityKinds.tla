----------------------------- MODULE EntityKinds -----------------------------
(***************************************************************************)
(* How components/data_model tells the kinds of discovered objects apart:  *)
(* by what the server publishes, or else by children, commands and roles.  *)
(***************************************************************************)
EXTENDS Sequences

Kinds == {"UNKNOWN", "SYSTEM", "PROCESS", "ACTIVE", "PASSIVE", "GROUP"}

\* data_model_entity_is_equipment.
IsEquipment(kind) == kind \in {"ACTIVE", "PASSIVE"}

ProcessRoles == {"demand", "production_total", "consumption_total"}

\* The kind of object i among others, where none was published; every object that
\* has tags and nothing more is passive.
KindFrom(i, objects, variables) ==
    LET own == {t \in DOMAIN variables : variables[t].equipment = i} IN
    IF \E c \in DOMAIN objects : objects[c].parent = i THEN "SYSTEM"
    ELSE IF \E t \in own : variables[t].semantic_role \in ProcessRoles THEN "PROCESS"
    ELSE IF \E t \in own : \/ variables[t].writable
                           \/ variables[t].semantic_role = "operating_status" THEN "ACTIVE"
    ELSE IF own # {} THEN "PASSIVE"
    ELSE "GROUP"

\* classify_entities_locked.
ClassifyEntities(objects, variables) ==
    [i \in DOMAIN objects |->
        IF objects[i].explicit THEN objects[i]
        ELSE [objects[i] EXCEPT !.kind = KindFrom(i, objects, variables)]]
=============================================================================
