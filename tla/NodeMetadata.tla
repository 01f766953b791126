---------------------------- MODULE NodeMetadata ----------------------------
(***************************************************************************)
(* What opcua_client.c makes of the objects and variables it discovers:    *)
(* their types, their access rights and the properties that describe them. *)
(* A property that cannot be read is passed over without a word, and the   *)
(* discovery succeeds without it.                                          *)
(*                                                                         *)
(* unread: pairs of a node's name and a property or "Value" that the       *)
(* server does not answer for.                                             *)
(***************************************************************************)
EXTENDS EntityKinds, SequencesExt

ParseEntityKind(text) ==
    LET published == [System |-> "SYSTEM", Process |-> "PROCESS", Group |-> "GROUP",
                      ActiveEquipment |-> "ACTIVE", PassiveEquipment |-> "PASSIVE"]
    IN  IF text \in DOMAIN published THEN published[text] ELSE "UNKNOWN"

Integers == {"SByte", "Byte", "Int16", "UInt16", "Int32", "UInt32", "Int64", "UInt64"}

\* map_builtin_type_index: the types the client knows.
SupportedTypes == Integers \union {"Boolean", "Float", "Double", "String"}

MapDataType(type) ==
    IF type \in Integers THEN "INTEGER"
    ELSE IF type \in SupportedTypes
         THEN [Boolean |-> "BOOLEAN", Float |-> "FLOAT", Double |-> "DOUBLE",
               String |-> "STRING"][type]
    ELSE "UNKNOWN"

\* variant_to_model_value: a value counts if its type belongs to the tag's.
Converts(variant, data_type) ==
    data_type # "UNKNOWN" /\ MapDataType(variant.type) = data_type

Readable(node, unread) == {p \in node.properties : <<node.name, p.name>> \notin unread}

\* An unknown kind counts as none.
ReadObjectMetadata(object, unread) ==
    LET kinds == {ParseEntityKind(p.value) : p \in
                     {q \in Readable(object, unread) :
                         q.name = "EntityKind" /\ Converts(q, "STRING")}} \ {"UNKNOWN"}
    IN  [name |-> object.name, parent |-> object.parent, explicit |-> kinds # {},
         kind |-> IF kinds = {} THEN "UNKNOWN" ELSE CHOOSE k \in kinds : TRUE]

\* Units and ranges are left out.
ReadVariableMetadata(variable, unread) ==
    LET roles == {p \in Readable(variable, unread) :
                     p.name = "SemanticRole" /\ Converts(p, "STRING")}
    IN  IF roles = {} THEN "none" ELSE (CHOOSE p \in roles : TRUE).value

AddVariable(variable, equipment, unread) ==
    [name |-> variable.name, equipment |-> equipment, readable |-> TRUE,
     writable |-> variable.writable, data_type |-> MapDataType(variable.type),
     semantic_role |-> ReadVariableMetadata(variable, unread)]

\* discover_address_space of a server that answers for everything else.  A
\* variable of the station itself is met after those of its objects in the code,
\* which no lookup by object tells.
Discover(objects, unread) ==
    LET found == [i \in DOMAIN objects |-> ReadObjectMetadata(objects[i], unread)]
        tags  == FlattenSeq([i \in DOMAIN objects |->
                    [v \in DOMAIN objects[i].variables |->
                        AddVariable(objects[i].variables[v], i, unread)]])
    IN  [equipment |-> ClassifyEntities(found, tags), tags |-> tags]
=============================================================================
