--------------------------- MODULE DataModelReader ---------------------------
(***************************************************************************)
(* Any caller performs any operation of the data model, while a reader     *)
(* that keeps the structure it saw looks at the generation from time to    *)
(* time (ui_generator.c does so from a timer).                             *)
(***************************************************************************)
EXTENDS DataModel

CONSTANTS
    PublishedKinds,     \* kinds an object's EntityKind property or its being a
                        \* Folder can give it
    MaxStructure,       \* bounds on the two generations: no change beyond them
    MaxValue

ASSUME PublishedAssumption == PublishedKinds \subseteq Kinds \ {"UNKNOWN"}

VARIABLE noted          \* the reader's [generation, structure]

dataModelVars == <<modelVars, noted>>

ReaderInit ==
    /\ DataModelInit
    /\ noted = [generation |-> 0, structure |-> Structure]

\* Any caller, any operation.

\* An object comes with a published kind, or with none yet.
Objects ==
    {object \in [node : Nodes, parent : 0..Len(equipment), explicit : BOOLEAN,
                 kind : PublishedKinds \union {"UNKNOWN"}] :
        object.explicit <=> object.kind # "UNKNOWN"}

Tags ==
    [node : Nodes, equipment : DOMAIN equipment, semantic_role : SemanticRoles,
     writable : BOOLEAN, value : Values]

\* The program pairs every begin with an end (discover_address_space).
BeginUpdate == ~structure_update_active /\ Begin
EndUpdate == structure_update_active /\ End

ChangeStructure ==
    /\ structure_generation < MaxStructure
    /\ \/ Clear /\ value_generation < MaxValue
       \/ \E object \in Objects : AddEquipment(object)
       \/ \E tag \in Tags : AddTag(tag)

ChangeValue ==
    /\ value_generation < MaxValue
    /\ \E i \in DOMAIN tags, v \in Values : UpdateValue(i, v)

\* A reader compares data_model_structure_generation with the one it knows and
\* takes the structure anew; it looks only when no batch is under way.
Observe ==
    /\ ~structure_update_active
    /\ noted.generation # structure_generation
    /\ noted' = [generation |-> structure_generation, structure |-> Structure]
    /\ UNCHANGED modelVars

ReaderNext ==
    \/ (BeginUpdate \/ EndUpdate \/ ChangeStructure \/ ChangeValue) /\ UNCHANGED noted
    \/ Observe

ReaderSpec == ReaderInit /\ [][ReaderNext]_dataModelVars

----------------------------------------------------------------------------
\* Property.

\* A reader that compares generations misses nothing: between batches an equal
\* structure generation means an equal structure, through any number of clears,
\* additions, re-classifications and batches since it looked
\* (mark_structure_changed, data_model_end_structure_update).
GenerationIdentifiesStructure ==
    ~structure_update_active /\ noted.generation = structure_generation
        => noted.structure = Structure
=============================================================================
