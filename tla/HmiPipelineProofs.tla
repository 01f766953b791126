-------------------------- MODULE HmiPipelineProofs --------------------------
(***************************************************************************)
(* Proofs about the way from the server to the controls page and back, for *)
(* every set of nodes and values, capacity and bound, and any number of    *)
(* restarts, discoveries and taps: first what each operation of the data   *)
(* model keeps and what a reader of its generations can conclude, then the *)
(* pipeline built on it.                                                   *)
(***************************************************************************)
EXTENDS HmiPipeline, DataModelReader, SequenceTheorems, TLAPS

----------------------------------------------------------------------------
\* The operations.

LEMMA BeginKeepsTypes == DataModelTypeOK /\ Begin => DataModelTypeOK'
BY DEF DataModelTypeOK, Begin

\* A change of the structure counts at once or leaves the batch dirty.
LEMMA Marked ==
    ASSUME DataModelTypeOK, MarkStructureChanged
    PROVE  /\ structure_generation' \in Nat /\ structure_dirty' \in BOOLEAN
           /\ structure_generation <= structure_generation'
           /\ structure_dirty' \/ structure_generation < structure_generation'
           /\ structure_dirty' => structure_update_active
<1>1. structure_generation \in Nat
    BY DEF DataModelTypeOK
<1>2. CASE structure_update_active
    <2>1. structure_dirty' /\ structure_generation' = structure_generation
        BY <1>2, Zenon DEF MarkStructureChanged
    <2>2. structure_dirty' \in BOOLEAN
        BY <1>2, Zenon DEF MarkStructureChanged
    <2> QED BY <1>1, <1>2, <2>1, <2>2
<1>3. CASE ~structure_update_active
    <2>1. structure_dirty' = FALSE /\ structure_generation' = structure_generation + 1
        BY <1>3, Zenon DEF MarkStructureChanged
    <2>2. structure_dirty' \in BOOLEAN /\ ~structure_dirty'
        BY <2>1, Zenon
    <2> QED BY <1>1, <2>1, <2>2
<1> QED BY <1>2, <1>3

LEMMA ClearKeepsTypes == DataModelTypeOK /\ Clear => DataModelTypeOK'
<1> SUFFICES ASSUME DataModelTypeOK, Clear PROVE DataModelTypeOK'
    OBVIOUS
<1>1. structure_generation' \in Nat /\ structure_dirty' \in BOOLEAN
    BY Marked DEF Clear
<1>2. /\ equipment' = <<>> /\ tags' = <<>> /\ value_generation' = value_generation + 1
      /\ structure_update_active' = structure_update_active
    BY DEF Clear
<1>3. Len(equipment') <= EquipmentCapacity /\ Len(tags') <= TagCapacity
    BY <1>2, EmptySeq, DataModelAssumption
<1>4. value_generation' \in Nat
    BY <1>2 DEF DataModelTypeOK
<1> QED BY <1>1, <1>2, <1>3, <1>4, EmptySeq, Zenon DEF DataModelTypeOK

LEMMA AddEquipmentKeepsTypes ==
    ASSUME DataModelTypeOK, NEW object \in EquipmentEntry, AddEquipment(object)
    PROVE  DataModelTypeOK'
<1>1. structure_generation' \in Nat /\ structure_dirty' \in BOOLEAN
    BY Marked DEF AddEquipment
<1>2. /\ equipment' = Append(equipment, object) /\ Len(equipment) < EquipmentCapacity
      /\ UNCHANGED <<tags, value_generation, structure_update_active>>
    BY DEF AddEquipment
<1>3. equipment' \in Seq(EquipmentEntry) /\ Len(equipment') <= EquipmentCapacity
    BY <1>2, AppendProperties, LenProperties, DataModelAssumption DEF DataModelTypeOK
<1> QED BY <1>1, <1>2, <1>3, Zenon DEF DataModelTypeOK

LEMMA AddTagKeepsTypes ==
    ASSUME DataModelTypeOK, NEW tag \in TagEntry, AddTag(tag)
    PROVE  DataModelTypeOK'
<1>1. structure_generation' \in Nat /\ structure_dirty' \in BOOLEAN
    BY Marked DEF AddTag
<1>2. /\ tags' = Append(tags, tag) /\ Len(tags) < TagCapacity
      /\ UNCHANGED <<equipment, value_generation, structure_update_active>>
    BY DEF AddTag
<1>3. tags' \in Seq(TagEntry) /\ Len(tags') <= TagCapacity
    BY <1>2, AppendProperties, LenProperties, DataModelAssumption DEF DataModelTypeOK
<1> QED BY <1>1, <1>2, <1>3, Zenon DEF DataModelTypeOK

\* A new value is counted and changes nothing else of any tag.
LEMMA UpdateValueKeeps ==
    ASSUME DataModelTypeOK, NEW i \in DOMAIN tags, NEW v \in Values, UpdateValue(i, v)
    PROVE  /\ DataModelTypeOK'
           /\ Len(tags') = Len(tags) /\ DOMAIN tags' = DOMAIN tags
           /\ \A j \in DOMAIN tags :
                 tags'[j] = IF j = i THEN [tags[i] EXCEPT !.value = v] ELSE tags[j]
           /\ value_generation' = value_generation + 1
<1>1. tags \in Seq(TagEntry) /\ i \in 1 .. Len(tags) /\ tags[i] \in TagEntry
    BY ElementOfSeq DEF DataModelTypeOK
<1>2. [tags[i] EXCEPT !.value = v] \in TagEntry
    BY <1>1 DEF TagEntry
<1>3. tags' = [tags EXCEPT ![i] = [tags[i] EXCEPT !.value = v]]
    BY <1>1 DEF UpdateValue
<1>4. tags' \in Seq(TagEntry) /\ Len(tags') = Len(tags)
    BY <1>1, <1>2, <1>3, ExceptSeq
<1>5. DataModelTypeOK'
    BY <1>4 DEF DataModelTypeOK, UpdateValue
<1> QED BY <1>1, <1>3, <1>4, <1>5 DEF UpdateValue

LEMMA ClassifiedTypes ==
    ASSUME DataModelTypeOK
    PROVE  Classified \in Seq(EquipmentEntry) /\ Len(Classified) = Len(equipment)
<1> USE DEF DataModelTypeOK
<1>1. \A i \in DOMAIN equipment : KindFrom(i, equipment, tags) \in Kinds
    BY DEF KindFrom, Kinds
<1>2. \A i \in 1 .. Len(equipment) : equipment[i] \in EquipmentEntry
    BY ElementOfSeq
<1>3. ASSUME NEW i \in 1 .. Len(equipment) PROVE Classified[i] \in EquipmentEntry
    <2>1. i \in DOMAIN equipment /\ equipment[i] \in EquipmentEntry
        BY <1>2, LenProperties
    <2>2. [equipment[i] EXCEPT !.kind = KindFrom(i, equipment, tags)] \in EquipmentEntry
        BY <1>1, <2>1 DEF EquipmentEntry
    <2>3. Classified[i] \in {equipment[i],
                             [equipment[i] EXCEPT !.kind = KindFrom(i, equipment, tags)]}
        BY <2>1 DEF Classified, ClassifyEntities
    <2> QED BY <2>1, <2>2, <2>3
<1>4. DOMAIN Classified = 1 .. Len(equipment) /\ Len(equipment) \in Nat
    BY LenProperties DEF Classified, ClassifyEntities
<1>5. Classified = [i \in 1 .. Len(equipment) |-> Classified[i]]
    BY <1>4 DEF Classified, ClassifyEntities
<1> QED BY <1>3, <1>4, <1>5, IsASeq

\* The end of a batch counts what the batch changed.
LEMMA EndKeeps ==
    ASSUME DataModelTypeOK, structure_dirty => structure_update_active, End
    PROVE  /\ DataModelTypeOK'
           /\ ~structure_dirty' /\ ~structure_update_active'
           /\ UNCHANGED <<tags, value_generation>>
           /\ structure_generation' =
                 IF structure_dirty THEN structure_generation + 1 ELSE structure_generation
           /\ ~structure_dirty => UNCHANGED equipment
<1>1. /\ ~structure_dirty' /\ ~structure_update_active'
      /\ structure_dirty' \in BOOLEAN /\ structure_update_active' \in BOOLEAN
      /\ UNCHANGED <<tags, value_generation>>
    BY Zenon DEF End
<1>2. CASE structure_dirty
    <2>1. equipment' = Classified /\ structure_generation' = structure_generation + 1
        BY <1>2, Zenon DEF End
    <2>2. /\ equipment' \in Seq(EquipmentEntry) /\ Len(equipment') <= EquipmentCapacity
          /\ structure_generation' \in Nat
        BY <2>1, ClassifiedTypes DEF DataModelTypeOK
    <2>3. DataModelTypeOK'
        BY <1>1, <2>2, Zenon DEF DataModelTypeOK
    <2> QED BY <1>1, <1>2, <2>1, <2>3
<1>3. CASE ~structure_dirty
    <2>1. UNCHANGED <<equipment, structure_generation>>
        BY <1>3, Zenon DEF End
    <2>2. DataModelTypeOK'
        BY <1>1, <2>1, Zenon DEF DataModelTypeOK
    <2> QED BY <1>1, <1>3, <2>1, <2>2
<1> QED BY <1>2, <1>3

----------------------------------------------------------------------------
\* A reader.

\* A reader whose generation is still the current one has the current structure
\* unless a running batch is dirty: this, not the property itself, is what every
\* operation preserves, for a batch changes the structure before it counts.
ReaderInv ==
    /\ structure_dirty => structure_update_active
    /\ noted.generation \in Nat /\ noted.generation <= structure_generation
    /\ ~structure_dirty /\ noted.generation = structure_generation
            => noted.structure = Structure

ReaderIInv == DataModelTypeOK /\ ReaderInv

LEMMA ReaderInitInv == ReaderInit => ReaderIInv
<1> SUFFICES ASSUME ReaderInit PROVE ReaderIInv
    OBVIOUS
<1>1. DataModelTypeOK
    <2>1. \A S : <<>> \in Seq(S)
        BY EmptySeq
    <2>2. Len(<<>>) = 0
        OBVIOUS
    <2>3. equipment \in Seq(EquipmentEntry) /\ tags \in Seq(TagEntry)
        BY <2>1 DEF ReaderInit, DataModelInit
    <2>4. Len(equipment) = 0 /\ Len(tags) = 0
        BY <2>2, Zenon DEF ReaderInit, DataModelInit
    <2>5. /\ structure_generation \in Nat /\ value_generation \in Nat
          /\ structure_update_active \in BOOLEAN /\ structure_dirty \in BOOLEAN
        BY DEF ReaderInit, DataModelInit
    <2> QED BY <2>3, <2>4, <2>5, DataModelAssumption DEF DataModelTypeOK
<1>2. ReaderInv
    BY DEF ReaderInit, DataModelInit, ReaderInv
<1> QED BY <1>1, <1>2 DEF ReaderIInv

LEMMA ValueStep ==
    ASSUME ReaderIInv, ChangeValue, UNCHANGED noted
    PROVE  ReaderIInv'
<1>1. PICK i \in DOMAIN tags, v \in Values : UpdateValue(i, v)
    BY DEF ChangeValue
<1>2. /\ DataModelTypeOK' /\ DOMAIN tags' = DOMAIN tags
      /\ \A j \in DOMAIN tags :
            tags'[j] = IF j = i THEN [tags[i] EXCEPT !.value = v] ELSE tags[j]
    BY <1>1, UpdateValueKeeps DEF ReaderIInv
<1>3. Structure' = Structure
    <2>1. \A j \in DOMAIN tags : tags[j] \in TagEntry
        BY ElementOfSeq DEF ReaderIInv, DataModelTypeOK
    <2>2. \A j \in DOMAIN tags :
             /\ tags'[j].node = tags[j].node /\ tags'[j].equipment = tags[j].equipment
             /\ tags'[j].semantic_role = tags[j].semantic_role
             /\ tags'[j].writable = tags[j].writable
        BY <1>2, <2>1 DEF TagEntry
    <2>3. equipment' = equipment
        BY <1>1 DEF UpdateValue
    <2> QED BY <1>2, <2>2, <2>3 DEF Structure
<1>4. ReaderInv'
    BY <1>1, <1>3 DEF ReaderIInv, ReaderInv, UpdateValue
<1> QED BY <1>2, <1>4 DEF ReaderIInv

\* A marked change makes every earlier look outdated.
LEMMA MarkedStep ==
    ASSUME ReaderIInv, MarkStructureChanged, UNCHANGED <<structure_update_active, noted>>
    PROVE  ReaderInv'
<1>1. /\ noted.generation \in Nat /\ noted.generation <= structure_generation
      /\ structure_generation \in Nat
    BY DEF ReaderIInv, DataModelTypeOK, ReaderInv
<1>2. /\ structure_generation' \in Nat /\ structure_generation <= structure_generation'
      /\ structure_dirty' \/ structure_generation < structure_generation'
      /\ structure_dirty' => structure_update_active
    BY Marked DEF ReaderIInv
<1>3. noted'.generation \in Nat /\ noted'.generation <= structure_generation'
    BY <1>1, <1>2
<1>4. structure_dirty' \/ noted'.generation # structure_generation'
    BY <1>1, <1>2
<1> QED BY <1>2, <1>3, <1>4, Zenon DEF ReaderInv

LEMMA StructureStep ==
    ASSUME ReaderIInv, ChangeStructure, UNCHANGED noted
    PROVE  ReaderIInv'
<1>1. CASE Clear
    BY <1>1, ClearKeepsTypes, MarkedStep DEF ReaderIInv, Clear
<1>2. ASSUME NEW object \in Objects, AddEquipment(object)
      PROVE  ReaderIInv'
    <2>1. object \in EquipmentEntry
        <3>1. PublishedKinds \union {"UNKNOWN"} \subseteq Kinds
            BY PublishedAssumption DEF Kinds
        <3>2. 0..Len(equipment) \subseteq Nat
            BY LenProperties DEF ReaderIInv, DataModelTypeOK
        <3>3. object \in [node : Nodes, parent : 0..Len(equipment), explicit : BOOLEAN,
                          kind : PublishedKinds \union {"UNKNOWN"}]
            BY DEF Objects
        <3> QED BY <3>1, <3>2, <3>3, Zenon DEF EquipmentEntry
    <2> QED BY <1>2, <2>1, AddEquipmentKeepsTypes, MarkedStep DEF ReaderIInv, AddEquipment
<1>3. ASSUME NEW tag \in Tags, AddTag(tag)
      PROVE  ReaderIInv'
    <2>1. tag \in TagEntry
        BY DEF Tags, TagEntry, ReaderIInv, DataModelTypeOK
    <2> QED BY <1>3, <2>1, AddTagKeepsTypes, MarkedStep DEF ReaderIInv, AddTag
<1> QED BY <1>1, <1>2, <1>3 DEF ChangeStructure

LEMMA BatchStep ==
    ASSUME ReaderIInv, BeginUpdate \/ EndUpdate, UNCHANGED noted
    PROVE  ReaderIInv'
<1>1. CASE BeginUpdate
    BY <1>1, BeginKeepsTypes DEF BeginUpdate, Begin, ReaderIInv, ReaderInv, Structure
<1>2. CASE EndUpdate
    <2>1. /\ DataModelTypeOK' /\ ~structure_dirty' /\ tags' = tags
          /\ structure_generation' =
                IF structure_dirty THEN structure_generation + 1 ELSE structure_generation
          /\ ~structure_dirty => equipment' = equipment
        BY <1>2, EndKeeps DEF EndUpdate, ReaderIInv, ReaderInv
    <2>2. /\ noted.generation \in Nat /\ noted.generation <= structure_generation
          /\ structure_generation \in Nat
        BY DEF ReaderIInv, DataModelTypeOK, ReaderInv
    <2>3. CASE structure_dirty
        <3>1. noted'.generation # structure_generation' /\ noted'.generation <= structure_generation'
            BY <2>1, <2>2, <2>3
        <3> QED BY <2>1, <2>2, <3>1, Zenon DEF ReaderIInv, ReaderInv
    <2>4. CASE ~structure_dirty
        BY <2>1, <2>2, <2>4 DEF ReaderIInv, ReaderInv, Structure
    <2> QED BY <2>3, <2>4
<1> QED BY <1>1, <1>2

\* ReaderIInv is an inductive invariant of the data model.
THEOREM DataModelInductive == ReaderSpec => []ReaderIInv
<1>1. ReaderIInv /\ [ReaderNext]_dataModelVars => ReaderIInv'
    <2> SUFFICES ASSUME ReaderIInv, [ReaderNext]_dataModelVars PROVE ReaderIInv'
        OBVIOUS
    <2>1. CASE Observe
        BY <2>1 DEF Observe, ReaderIInv, DataModelTypeOK, ReaderInv, Structure,
                    modelVars, structureVars
    <2>2. CASE UNCHANGED dataModelVars
        BY <2>2 DEF ReaderIInv, DataModelTypeOK, ReaderInv, Structure,
                    dataModelVars, modelVars, structureVars
    <2> QED BY <2>1, <2>2, ValueStep, StructureStep, BatchStep DEF ReaderNext
<1> QED BY ReaderInitInv, <1>1, PTL DEF ReaderSpec

\* Every variable keeps its type (data_model.c): the tables never outgrow their
\* capacities.
THEOREM DataModelTypeCorrect == ReaderSpec => []DataModelTypeOK
BY DataModelInductive, PTL DEF ReaderIInv

\* A reader that compares structure generations never keeps an outdated structure
\* (mark_structure_changed, data_model_end_structure_update).
THEOREM GenerationSuffices == ReaderSpec => []GenerationIdentifiesStructure
<1>1. ReaderIInv => GenerationIdentifiesStructure
    BY DEF ReaderIInv, DataModelTypeOK, ReaderInv, GenerationIdentifiesStructure
<1> QED BY DataModelInductive, <1>1, PTL

----------------------------------------------------------------------------
(* The pipeline. *)

\* A discovery is one batch, and only a session has monitored items.
BatchInv ==
    /\ structure_update_active <=> phase \in {"clear", "unmap", "browse", "end"}
    /\ structure_dirty => structure_update_active
    /\ subscribed # {} => phase \in {"writes", "iterate"}

\* Map and model agree but while a discovery empties them one after the other.
MapInv ==
    /\ phase \notin {"clear", "unmap"} =>
          /\ Len(tag_node_ids) = Len(tags)
          /\ \A i \in DOMAIN tags : tags[i].node = tag_node_ids[i]
    /\ phase = "unmap" => tags = <<>>

\* What was bound or requested under a structure generation is bound to the right
\* tag as long as the generation is the model's and no batch has changed anything.
Bound(generation, index, node) ==
    /\ generation <= structure_generation
    /\ generation = structure_generation /\ ~structure_dirty =>
          index \in DOMAIN tags /\ tags[index].node = node

BindingsInv ==
    /\ observed_structure_generation <= structure_generation
    /\ \A i \in DOMAIN bindings :
          Bound(observed_structure_generation, bindings[i].index, bindings[i].node)

RequestsInv ==
    \A i \in DOMAIN write_queue :
        Bound(write_queue[i].generation, write_queue[i].index, write_queue[i].node)

\* Until the first look at the values no value generation is noted; from then on all
\* bindings are current under the noted one, or those a refresh has passed.
Shown(b) ==
    b.pending \/ (/\ b.shown = tags[b.index].value /\ b.shown_node = b.node
                  /\ b.checked = b.shown)

ValuesInv ==
    /\ observed_value_generation <= value_generation
    /\ ui \in {"cards", "scan", "created"} => observed_value_generation = -1
    /\ ui \in {"created", "refresh"} /\ bindings # <<>> => ui_index <= Len(bindings)
    /\ /\ observed_structure_generation = structure_generation /\ ~structure_dirty
       /\ observed_value_generation = value_generation
       => \A i \in DOMAIN bindings : ui # "refresh" \/ i < ui_index => Shown(bindings[i])

IInv == TypeOK /\ BatchInv /\ MapInv /\ BindingsInv /\ RequestsInv /\ ValuesInv

----------------------------------------------------------------------------
LEMMA InitInv == Init => IInv
<1> SUFFICES ASSUME Init PROVE IInv
    OBVIOUS
<1>1. /\ equipment = <<>> /\ tags = <<>>
      /\ structure_generation = 1 /\ value_generation = 0
      /\ ~structure_update_active /\ ~structure_dirty
      /\ structure_update_active \in BOOLEAN /\ structure_dirty \in BOOLEAN
    BY Zenon DEF Init, PageInit, DataModelInit
<1>2. DataModelTypeOK
    <2>1. Len(equipment) <= EquipmentCapacity /\ Len(tags) <= TagCapacity
        BY <1>1, EmptySeq, DataModelAssumption
    <2>2. structure_generation \in Nat /\ value_generation \in Nat
        BY <1>1
    <2> QED BY <1>1, <2>1, <2>2, EmptySeq, Zenon DEF DataModelTypeOK
<1>3. ClientTypeOK
    <2>1. browse_failed \in BOOLEAN /\ phase = "down"
        BY Zenon DEF Init, PageInit
    <2> QED BY <2>1, EmptySeq, PipelineAssumption DEF Init, PageInit, ClientTypeOK
<1>4. ServerTypeOK
    BY PipelineAssumption DEF Init, PageInit, ServerTypeOK
<1>5. PageTypeOK
    BY EmptySeq DEF Init, PageInit, PageTypeOK
<1>6. BatchInv /\ MapInv
    BY <1>1 DEF Init, PageInit, BatchInv, MapInv
<1>7. BindingsInv /\ RequestsInv /\ ValuesInv
    BY <1>1 DEF Init, PageInit, BindingsInv, RequestsInv, ValuesInv
<1> QED BY <1>2, <1>3, <1>4, <1>5, <1>6, <1>7 DEF IInv, TypeOK

----------------------------------------------------------------------------
\* Steps that leave the data model alone.

ModelFixed ==
    UNCHANGED <<equipment, tags, structure_generation, value_generation,
                structure_update_active, structure_dirty>>

LEMMA ModelVarsFixed == UNCHANGED modelVars => ModelFixed
BY DEF modelVars, structureVars, ModelFixed

LEMMA ModelFixedTypes == DataModelTypeOK /\ ModelFixed => DataModelTypeOK'
BY DEF DataModelTypeOK, ModelFixed

LEMMA PageFixed ==
    ASSUME BindingsInv, ValuesInv, ModelFixed, UNCHANGED uiVars
    PROVE  BindingsInv' /\ ValuesInv'
BY DEF BindingsInv, ValuesInv, Bound, Shown, ModelFixed, uiVars

LEMMA PageTypesFixed == PageTypeOK /\ UNCHANGED uiVars => PageTypeOK'
BY DEF PageTypeOK, uiVars

LEMMA RequestsFixed == RequestsInv /\ ModelFixed /\ UNCHANGED write_queue => RequestsInv'
BY DEF RequestsInv, Bound, ModelFixed

\* The client task outside the model, and the server.
LEMMA ClientOutsideModel ==
    ASSUME IInv,
           \/ Connect \/ ClearTagNodeIds \/ FinishBrowse \/ FailBrowse \/ CreateSubscriptions
           \/ ProcessWriteRequest \/ Iterate \/ EndIteration \/ Server
    PROVE  IInv'
<1> USE DEF IInv, TypeOK
<1>1. UNCHANGED modelVars /\ UNCHANGED uiVars
    BY DEF Connect, ClearTagNodeIds, FinishBrowse, FailBrowse, CreateSubscriptions,
        ProcessWriteRequest, Iterate, EndIteration, Server, ServerValueChanges, ServerRestarts
<1>2. ModelFixed
    BY <1>1, ModelVarsFixed
<1>3. DataModelTypeOK' /\ PageTypeOK' /\ BindingsInv' /\ ValuesInv'
    BY <1>1, <1>2, ModelFixedTypes, PageTypesFixed, PageFixed
<1>4. ServerTypeOK'
    <2>1. ASSUME NEW node \in Nodes, NEW value \in Values, Store(node, value)
          PROVE  server_value' \in [Nodes -> Values]
        BY <2>1 DEF Store, ServerTypeOK
    <2>2. CASE ProcessWriteRequest
        <3>1. UNCHANGED server_space
            BY <2>2 DEF ProcessWriteRequest
        <3>2. Head(write_queue) \in Request
            BY <2>2, HeadTailProperties DEF ProcessWriteRequest, ClientTypeOK
        <3>3. ASSUME Accepted(Head(write_queue))
              PROVE  tag_node_ids[Head(write_queue).index] \in Nodes
            BY <3>3, ElementOfSeq DEF Accepted, ClientTypeOK
        <3> QED BY <2>1, <2>2, <3>1, <3>2, <3>3 DEF ProcessWriteRequest, ServerTypeOK, Request
    <2>3. CASE ServerValueChanges
        <3>1. \A i \in DOMAIN server_space : server_space[i] \in Nodes
            BY ElementOfSeq DEF ServerTypeOK
        <3> QED BY <2>1, <2>3, <3>1 DEF ServerValueChanges, ServerTypeOK
    <2>4. CASE ServerRestarts
        BY <2>4, PipelineAssumption DEF ServerRestarts, ServerTypeOK
    <2> QED BY <2>2, <2>3, <2>4 DEF Connect, ClearTagNodeIds, FinishBrowse, FailBrowse,
            CreateSubscriptions, Iterate, EndIteration, Server, serverVars, ServerTypeOK
<1>5. ClientTypeOK'
    <2> USE DEF ClientTypeOK
    <2>1. DOMAIN tags' = DOMAIN tags
        BY <1>2 DEF ModelFixed
    <2>2. CASE Connect \/ FinishBrowse \/ FailBrowse \/ Iterate \/ EndIteration
        BY <2>1, <2>2 DEF Connect, FinishBrowse, FailBrowse, Iterate, EndIteration, queueVars,
            serverVars
    <2>3. CASE ClearTagNodeIds
        BY <2>1, <2>3, EmptySeq DEF ClearTagNodeIds, queueVars, serverVars
    <2>4. CASE CreateSubscriptions
        BY <2>1, <2>4 DEF CreateSubscriptions, queueVars
    <2>5. CASE ProcessWriteRequest
        <3>1. write_queue' \in Seq(Request) /\ Len(write_queue') <= WriteQueueLength
            <4>1. Len(write_queue') = Len(write_queue) - 1 /\ write_queue' \in Seq(Request)
                BY <2>5, HeadTailProperties DEF ProcessWriteRequest
            <4> QED BY <4>1, LenProperties, PipelineAssumption
        <3> QED BY <2>1, <2>5, <3>1 DEF ProcessWriteRequest, Store, clientVars
    <2>6. CASE Server
        BY <2>1, <2>6 DEF Server, ServerValueChanges, ServerRestarts, Store, clientVars, queueVars
    <2> QED BY <2>2, <2>3, <2>4, <2>5, <2>6
<1>6. BatchInv'
    BY <1>2 DEF BatchInv, ModelFixed, ClientTypeOK, clientVars, Connect, ClearTagNodeIds,
        FinishBrowse, FailBrowse, CreateSubscriptions, ProcessWriteRequest, Iterate,
        EndIteration, Server, ServerValueChanges, ServerRestarts
<1>7. MapInv'
    <2>1. CASE ClearTagNodeIds
        BY <1>2, <2>1, EmptySeq DEF ClearTagNodeIds, MapInv, ModelFixed
    <2> QED BY <1>2, <2>1 DEF MapInv, ModelFixed, clientVars, Connect, FinishBrowse,
            FailBrowse, CreateSubscriptions, ProcessWriteRequest, Iterate, EndIteration,
            Server, ServerValueChanges, ServerRestarts
<1>8. RequestsInv'
    <2>1. CASE ProcessWriteRequest
        <3>1. /\ write_queue # <<>> /\ write_queue' = Tail(write_queue)
              /\ write_queue \in Seq(Request)
            BY <2>1 DEF ProcessWriteRequest, ClientTypeOK
        <3>2. \A i \in DOMAIN write_queue' :
                 i + 1 \in DOMAIN write_queue /\ write_queue'[i] = write_queue[i + 1]
            BY <3>1, HeadTailProperties, LenProperties
        <3> QED BY <1>2, <3>2 DEF RequestsInv, Bound, ModelFixed
    <2>2. CASE ~ProcessWriteRequest
        BY <1>2, <2>2, RequestsFixed DEF queueVars, Connect, ClearTagNodeIds, FinishBrowse,
            FailBrowse, CreateSubscriptions, Iterate, EndIteration, Server,
            ServerValueChanges, ServerRestarts
    <2> QED BY <2>1, <2>2
<1> QED BY <1>3, <1>4, <1>5, <1>6, <1>7, <1>8

----------------------------------------------------------------------------
\* Steps of a discovery.

\* A change that is counted, or will be at the end of its batch, outdates the page
\* and every request.
LEMMA Outdated ==
    ASSUME PageTypeOK, ClientTypeOK, BindingsInv, RequestsInv, ValuesInv,
           structure_generation \in Nat, structure_generation' \in Nat,
           value_generation \in Nat, value_generation' \in Nat,
           structure_generation <= structure_generation',
           structure_dirty' \/ structure_generation < structure_generation',
           value_generation <= value_generation',
           UNCHANGED <<uiVars, write_queue>>
    PROVE  BindingsInv' /\ RequestsInv' /\ ValuesInv'
<1>1. \A g \in Nat : g <= structure_generation =>
         g <= structure_generation' /\ ~(g = structure_generation' /\ ~structure_dirty')
    OBVIOUS
<1>2. BindingsInv'
    BY <1>1 DEF BindingsInv, Bound, uiVars, PageTypeOK
<1>3. RequestsInv'
    <2>1. ASSUME NEW i \in DOMAIN write_queue PROVE write_queue[i].generation \in Nat
        <3>1. write_queue \in Seq(Request) /\ i \in 1 .. Len(write_queue)
            BY LenProperties DEF ClientTypeOK
        <3>2. write_queue[i] \in Request
            BY <3>1, ElementOfSeq
        <3> QED BY <3>2 DEF Request
    <2> QED BY <1>1, <2>1 DEF RequestsInv, Bound
<1>4. ValuesInv'
    <2>1. observed_value_generation' <= value_generation'
        BY DEF ValuesInv, uiVars, PageTypeOK
    <2>2. ~(observed_structure_generation' = structure_generation' /\ ~structure_dirty')
        BY <1>1 DEF BindingsInv, uiVars, PageTypeOK
    <2> QED BY <2>1, <2>2 DEF ValuesInv, uiVars
<1> QED BY <1>2, <1>3, <1>4

LEMMA BeginStep == IInv /\ BeginDiscovery => IInv'
<1> SUFFICES ASSUME IInv, BeginDiscovery PROVE IInv'
    OBVIOUS
<1>1. /\ phase = "begin" /\ phase' = "clear" /\ Begin /\ ~structure_dirty
      /\ UNCHANGED <<browse_failed, tag_node_ids, subscribed, connects, serverVars, uiVars,
                     queueVars>>
    BY DEF BeginDiscovery, IInv, BatchInv
<1>2. /\ UNCHANGED <<equipment, tags, structure_generation, value_generation>>
      /\ structure_update_active' /\ ~structure_dirty'
    BY <1>1, Zenon DEF Begin
<1>3. DataModelTypeOK'
    BY <1>1, BeginKeepsTypes DEF IInv, TypeOK
<1>4. ClientTypeOK' /\ ServerTypeOK' /\ PageTypeOK'
    BY <1>1, <1>2 DEF IInv, TypeOK, ClientTypeOK, ServerTypeOK, PageTypeOK, serverVars, uiVars,
        queueVars
<1>5. BatchInv' /\ MapInv'
    BY <1>1, <1>2 DEF IInv, BatchInv, MapInv
<1>6. BindingsInv' /\ RequestsInv' /\ ValuesInv'
    BY <1>1, <1>2 DEF IInv, BindingsInv, RequestsInv, ValuesInv, Bound, Shown, uiVars, queueVars
<1> QED BY <1>3, <1>4, <1>5, <1>6 DEF IInv, TypeOK

LEMMA ClearStep == IInv /\ ClearModel => IInv'
<1> SUFFICES ASSUME IInv, ClearModel PROVE IInv'
    OBVIOUS
<1>1. /\ phase = "clear" /\ phase' = "unmap" /\ Clear
      /\ UNCHANGED <<browse_failed, tag_node_ids, subscribed, connects, serverVars, uiVars,
                     queueVars>>
    BY DEF ClearModel
<1>2. /\ tags' = <<>> /\ MarkStructureChanged
      /\ structure_update_active' = structure_update_active
      /\ value_generation' = value_generation + 1
    BY <1>1 DEF Clear
<1>3. DataModelTypeOK /\ DataModelTypeOK'
    BY <1>1, ClearKeepsTypes DEF IInv, TypeOK
<1>4. subscribed = {} /\ notifications = {}
    BY <1>1 DEF IInv, TypeOK, ClientTypeOK, BatchInv
<1>5. ClientTypeOK' /\ ServerTypeOK' /\ PageTypeOK'
    BY <1>1, <1>4 DEF IInv, TypeOK, ClientTypeOK, ServerTypeOK, PageTypeOK, serverVars, uiVars,
        queueVars
<1>6. BatchInv' /\ MapInv'
    BY <1>1, <1>2, <1>3, <1>4, Marked DEF IInv, BatchInv, MapInv
<1>7. BindingsInv' /\ RequestsInv' /\ ValuesInv'
    BY <1>1, <1>2, <1>3, Marked, Outdated DEF IInv, TypeOK, DataModelTypeOK, queueVars
<1> QED BY <1>3, <1>5, <1>6, <1>7 DEF IInv, TypeOK

LEMMA BrowseObjectStep == IInv /\ BrowseObject => IInv'
<1> SUFFICES ASSUME IInv, BrowseObject PROVE IInv'
    OBVIOUS
<1> DEFINE object == [node |-> Plant, parent |-> 0, explicit |-> FALSE, kind |-> "UNKNOWN"]
<1>1. AddEquipment(object) /\ UNCHANGED <<clientVars, serverVars, uiVars, queueVars>>
    BY DEF BrowseObject
<1>2. object \in EquipmentEntry
    BY PipelineAssumption DEF EquipmentEntry, Kinds
<1>3. DataModelTypeOK /\ DataModelTypeOK'
    BY <1>1, <1>2, AddEquipmentKeepsTypes DEF IInv, TypeOK
<1>4. MarkStructureChanged /\ UNCHANGED <<tags, value_generation, structure_update_active>>
    BY <1>1 DEF AddEquipment
<1>5. ClientTypeOK' /\ ServerTypeOK' /\ PageTypeOK'
    BY <1>1, <1>4 DEF IInv, TypeOK, ClientTypeOK, ServerTypeOK, PageTypeOK, clientVars,
        serverVars, uiVars, queueVars
<1>6. BatchInv' /\ MapInv'
    BY <1>1, <1>3, <1>4, Marked DEF IInv, BatchInv, MapInv, clientVars
<1>7. BindingsInv' /\ RequestsInv' /\ ValuesInv'
    BY <1>1, <1>3, <1>4, Marked, Outdated DEF IInv, TypeOK, DataModelTypeOK, queueVars
<1> QED BY <1>3, <1>5, <1>6, <1>7 DEF IInv, TypeOK

LEMMA AddVariableStep == IInv /\ AddVariable => IInv'
<1> SUFFICES ASSUME IInv, AddVariable PROVE IInv'
    OBVIOUS
<1> DEFINE node == server_space[Len(tags) + 1]
           tag == [node |-> node, equipment |-> 1, semantic_role |-> "other",
                   writable |-> node \in WritableNodes, value |-> server_value[node]]
<1>1. /\ phase = "browse" /\ Len(tags) < Len(server_space) /\ AddTag(tag)
      /\ tag_node_ids' = Append(tag_node_ids, node)
      /\ UNCHANGED <<phase, browse_failed, subscribed, connects, serverVars, uiVars, queueVars>>
    BY DEF AddVariable
<1>2. tag \in TagEntry
    <2>1. Len(tags) + 1 \in 1 .. Len(server_space)
        BY <1>1, LenProperties DEF IInv, TypeOK, DataModelTypeOK, ServerTypeOK
    <2>2. node \in Nodes
        BY <2>1, ElementOfSeq DEF IInv, TypeOK, ServerTypeOK
    <2>3. server_value[node] \in Values
        BY <2>2 DEF IInv, TypeOK, ServerTypeOK
    <2>4. (node \in WritableNodes) \in BOOLEAN
        OBVIOUS
    <2> QED BY <2>2, <2>3, <2>4, PipelineAssumption DEF TagEntry
<1> HIDE DEF node
<1>3. DataModelTypeOK /\ DataModelTypeOK'
    BY <1>1, <1>2, AddTagKeepsTypes DEF IInv, TypeOK
<1>4. /\ tags' = Append(tags, tag) /\ tag.node = node /\ node \in Nodes
      /\ MarkStructureChanged /\ UNCHANGED <<value_generation, structure_update_active>>
    BY <1>1, <1>2 DEF AddTag, TagEntry
<1>5. subscribed = {} /\ notifications = {}
    BY <1>1 DEF IInv, TypeOK, ClientTypeOK, BatchInv
<1>6. ClientTypeOK'
    <2>1. tag_node_ids' \in Seq(Nodes)
        BY <1>1, <1>4, AppendProperties DEF IInv, TypeOK, ClientTypeOK
    <2>2. subscribed' = {} /\ notifications' = {}
        BY <1>1, <1>5 DEF serverVars
    <2> QED BY <1>1, <2>1, <2>2 DEF IInv, TypeOK, ClientTypeOK, queueVars
<1>7. ServerTypeOK' /\ PageTypeOK'
    BY <1>1 DEF IInv, TypeOK, ServerTypeOK, PageTypeOK, serverVars, uiVars
<1>8. BatchInv'
    BY <1>1, <1>3, <1>4, Marked DEF IInv, BatchInv
<1>9. MapInv'
    <2>1. /\ tags \in Seq(TagEntry) /\ tag_node_ids \in Seq(Nodes)
          /\ Len(tag_node_ids) = Len(tags)
          /\ \A i \in DOMAIN tags : tags[i].node = tag_node_ids[i]
        BY <1>1 DEF IInv, TypeOK, DataModelTypeOK, ClientTypeOK, MapInv
    <2>2. Len(tags') = Len(tags) + 1 /\ Len(tag_node_ids') = Len(tags) + 1
        BY <1>1, <1>2, <1>4, <2>1, AppendProperties
    <2>3. ASSUME NEW i \in DOMAIN tags' PROVE tags'[i].node = tag_node_ids'[i]
        <3>1. i \in 1 .. Len(tags) + 1
            BY <1>2, <1>4, <2>1, AppendProperties
        <3>2. CASE i = Len(tags) + 1
            <4>1. tags'[i] = tag
                BY <1>2, <1>4, <2>1, <3>2, AppendProperties
            <4>2. tag_node_ids'[i] = node
                BY <1>1, <1>4, <2>1, <3>2, AppendProperties
            <4> QED BY <1>4, <4>1, <4>2
        <3>3. CASE i \in 1 .. Len(tags)
            <4>1. i \in DOMAIN tags
                BY <2>1, <3>3, LenProperties
            <4>2. tags'[i] = tags[i]
                BY <1>2, <1>4, <2>1, <3>3, AppendProperties
            <4>3. tag_node_ids'[i] = tag_node_ids[i]
                BY <1>1, <1>4, <2>1, <3>3, AppendProperties
            <4> QED BY <2>1, <4>1, <4>2, <4>3
        <3> QED BY <2>1, <3>1, <3>2, <3>3, LenProperties
    <2> QED BY <1>1, <2>2, <2>3 DEF MapInv
<1>10. BindingsInv' /\ RequestsInv' /\ ValuesInv'
    BY <1>1, <1>3, <1>4, Marked, Outdated DEF IInv, TypeOK, DataModelTypeOK, queueVars
<1> QED BY <1>3, <1>6, <1>7, <1>8, <1>9, <1>10 DEF IInv, TypeOK

LEMMA EndStep == IInv /\ EndDiscovery => IInv'
<1> SUFFICES ASSUME IInv, EndDiscovery PROVE IInv'
    OBVIOUS
<1>1. /\ phase = "end" /\ phase' \in {"down", "subscribe"} /\ browse_failed' = FALSE /\ End
      /\ UNCHANGED <<tag_node_ids, subscribed, connects, serverVars, uiVars, queueVars>>
    BY DEF EndDiscovery
<1>2. /\ DataModelTypeOK /\ DataModelTypeOK'
      /\ ~structure_dirty' /\ ~structure_update_active'
      /\ UNCHANGED <<tags, value_generation>>
      /\ structure_generation' =
            IF structure_dirty THEN structure_generation + 1 ELSE structure_generation
    BY <1>1, EndKeeps DEF IInv, TypeOK, BatchInv
<1>3. ClientTypeOK' /\ ServerTypeOK' /\ PageTypeOK'
    <2>1. browse_failed' \in BOOLEAN
        BY <1>1
    <2> QED BY <1>1, <1>2, <2>1 DEF IInv, TypeOK, ClientTypeOK, ServerTypeOK, PageTypeOK,
            serverVars, uiVars, queueVars
<1>4. BatchInv' /\ MapInv'
    BY <1>1, <1>2 DEF IInv, TypeOK, ClientTypeOK, BatchInv, MapInv
<1>5. BindingsInv' /\ RequestsInv' /\ ValuesInv'
    <2>1. CASE structure_dirty
        <3>1. structure_generation' = structure_generation + 1
            BY <1>2, <2>1
        <3> QED BY <1>1, <1>2, <3>1, Outdated DEF IInv, TypeOK, DataModelTypeOK, queueVars
    <2>2. CASE ~structure_dirty
        <3>1. structure_generation' = structure_generation
            BY <1>2, <2>2
        <3> QED BY <1>1, <1>2, <2>2, <3>1 DEF IInv, BindingsInv, RequestsInv, ValuesInv, Bound,
                Shown, uiVars, queueVars
    <2> QED BY <2>1, <2>2
<1> QED BY <1>2, <1>3, <1>4, <1>5 DEF IInv, TypeOK

\* A reported value changes no tag but in its value, and outdates the values shown.
LEMMA DataChangeStep == IInv /\ DataChange => IInv'
<1> SUFFICES ASSUME IInv, DataChange PROVE IInv'
    OBVIOUS
<1>1. PICK i \in notifications :
         /\ notifications' = notifications \ {i}
         /\ UpdateValue(i, server_value[tag_node_ids[i]])
    BY DEF DataChange
<1>2. /\ phase = "iterate"
      /\ UNCHANGED <<clientVars, server_space, server_value, uiVars, queueVars>>
    BY DEF DataChange
<1>3. /\ i \in DOMAIN tags /\ tags \in Seq(TagEntry) /\ tag_node_ids \in Seq(Nodes)
      /\ Len(tag_node_ids) = Len(tags)
      /\ \A j \in DOMAIN tags : tags[j].node = tag_node_ids[j]
    BY <1>1, <1>2 DEF IInv, TypeOK, ClientTypeOK, DataModelTypeOK, MapInv
<1> DEFINE v == server_value[tag_node_ids[i]]
<1>4. v \in Values
    <2>1. tag_node_ids[i] \in Nodes
        BY <1>3, ElementOfSeq, LenProperties
    <2> QED BY <2>1 DEF IInv, TypeOK, ServerTypeOK
<1> HIDE DEF v
<1>5. /\ DataModelTypeOK'
      /\ Len(tags') = Len(tags) /\ DOMAIN tags' = DOMAIN tags
      /\ \A j \in DOMAIN tags :
            tags'[j] = IF j = i THEN [tags[i] EXCEPT !.value = v] ELSE tags[j]
      /\ value_generation' = value_generation + 1
    <2>1. UpdateValue(i, v)
        BY <1>1 DEF v
    <2> QED BY <1>3, <1>4, <2>1, UpdateValueKeeps DEF IInv, TypeOK
<1>6. UNCHANGED <<structure_generation, structure_update_active, structure_dirty>>
    BY <1>1 DEF UpdateValue
<1>7. \A j \in DOMAIN tags : tags'[j].node = tags[j].node
    <2>1. \A j \in DOMAIN tags : tags[j] \in TagEntry
        BY <1>3, ElementOfSeq, LenProperties
    <2> QED BY <1>5, <2>1 DEF TagEntry
<1>8. ClientTypeOK' /\ ServerTypeOK' /\ PageTypeOK'
    BY <1>1, <1>2, <1>5 DEF IInv, TypeOK, ClientTypeOK, ServerTypeOK, PageTypeOK, clientVars,
        uiVars, queueVars
<1>9. BatchInv' /\ MapInv'
    BY <1>2, <1>3, <1>5, <1>6, <1>7 DEF IInv, BatchInv, MapInv, clientVars
<1>10. BindingsInv' /\ RequestsInv'
    BY <1>2, <1>5, <1>6, <1>7 DEF IInv, BindingsInv, RequestsInv, Bound, uiVars, queueVars
<1>11. ValuesInv'
    <2>1. /\ observed_value_generation' < value_generation'
          /\ observed_value_generation' <= value_generation'
        BY <1>2, <1>5 DEF IInv, TypeOK, DataModelTypeOK, PageTypeOK, ValuesInv, uiVars
    <2> QED BY <1>2, <2>1 DEF IInv, TypeOK, DataModelTypeOK, PageTypeOK, ValuesInv, uiVars
<1> QED BY <1>5, <1>8, <1>9, <1>10, <1>11 DEF IInv, TypeOK

----------------------------------------------------------------------------
\* Steps of the page.

LEMMA OutsidePage ==
    ASSUME IInv, UNCHANGED <<modelVars, clientVars, serverVars>>
    PROVE  /\ ModelFixed /\ DataModelTypeOK' /\ ServerTypeOK' /\ BatchInv' /\ MapInv'
           /\ UNCHANGED queueVars => ClientTypeOK' /\ RequestsInv'
<1>1. ModelFixed
    BY ModelVarsFixed
<1>2. DataModelTypeOK'
    BY <1>1, ModelFixedTypes DEF IInv, TypeOK
<1>3. ServerTypeOK' /\ BatchInv' /\ MapInv'
    BY <1>1 DEF IInv, TypeOK, ServerTypeOK, BatchInv, MapInv, ModelFixed, clientVars, serverVars
<1>4. UNCHANGED queueVars => ClientTypeOK' /\ RequestsInv'
    BY <1>1, RequestsFixed DEF IInv, TypeOK, ClientTypeOK, ModelFixed, clientVars, serverVars,
        queueVars
<1> QED BY <1>1, <1>2, <1>3, <1>4

\* What an update makes of a control keeps what it is bound to.
LEMMA ShowsKeeps ==
    ASSUME NEW b \in Binding, NEW tag \in TagEntry, NEW s \in Shows(b, tag)
    PROVE  /\ s \in Binding /\ s.index = b.index /\ s.node = b.node
           /\ s.pending \/ (s.shown = tag.value /\ s.shown_node = tag.node /\ s.checked = s.shown)
<1> DEFINE current == [b EXCEPT !.shown = tag.value, !.shown_node = tag.node,
                                !.checked = tag.value, !.pending = FALSE]
<1>1. current \in Binding /\ current.index = b.index /\ current.node = b.node
    BY DEF Binding, TagEntry
<1>2. /\ current.shown = tag.value /\ current.shown_node = tag.node
      /\ current.checked = current.shown
    BY DEF Binding
<1>3. s = current \/ (s = b /\ b.pending)
    BY DEF Shows
<1> QED BY <1>1, <1>2, <1>3

\* Replacing one control by one bound to the same tag keeps the bindings.
LEMMA ReplacedControl ==
    ASSUME PageTypeOK, BindingsInv, ModelFixed, UNCHANGED observed_structure_generation,
           NEW k \in DOMAIN bindings, NEW s \in Binding,
           s.index = bindings[k].index, s.node = bindings[k].node,
           bindings' = [bindings EXCEPT ![k] = s]
    PROVE  /\ bindings' \in Seq(Binding) /\ Len(bindings') = Len(bindings)
           /\ DOMAIN bindings' = DOMAIN bindings
           /\ \A i \in DOMAIN bindings : bindings'[i] = IF i = k THEN s ELSE bindings[i]
           /\ BindingsInv'
<1>1. bindings \in Seq(Binding)
    BY DEF PageTypeOK
<1>2. /\ bindings' \in Seq(Binding) /\ Len(bindings') = Len(bindings)
      /\ DOMAIN bindings' = DOMAIN bindings
    BY <1>1, ExceptSeq, LenProperties
<1>3. \A i \in DOMAIN bindings : bindings'[i] = IF i = k THEN s ELSE bindings[i]
    OBVIOUS
<1>4. BindingsInv'
    BY <1>2, <1>3 DEF BindingsInv, Bound, ModelFixed
<1> QED BY <1>2, <1>3, <1>4

\* A control of a page whose structure is current has its tag.
LEMMA BoundControl ==
    ASSUME PageTypeOK, DataModelTypeOK, NEW i \in DOMAIN bindings
    PROVE  /\ bindings[i] \in Binding
           /\ bindings[i].index \in DOMAIN tags => tags[bindings[i].index] \in TagEntry
           /\ BindingsInv /\ observed_structure_generation = structure_generation
              /\ ~structure_dirty =>
                 /\ bindings[i].index \in DOMAIN tags
                 /\ tags[bindings[i].index].node = bindings[i].node
<1>1. bindings[i] \in Binding
    BY ElementOfSeq, LenProperties DEF PageTypeOK
<1>2. \A k \in DOMAIN tags : tags[k] \in TagEntry
    BY ElementOfSeq, LenProperties DEF DataModelTypeOK
<1> QED BY <1>1, <1>2 DEF BindingsInv, Bound

LEMMA BuildSteps ==
    ASSUME IInv, StartRefresh \/ Rebuild \/ StartCards \/ CheckValues
    PROVE  IInv'
<1>1. UNCHANGED <<modelVars, clientVars, serverVars, queueVars>>
    BY DEF StartRefresh, Rebuild, StartCards, CheckValues
<1>2. /\ ModelFixed /\ DataModelTypeOK' /\ ServerTypeOK' /\ BatchInv' /\ MapInv'
      /\ ClientTypeOK' /\ RequestsInv'
    BY <1>1, OutsidePage
<1>3. PageTypeOK /\ DataModelTypeOK /\ BindingsInv /\ ValuesInv
    BY DEF IInv, TypeOK
<1>4. structure_generation \in Nat /\ value_generation \in Nat
    BY <1>3 DEF DataModelTypeOK
<1>5. CASE StartRefresh
    <2>1. PageTypeOK' /\ BindingsInv'
        BY <1>2, <1>3, <1>5 DEF StartRefresh, PageTypeOK, BindingsInv, Bound, ModelFixed
    <2>2. ValuesInv'
        BY <1>2, <1>3, <1>5 DEF StartRefresh, ValuesInv, Shown, ModelFixed
    <2> QED BY <1>2, <2>1, <2>2 DEF IInv, TypeOK
<1>6. CASE Rebuild
    <2>1. PageTypeOK'
        BY <1>3, <1>4, <1>6, EmptySeq DEF Rebuild, PageTypeOK
    <2>2. BindingsInv' /\ ValuesInv'
        BY <1>2, <1>4, <1>6 DEF Rebuild, BindingsInv, ValuesInv, ModelFixed
    <2> QED BY <1>2, <2>1, <2>2 DEF IInv, TypeOK
<1>7. CASE StartCards
    <2>1. PageTypeOK' /\ BindingsInv'
        BY <1>2, <1>3, <1>7 DEF StartCards, PageTypeOK, BindingsInv, Bound, ModelFixed
    <2>2. bindings # <<>> => 1 <= Len(bindings)
        BY <1>3, EmptySeq, LenProperties DEF PageTypeOK
    <2>3. ValuesInv'
        BY <1>2, <1>3, <1>4, <1>7, <2>2 DEF StartCards, ValuesInv, ModelFixed
    <2> QED BY <1>2, <2>1, <2>3 DEF IInv, TypeOK
<1>8. CASE CheckValues
    <2>1. PageTypeOK' /\ BindingsInv'
        BY <1>2, <1>3, <1>4, <1>8 DEF CheckValues, PageTypeOK, BindingsInv, Bound, ModelFixed
    <2>2. bindings # <<>> => 1 <= Len(bindings)
        BY <1>3, EmptySeq, LenProperties DEF PageTypeOK
    <2>3. DOMAIN bindings = 1 .. Len(bindings)
        BY <1>3, LenProperties DEF PageTypeOK
    <2>4. ValuesInv'
        BY <1>2, <1>3, <1>4, <1>8, <2>2, <2>3 DEF CheckValues, ValuesInv, Shown, ModelFixed
    <2> QED BY <1>2, <2>1, <2>4 DEF IInv, TypeOK
<1> QED BY <1>5, <1>6, <1>7, <1>8

LEMMA ScanStep == IInv /\ ScanTag => IInv'
<1> SUFFICES ASSUME IInv, ScanTag PROVE IInv'
    OBVIOUS
<1>1. /\ ui = "scan" /\ ui' \in {"scan", "created"}
      /\ UNCHANGED <<modelVars, clientVars, serverVars, queueVars,
                     observed_structure_generation, observed_value_generation>>
      /\ ui_index' = ui_index + 1 \/ ui_index' = 1
      /\ ui' = "created" => ui_index' = 1
    BY DEF ScanTag
<1>2. /\ ModelFixed /\ DataModelTypeOK' /\ ServerTypeOK' /\ BatchInv' /\ MapInv'
      /\ ClientTypeOK' /\ RequestsInv'
    BY <1>1, OutsidePage
<1>3. PageTypeOK /\ DataModelTypeOK /\ BindingsInv /\ ValuesInv
    BY DEF IInv, TypeOK
<1> DEFINE control == [index |-> ui_index, node |-> tags[ui_index].node, shown |-> FALSE,
                       shown_node |-> tags[ui_index].node, checked |-> FALSE,
                       pending |-> FALSE]
<1>4. CASE ui_index \in DOMAIN tags /\ bindings' = Append(bindings, control)
    <2>1. tags[ui_index] \in TagEntry /\ ui_index \in 1 .. TagCapacity
        BY <1>3, <1>4, ElementOfSeq, LenProperties, DataModelAssumption DEF DataModelTypeOK
    <2>2. control \in Binding
        BY <2>1, PipelineAssumption DEF Binding, TagEntry
    <2>3. /\ bindings' \in Seq(Binding) /\ Len(bindings') = Len(bindings) + 1
          /\ DOMAIN bindings' = 1 .. Len(bindings) + 1
          /\ \A i \in DOMAIN bindings' :
                bindings'[i] = control \/ (i \in DOMAIN bindings /\ bindings'[i] = bindings[i])
        <3>1. bindings \in Seq(Binding)
            BY <1>3 DEF PageTypeOK
        <3> HIDE DEF control
        <3>2. /\ bindings' \in Seq(Binding) /\ Len(bindings') = Len(bindings) + 1
              /\ DOMAIN bindings' = 1 .. Len(bindings) + 1 /\ DOMAIN bindings = 1 .. Len(bindings)
              /\ Len(bindings) \in Nat
            BY <1>4, <2>2, <3>1, AppendProperties, LenProperties
        <3>3. ASSUME NEW i \in DOMAIN bindings'
              PROVE bindings'[i] = control \/ (i \in DOMAIN bindings /\ bindings'[i] = bindings[i])
            BY <1>4, <2>2, <3>1, <3>2, AppendProperties
        <3> QED BY <3>2, <3>3
    <2>4. PageTypeOK'
        BY <1>1, <1>3, <2>3 DEF PageTypeOK
    <2>5. BindingsInv'
        BY <1>1, <1>2, <1>3, <1>4, <2>3 DEF BindingsInv, Bound, ModelFixed
    <2>6. ValuesInv'
        <3>1. Len(bindings) \in Nat
            BY <1>3, LenProperties DEF PageTypeOK
        <3> QED BY <1>1, <1>2, <1>3, <2>3, <3>1 DEF ValuesInv, DataModelTypeOK, ModelFixed
    <2> QED BY <1>2, <2>4, <2>5, <2>6 DEF IInv, TypeOK
<1>5. CASE bindings' = bindings
    <2>1. PageTypeOK' /\ BindingsInv'
        BY <1>1, <1>2, <1>3, <1>5 DEF PageTypeOK, BindingsInv, Bound, ModelFixed
    <2>2. bindings # <<>> => 1 <= Len(bindings)
        BY <1>3, EmptySeq, LenProperties DEF PageTypeOK
    <2>3. ValuesInv'
        BY <1>1, <1>2, <1>3, <1>5, <2>2 DEF ValuesInv, DataModelTypeOK, ModelFixed
    <2> QED BY <1>2, <2>1, <2>3 DEF IInv, TypeOK
<1> QED BY <1>4, <1>5 DEF ScanTag

\* A refresh passes the controls one by one and leaves each current.
LEMMA UpdateStep == IInv /\ UpdateBinding => IInv'
<1> SUFFICES ASSUME IInv, UpdateBinding PROVE IInv'
    OBVIOUS
<1>1. /\ ui \in {"created", "refresh"}
      /\ UNCHANGED <<modelVars, clientVars, serverVars, queueVars,
                     observed_structure_generation, observed_value_generation>>
      /\ IF ui_index < Len(bindings)
         THEN ui_index' = ui_index + 1 /\ UNCHANGED ui
         ELSE ui_index' = 1 /\ ui' = IF ui = "created" THEN "values" ELSE "idle"
    BY DEF UpdateBinding
<1>2. /\ ModelFixed /\ DataModelTypeOK' /\ ServerTypeOK' /\ BatchInv' /\ MapInv'
      /\ ClientTypeOK' /\ RequestsInv'
    BY <1>1, OutsidePage
<1>3. PageTypeOK /\ DataModelTypeOK /\ BindingsInv /\ ValuesInv
    BY DEF IInv, TypeOK
<1>4. /\ DOMAIN bindings = 1 .. Len(bindings) /\ Len(bindings) \in Nat
      /\ ui_index \in Nat \ {0} /\ value_generation \in Nat
    BY <1>3, LenProperties DEF PageTypeOK, DataModelTypeOK
<1>5. /\ ui' \in {"created", "refresh", "values", "idle"} /\ ui_index' \in Nat \ {0}
      /\ ui' = "created" => ui = "created"
      /\ ui' \in {"created", "refresh"} => ui_index' <= Len(bindings)
    BY <1>1, <1>4
<1>6. /\ observed_value_generation' <= value_generation'
      /\ ui' \in {"cards", "scan", "created"} => observed_value_generation' = -1
    <2>1. /\ UNCHANGED <<observed_value_generation, value_generation>>
          /\ observed_value_generation <= value_generation
          /\ ui = "created" => observed_value_generation = -1
        BY <1>1, <1>2, <1>3 DEF ValuesInv, ModelFixed
    <2> QED BY <1>5, <2>1
<1>7. CASE bindings' = bindings /\ (bindings = <<>> \/ bindings[ui_index].index \notin DOMAIN tags)
    <2>1. PageTypeOK' /\ BindingsInv'
        BY <1>1, <1>2, <1>3, <1>5, <1>7 DEF PageTypeOK, BindingsInv, Bound, ModelFixed
    <2>2. ASSUME \A i \in DOMAIN bindings :
                    ~(observed_structure_generation = structure_generation /\ ~structure_dirty)
          PROVE  ValuesInv'
        <3>1. \A i \in DOMAIN bindings' :
                 ~(observed_structure_generation' = structure_generation' /\ ~structure_dirty')
            BY <1>1, <1>2, <1>7, <2>2 DEF ModelFixed
        <3>2. ui' \in {"created", "refresh"} /\ bindings' # <<>> => ui_index' <= Len(bindings')
            BY <1>5, <1>7
        <3> QED BY <1>6, <3>1, <3>2 DEF ValuesInv, Shown
    <2>3. ASSUME bindings # <<>>, bindings[ui_index].index \notin DOMAIN tags
          PROVE  ValuesInv'
        <3>1. ui_index \in DOMAIN bindings
            BY <1>1, <1>3, <1>4, <2>3 DEF ValuesInv
        <3>2. ~(observed_structure_generation = structure_generation /\ ~structure_dirty)
            BY <1>3, <2>3, <3>1, BoundControl
        <3> QED BY <2>2, <3>2
    <2>4. ASSUME bindings = <<>> PROVE ValuesInv'
        <3>1. DOMAIN bindings = {}
            BY <2>4, EmptySeq
        <3> QED BY <2>2, <3>1
    <2> QED BY <1>2, <1>7, <2>1, <2>3, <2>4 DEF IInv, TypeOK
<1>8. CASE bindings # <<>> /\ bindings[ui_index].index \in DOMAIN tags
    <2> DEFINE b == bindings[ui_index]
               tag == tags[b.index]
    <2>1. ui_index \in DOMAIN bindings
        BY <1>1, <1>3, <1>4, <1>8 DEF ValuesInv
    <2>2. b \in Binding /\ tag \in TagEntry
        BY <1>3, <1>8, <2>1, BoundControl
    <2>3. PICK s \in Shows(b, tag) : bindings' = [bindings EXCEPT ![ui_index] = s]
        BY <1>8 DEF UpdateBinding
    <2>4. /\ s \in Binding /\ s.index = b.index /\ s.node = b.node
          /\ s.pending \/ (s.shown = tag.value /\ s.shown_node = tag.node /\ s.checked = s.shown)
        BY <2>2, ShowsKeeps
    <2>5. /\ bindings' \in Seq(Binding) /\ Len(bindings') = Len(bindings)
          /\ DOMAIN bindings' = DOMAIN bindings
          /\ \A i \in DOMAIN bindings : bindings'[i] = IF i = ui_index THEN s ELSE bindings[i]
          /\ BindingsInv'
        BY <1>1, <1>2, <1>3, <2>1, <2>3, <2>4, ReplacedControl
    <2>6. PageTypeOK'
        BY <1>1, <1>3, <1>5, <2>5 DEF PageTypeOK
    <2>7. ASSUME observed_structure_generation = structure_generation, ~structure_dirty,
                 observed_value_generation = value_generation,
                 NEW i \in DOMAIN bindings, ui' # "refresh" \/ i < ui_index'
          PROVE  Shown(bindings[i])' \/ i # ui_index
        <3>1. tag.node = b.node
            BY <1>3, <2>1, <2>7, BoundControl
        <3> QED BY <1>2, <2>4, <2>5, <3>1 DEF Shown, ModelFixed
    <2>8. ASSUME observed_structure_generation = structure_generation, ~structure_dirty,
                 observed_value_generation = value_generation,
                 NEW i \in DOMAIN bindings, ui' # "refresh" \/ i < ui_index', i # ui_index
          PROVE  Shown(bindings[i])'
        <3>1. ui = "refresh" /\ i < ui_index
            BY <1>1, <1>3, <1>4, <2>8 DEF ValuesInv
        <3>2. Shown(bindings[i])
            BY <1>3, <2>8, <3>1 DEF ValuesInv
        <3> QED BY <1>2, <2>5, <2>8, <3>2 DEF Shown, ModelFixed
    <2>9. ValuesInv'
        <3>1. ASSUME observed_structure_generation' = structure_generation', ~structure_dirty',
                     observed_value_generation' = value_generation',
                     NEW i \in DOMAIN bindings', ui' # "refresh" \/ i < ui_index'
              PROVE  Shown(bindings[i])'
            <4>1. /\ observed_structure_generation = structure_generation /\ ~structure_dirty
                  /\ observed_value_generation = value_generation /\ i \in DOMAIN bindings
                BY <1>1, <1>2, <2>5, <3>1 DEF ModelFixed
            <4> QED BY <2>7, <2>8, <3>1, <4>1
        <3>2. ui' \in {"created", "refresh"} /\ bindings' # <<>> => ui_index' <= Len(bindings')
            BY <1>5, <2>5
        <3> QED BY <1>6, <3>1, <3>2 DEF ValuesInv, Shown
    <2> QED BY <1>2, <2>5, <2>6, <2>9 DEF IInv, TypeOK
<1> QED BY <1>7, <1>8 DEF UpdateBinding

LEMMA TapStep == IInv /\ Tap => IInv'
<1> SUFFICES ASSUME IInv, Tap PROVE IInv'
    OBVIOUS
<1>1. /\ ui = "idle"
      /\ UNCHANGED <<modelVars, clientVars, serverVars, ui, ui_index, scan_limit,
                     observed_structure_generation, observed_value_generation>>
    BY DEF Tap
<1>2. ModelFixed /\ DataModelTypeOK' /\ ServerTypeOK' /\ BatchInv' /\ MapInv'
    BY <1>1, OutsidePage
<1>3. PageTypeOK /\ DataModelTypeOK /\ BindingsInv /\ ValuesInv /\ ClientTypeOK /\ RequestsInv
    BY DEF IInv, TypeOK
<1>4. PICK k \in DOMAIN bindings, v \in Values :
         LET b == bindings[k]
             turned == [b EXCEPT !.checked = v]
             wish == [turned EXCEPT !.shown = v, !.shown_node = b.node, !.pending = TRUE]
         IN  \/ /\ Len(write_queue) < WriteQueueLength
                /\ write_queue' = Append(write_queue,
                          [index |-> b.index, value |-> v, node |-> b.node,
                           generation |-> observed_structure_generation])
                /\ bindings' = [bindings EXCEPT ![k] = wish]
             \/ /\ UNCHANGED write_queue
                /\ \E s \in IF b.index \in DOMAIN tags
                            THEN Shows(turned, tags[b.index]) ELSE {turned} :
                        bindings' = [bindings EXCEPT ![k] = s]
    BY DEF Tap
<1> DEFINE b == bindings[k]
           turned == [b EXCEPT !.checked = v]
           wish == [turned EXCEPT !.shown = v, !.shown_node = b.node, !.pending = TRUE]
           request == [index |-> b.index, value |-> v, node |-> b.node,
                       generation |-> observed_structure_generation]
<1>5. b \in Binding /\ (b.index \in DOMAIN tags => tags[b.index] \in TagEntry)
    BY <1>3, BoundControl
<1>6. /\ turned \in Binding /\ turned.index = b.index /\ turned.node = b.node
      /\ wish \in Binding /\ wish.index = b.index /\ wish.node = b.node /\ wish.pending
    BY <1>5 DEF Binding
<1>7. request \in Request
    BY <1>3, <1>5 DEF Binding, Request, PageTypeOK
<1>8. ClientTypeOK' /\ RequestsInv'
    <2>1. CASE UNCHANGED write_queue
        BY <1>1, <1>2, <1>3, <2>1, RequestsFixed DEF ClientTypeOK, ModelFixed, clientVars, serverVars
    <2>2. CASE Len(write_queue) < WriteQueueLength /\ write_queue' = Append(write_queue, request)
        <3>1. write_queue \in Seq(Request) /\ Len(write_queue) \in Nat
            BY <1>3, LenProperties DEF ClientTypeOK
        <3> HIDE DEF request
        <3>2. /\ write_queue' \in Seq(Request) /\ Len(write_queue') = Len(write_queue) + 1
              /\ DOMAIN write_queue' = 1 .. Len(write_queue) + 1
              /\ DOMAIN write_queue = 1 .. Len(write_queue)
            BY <1>7, <2>2, <3>1, AppendProperties, LenProperties
        <3>3. ASSUME NEW i \in DOMAIN write_queue'
              PROVE  \/ write_queue'[i] = request
                     \/ i \in DOMAIN write_queue /\ write_queue'[i] = write_queue[i]
            BY <1>7, <2>2, <3>1, <3>2, AppendProperties
        <3>4. Bound(request.generation, request.index, request.node)
            BY <1>3 DEF request, BindingsInv
        <3>5. RequestsInv'
            BY <1>2, <1>3, <3>3, <3>4 DEF RequestsInv, Bound, ModelFixed
        <3>6. Len(write_queue') <= WriteQueueLength
            BY <2>2, <3>1, <3>2, PipelineAssumption
        <3>7. ClientTypeOK'
            BY <1>1, <1>2, <1>3, <3>2, <3>6 DEF ClientTypeOK, ModelFixed, clientVars, serverVars
        <3> QED BY <3>5, <3>7
    <2> QED BY <1>4, <2>1, <2>2
<1>9. PICK s \in Binding :
         /\ bindings' = [bindings EXCEPT ![k] = s]
         /\ s.index = b.index /\ s.node = b.node
         /\ \/ s.pending
            \/ b.index \notin DOMAIN tags
            \/ /\ s.shown = tags[b.index].value /\ s.shown_node = tags[b.index].node
               /\ s.checked = s.shown
    <2>1. CASE bindings' = [bindings EXCEPT ![k] = wish]
        BY <1>6, <2>1
    <2>2. CASE b.index \notin DOMAIN tags /\ bindings' = [bindings EXCEPT ![k] = turned]
        BY <1>6, <2>2
    <2>3. ASSUME b.index \in DOMAIN tags, NEW s \in Shows(turned, tags[b.index]),
                 bindings' = [bindings EXCEPT ![k] = s]
          PROVE  /\ s \in Binding /\ s.index = b.index /\ s.node = b.node
                 /\ \/ s.pending
                    \/ /\ s.shown = tags[b.index].value /\ s.shown_node = tags[b.index].node
                       /\ s.checked = s.shown
        <3>1. turned \in Binding /\ tags[b.index] \in TagEntry
            BY <1>5, <1>6, <2>3
        <3>2. turned.index = b.index /\ turned.node = b.node
            BY <1>6
        <3> HIDE DEF turned
        <3> QED BY <2>3, <3>1, <3>2, ShowsKeeps
    <2> QED BY <1>4, <2>1, <2>2, <2>3
<1>10. /\ bindings' \in Seq(Binding) /\ Len(bindings') = Len(bindings)
       /\ DOMAIN bindings' = DOMAIN bindings
       /\ \A i \in DOMAIN bindings : bindings'[i] = IF i = k THEN s ELSE bindings[i]
       /\ BindingsInv'
    BY <1>1, <1>2, <1>3, <1>9, ReplacedControl
<1>11. PageTypeOK'
    BY <1>1, <1>3, <1>10 DEF PageTypeOK
<1>12. ASSUME observed_structure_generation = structure_generation, ~structure_dirty,
              observed_value_generation = value_generation, NEW i \in DOMAIN bindings
       PROVE  Shown(bindings[i])'
    <2>1. CASE i = k
        <3>1. b.index \in DOMAIN tags /\ tags[b.index].node = b.node
            BY <1>3, <1>12, BoundControl
        <3> QED BY <1>2, <1>9, <1>10, <2>1, <3>1 DEF Shown, ModelFixed
    <2>2. CASE i # k
        <3>1. Shown(bindings[i])
            BY <1>1, <1>3, <1>12 DEF ValuesInv
        <3> QED BY <1>2, <1>10, <1>12, <2>2, <3>1 DEF Shown, ModelFixed
    <2> QED BY <2>1, <2>2
<1>13. ValuesInv'
    BY <1>1, <1>2, <1>3, <1>10, <1>12 DEF ValuesInv, ModelFixed
<1> QED BY <1>2, <1>8, <1>10, <1>11, <1>13 DEF IInv, TypeOK

----------------------------------------------------------------------------
LEMMA NextInv == IInv /\ [Next]_vars => IInv'
<1> SUFFICES ASSUME IInv, [Next]_vars PROVE IInv'
    OBVIOUS
<1>1. CASE Connect \/ ClearTagNodeIds \/ FinishBrowse \/ FailBrowse \/ CreateSubscriptions
           \/ ProcessWriteRequest \/ Iterate \/ EndIteration \/ Server
    BY <1>1, ClientOutsideModel
<1>2. CASE BeginDiscovery \/ ClearModel \/ BrowseObject \/ AddVariable \/ EndDiscovery
    BY <1>2, BeginStep, ClearStep, BrowseObjectStep, AddVariableStep, EndStep
<1>3. CASE DataChange
    BY <1>3, DataChangeStep
<1>4. CASE Refresh
    BY <1>4, BuildSteps, ScanStep, UpdateStep DEF Refresh
<1>5. CASE Tap
    BY <1>5, TapStep
<1>6. CASE UNCHANGED vars
    <2>1. UNCHANGED <<modelVars, clientVars, serverVars, uiVars, queueVars>>
        BY <1>6 DEF vars
    <2>2. /\ ModelFixed /\ DataModelTypeOK' /\ ServerTypeOK' /\ BatchInv' /\ MapInv'
          /\ ClientTypeOK' /\ RequestsInv'
        BY <2>1, OutsidePage
    <2>3. PageTypeOK' /\ BindingsInv' /\ ValuesInv'
        BY <2>1, <2>2, PageFixed, PageTypesFixed DEF IInv, TypeOK
    <2> QED BY <2>2, <2>3 DEF IInv, TypeOK
<1> QED BY <1>1, <1>2, <1>3, <1>4, <1>5, <1>6 DEF Next, Client, Discover, Session

THEOREM SpecInv == Spec => []IInv
BY InitInv, NextInv, PTL DEF Spec

\* Every variable keeps its type, the tables and the queue their bounds, and only
\* known tags are monitored.
THEOREM TypeCorrect == Spec => []TypeOK
<1>1. IInv => TypeOK
    BY DEF IInv
<1> QED BY <1>1, SpecInv, PTL

\* Outside a discovery map and model agree on every tag index, whatever failed and
\* however often the client started over.
THEOREM ModelMatchesMapHolds == Spec => []ModelMatchesMap
<1>1. IInv => ModelMatchesMap
    BY DEF IInv, MapInv, ModelMatchesMap
<1> QED BY <1>1, SpecInv, PTL

\* A page whose noted generations are the model's shows the model.
THEOREM CurrentPageHolds == Spec => []PageWithCurrentGenerationsIsCurrent
<1>1. IInv => PageWithCurrentGenerationsIsCurrent
    <2> SUFFICES ASSUME IInv, ui = "idle", ~structure_update_active,
                        observed_structure_generation = structure_generation,
                        observed_value_generation = value_generation,
                        NEW i \in DOMAIN bindings
                 PROVE  /\ bindings[i].index \in DOMAIN tags
                        /\ tags[bindings[i].index].node = bindings[i].node
                        /\ Shown(bindings[i])
        BY DEF PageWithCurrentGenerationsIsCurrent, Shown
    <2>1. ~structure_dirty
        BY DEF IInv, BatchInv
    <2> QED BY <2>1, BoundControl DEF IInv, TypeOK, ValuesInv
<1> QED BY <1>1, SpecInv, PTL

\* A request made on a page of the present structure reaches the variable its
\* control is labelled with.
THEOREM CurrentWritesHold == Spec => []CurrentWritesHitTheirTag
<1>1. IInv => CurrentWritesHitTheirTag
    <2> SUFFICES ASSUME IInv, NEW i \in DOMAIN write_queue, ~structure_update_active,
                        write_queue[i].generation = structure_generation
                 PROVE  /\ write_queue[i].index \in DOMAIN tag_node_ids
                        /\ tag_node_ids[write_queue[i].index] = write_queue[i].node
        BY DEF CurrentWritesHitTheirTag
    <2>1. ~structure_dirty /\ phase \notin {"clear", "unmap"}
        BY DEF IInv, BatchInv
    <2>2. /\ write_queue[i].index \in DOMAIN tags
          /\ tags[write_queue[i].index].node = write_queue[i].node
        BY <2>1 DEF IInv, RequestsInv, Bound
    <2>3. DOMAIN tag_node_ids = DOMAIN tags
        BY <2>1, LenProperties DEF IInv, TypeOK, ClientTypeOK, DataModelTypeOK, MapInv
    <2> QED BY <2>1, <2>2, <2>3 DEF IInv, MapInv
<1> QED BY <1>1, SpecInv, PTL
==============================================================================
