----------------------------- MODULE HmiPipeline -----------------------------
(***************************************************************************)
(* From the OPC UA server to the controls page and back.                   *)
(*                                                                         *)
(* The client task (opcua_client.c) discovers the server's variables into  *)
(* the data model, subscribes to them, and alternates between the queued   *)
(* writes and the session.  The LVGL task (ui_generator.c, ui_equipment.c) *)
(* rebuilds the page when the structure generation changed and refreshes   *)
(* the shown values when the value generation changed.  They share the     *)
(* data model, one locked access at a time, and the queue of write         *)
(* requests, which name a tag by its index.                                *)
(*                                                                         *)
(* The server publishes one object.  Every tag is a readable Boolean       *)
(* without an operating-command role.                                      *)
(***************************************************************************)
EXTENDS DataModel, Integers

CONSTANTS
    Spaces,             \* variable lists a server may publish
    WritableNodes,
    WriteQueueLength,   \* OPCUA_WRITE_QUEUE_LENGTH
    Plant,              \* the NodeId of the object
    MaxConnects, MaxServerEvents, MaxTaps   \* bounds

ASSUME PipelineAssumption ==
    /\ WriteQueueLength \in Nat \ {0}
    /\ Spaces \subseteq Seq(Nodes) /\ Plant \in Nodes
    /\ FALSE \in Values /\ "other" \in SemanticRoles

VARIABLES
    phase,              \* where the client task is
    browse_failed,
    tag_node_ids,       \* the client's NodeId of each tag index
    subscribed,         \* tag indices with a monitored item
    write_queue,
    channel,            \* external: the secure channel is open
    server_space,       \* external: the variables the server publishes
    server_value,       \* external: their values
    notifications,      \* external: tag indices with an undelivered change
    ui,                 \* where the LVGL task is in its refresh callback
    ui_index,           \* the next tag or binding it looks at
    scan_limit,         \* the tag count it read before scanning
    observed_structure_generation,
    observed_value_generation,      \* -1 for UINT32_MAX
    bindings,           \* the page's controls: [index, node, shown, shown_node,
                        \*   checked, pending]; shown is the label's text, checked
                        \*   the switch
    connects, server_events, taps   \* counters for the bounds

clientVars == <<phase, browse_failed, tag_node_ids, subscribed, connects>>
serverVars == <<channel, server_space, server_value, notifications, server_events>>
uiVars == <<ui, ui_index, scan_limit, observed_structure_generation,
            observed_value_generation, bindings>>
queueVars == <<write_queue, taps>>
vars == <<modelVars, clientVars, serverVars, uiVars, queueVars>>

\* ui_generator_create: the page is built once, from the empty model.
PageInit ==
    /\ ui = "idle" /\ ui_index = 1 /\ scan_limit = 0 /\ bindings = <<>>
    /\ observed_structure_generation = 1 /\ observed_value_generation = -1

\* initialize_hmi_pipeline: the data model, the client, the page, and then the
\* client task.
Init ==
    /\ DataModelInit
    /\ PageInit
    /\ phase = "down" /\ browse_failed = FALSE /\ tag_node_ids = <<>>
    /\ subscribed = {} /\ connects = 0
    /\ write_queue = <<>> /\ taps = 0
    /\ channel = FALSE /\ server_space \in Spaces /\ notifications = {}
    /\ server_value \in [Nodes -> {FALSE}] /\ server_events = 0

----------------------------------------------------------------------------
\* The client task: discover_address_space.

Connect ==
    /\ phase = "down" /\ connects < MaxConnects
    /\ connects' = connects + 1
    /\ channel' = TRUE
    /\ phase' = "begin"
    /\ UNCHANGED <<modelVars, browse_failed, tag_node_ids, subscribed, server_space,
                   server_value, notifications, server_events, uiVars, queueVars>>

BeginDiscovery ==
    /\ phase = "begin"
    /\ Begin
    /\ phase' = "clear"
    /\ UNCHANGED <<browse_failed, tag_node_ids, subscribed, connects, serverVars, uiVars, queueVars>>

\* data_model_clear, before the browse and again when it failed.
ClearModel ==
    /\ phase = "clear"
    /\ Clear
    /\ phase' = "unmap"
    /\ UNCHANGED <<browse_failed, tag_node_ids, subscribed, connects, serverVars,
                   uiVars, queueVars>>

\* Mutant: the failed browse leaves the map as it was.
UnmapOnlyBefore ==
    /\ phase = "unmap"
    /\ tag_node_ids' = IF browse_failed THEN tag_node_ids ELSE <<>>
    /\ phase' = IF browse_failed THEN "end" ELSE "browse"
    /\ UNCHANGED <<modelVars, browse_failed, subscribed, connects, serverVars,
                   uiVars, queueVars>>

\* clear_tag_node_ids.
ClearTagNodeIds ==
    /\ phase = "unmap"
    /\ tag_node_ids' = <<>>
    /\ phase' = IF browse_failed THEN "end" ELSE "browse"
    /\ UNCHANGED <<modelVars, browse_failed, subscribed, connects, serverVars,
                   uiVars, queueVars>>

BrowseObject ==
    /\ phase = "browse" /\ channel /\ equipment = <<>>
    /\ AddEquipment([node |-> Plant, parent |-> 0, explicit |-> FALSE, kind |-> "UNKNOWN"])
    /\ UNCHANGED <<clientVars, serverVars, uiVars, queueVars>>

\* add_variable: attributes and value are read, the tag added, its NodeId mapped.
AddVariable ==
    /\ phase = "browse" /\ channel
    /\ equipment # <<>> /\ Len(tags) < Len(server_space)
    /\ LET node == server_space[Len(tags) + 1] IN
       /\ AddTag([node |-> node, equipment |-> 1, semantic_role |-> "other",
                  writable |-> node \in WritableNodes, value |-> server_value[node]])
       /\ tag_node_ids' = Append(tag_node_ids, node)
    /\ UNCHANGED <<phase, browse_failed, subscribed, connects, serverVars, uiVars, queueVars>>

FinishBrowse ==
    /\ phase = "browse" /\ equipment # <<>> /\ Len(tags) = Len(server_space)
    /\ phase' = "end"
    /\ UNCHANGED <<modelVars, browse_failed, tag_node_ids, subscribed, connects,
                   serverVars, uiVars, queueVars>>

\* A service fails, the channel is gone or a table is full.
FailBrowse ==
    /\ phase = "browse"
    /\ browse_failed' = TRUE
    /\ phase' = "clear"
    /\ UNCHANGED <<modelVars, tag_node_ids, subscribed, connects, serverVars, uiVars, queueVars>>

EndDiscovery ==
    /\ phase = "end"
    /\ End
    /\ phase' = IF browse_failed THEN "down" ELSE "subscribe"
    /\ browse_failed' = FALSE
    /\ UNCHANGED <<tag_node_ids, subscribed, connects, serverVars,
                   uiVars, queueVars>>

Discover ==
    \/ BeginDiscovery \/ ClearModel \/ ClearTagNodeIds
    \/ BrowseObject \/ AddVariable \/ FinishBrowse \/ FailBrowse \/ EndDiscovery

----------------------------------------------------------------------------
\* The client task: the session.

\* create_subscriptions: without a subscription the values stay at their initial
\* Read and the session goes on.  A new item has its current value to report.  That
\* a single item cannot be created is left out.
CreateSubscriptions ==
    /\ phase = "subscribe"
    /\ phase' = "writes"
    /\ \E items \in {{}, DOMAIN tags} :
          /\ items # {} => channel
          /\ subscribed' = items /\ notifications' = items
    /\ UNCHANGED <<modelVars, browse_failed, tag_node_ids, connects, channel,
                   server_space, server_value, server_events, uiVars, queueVars>>

Accepted(request) ==
    /\ request.index \in DOMAIN tag_node_ids
    /\ request.index \in DOMAIN tags /\ tags[request.index].writable

\* The server takes a value and queues a report where the node is monitored.
Store(node, value) ==
    /\ server_value' = [server_value EXCEPT ![node] = value]
    /\ notifications' = notifications \union
            {i \in subscribed : tag_node_ids[i] = node /\ server_value[node] # value}

\* process_write_requests, one request: a wrong index or a read-only tag is
\* rejected, a failed write is not repeated.
ProcessWriteRequest ==
    /\ phase = "writes" /\ write_queue # <<>>
    /\ write_queue' = Tail(write_queue)
    /\ LET request == Head(write_queue) IN
       \/ /\ Accepted(request) /\ channel
          /\ Store(tag_node_ids[request.index], request.value)
       \/ UNCHANGED <<server_value, notifications>>
    /\ UNCHANGED <<modelVars, clientVars, channel, server_space, server_events, uiVars, taps>>

Iterate ==
    /\ phase = "writes" /\ write_queue = <<>>
    /\ phase' = "iterate"
    /\ UNCHANGED <<modelVars, browse_failed, tag_node_ids, subscribed, connects,
                   serverVars, uiVars, queueVars>>

\* Mutant: the monitored item's context is taken as the index, one too high.
DataChangeOffByOne ==
    /\ phase = "iterate" /\ channel
    /\ \E i \in notifications :
          /\ notifications' = notifications \ {i}
          /\ IF i + 1 \in DOMAIN tags
             THEN UpdateValue(i + 1, server_value[tag_node_ids[i]])
             ELSE UNCHANGED modelVars
    /\ UNCHANGED <<clientVars, channel, server_space, server_value, server_events,
                   uiVars, queueVars>>

\* data_change_callback, inside UA_Client_run_iterate.
DataChange ==
    /\ phase = "iterate" /\ channel
    /\ \E i \in notifications :
          /\ notifications' = notifications \ {i}
          /\ UpdateValue(i, server_value[tag_node_ids[i]])
    /\ UNCHANGED <<clientVars, channel, server_space, server_value, server_events,
                   uiVars, queueVars>>

\* The loop goes on, or ends: the channel is lost, or a pause, another endpoint
\* or a lost network is noticed.  Queued writes stay in the queue.
EndIteration ==
    /\ phase = "iterate"
    /\ \/ channel /\ phase' = "writes" /\ UNCHANGED <<subscribed, notifications>>
       \/ phase' = "down" /\ subscribed' = {} /\ notifications' = {}
    /\ UNCHANGED <<modelVars, browse_failed, tag_node_ids, connects, channel,
                   server_space, server_value, server_events, uiVars, queueVars>>

Session == CreateSubscriptions \/ ProcessWriteRequest \/ Iterate \/ DataChange \/ EndIteration
Client == Connect \/ Discover \/ Session

----------------------------------------------------------------------------
\* The server (external).

ServerValueChanges ==
    /\ server_events < MaxServerEvents
    /\ server_events' = server_events + 1
    /\ \E i \in DOMAIN server_space, v \in Values :
          v # server_value[server_space[i]] /\ Store(server_space[i], v)
    /\ UNCHANGED <<modelVars, clientVars, channel, server_space, uiVars, queueVars>>

\* A restart, or another server at the endpoint: the open channel is lost.
ServerRestarts ==
    /\ server_events < MaxServerEvents
    /\ server_events' = server_events + 1
    /\ channel' = FALSE
    /\ server_space' \in Spaces
    /\ UNCHANGED <<modelVars, clientVars, server_value, notifications, uiVars, queueVars>>

Server == ServerValueChanges \/ ServerRestarts

----------------------------------------------------------------------------
\* The LVGL task: refresh_timer_callback.

\* Either the structure generation differs, or the callback goes on to the values.
StartRefresh ==
    /\ ui = "idle"
    /\ ui' = IF structure_generation # observed_structure_generation
             THEN "rebuild" ELSE "values"
    /\ UNCHANGED <<modelVars, clientVars, serverVars, queueVars, ui_index, scan_limit,
                   observed_structure_generation, observed_value_generation, bindings>>

\* Mutant: the old controls stay on the page.
RebuildKeepsBindings ==
    /\ ui = "rebuild"
    /\ observed_structure_generation' = structure_generation
    /\ observed_value_generation' = -1
    /\ ui' = "cards"
    /\ UNCHANGED <<modelVars, clientVars, serverVars, queueVars, ui_index, scan_limit, bindings>>

\* rebuild_interface up to the controls page: it notes the generation first.
Rebuild ==
    /\ ui = "rebuild"
    /\ observed_structure_generation' = structure_generation
    /\ observed_value_generation' = -1
    /\ bindings' = <<>>
    /\ ui' = "cards"
    /\ UNCHANGED <<modelVars, clientVars, serverVars, queueVars, ui_index, scan_limit>>

\* ui_equipment_create: no object, no card; create_controls_card: no writable tag,
\* no card.  The tag count is read once.
StartCards ==
    /\ ui = "cards"
    /\ IF equipment # <<>> /\ \E i \in DOMAIN tags : tags[i].writable
       THEN ui' = "scan" /\ scan_limit' = Len(tags)
       ELSE ui' = "created" /\ scan_limit' = 0
    /\ ui_index' = 1
    /\ UNCHANGED <<modelVars, clientVars, serverVars, queueVars,
                   observed_structure_generation, observed_value_generation, bindings>>

\* create_control for one writable tag; the control first shows FALSE.
ScanTag ==
    /\ ui = "scan"
    /\ bindings' = IF ui_index \in DOMAIN tags /\ tags[ui_index].writable
                   THEN Append(bindings, [index |-> ui_index, node |-> tags[ui_index].node,
                                          shown |-> FALSE, shown_node |-> tags[ui_index].node,
                                          checked |-> FALSE, pending |-> FALSE])
                   ELSE bindings
    /\ IF ui_index < scan_limit
       THEN ui_index' = ui_index + 1 /\ UNCHANGED <<ui, scan_limit>>
       ELSE ui' = "created" /\ ui_index' = 1 /\ scan_limit' = 0
    /\ UNCHANGED <<modelVars, clientVars, serverVars, queueVars,
                   observed_structure_generation, observed_value_generation>>

\* What update_tag_binding makes of a binding: a value other than the one just
\* written is held back until it arrives or the hold time is over.
Shows(binding, tag) ==
    LET current == [binding EXCEPT !.shown = tag.value, !.shown_node = tag.node,
                                   !.checked = tag.value, !.pending = FALSE]
    IN  IF binding.pending /\ tag.value # binding.shown THEN {binding, current}
        ELSE {current}

\* ui_equipment_update, one binding (or none to update): without its tag it stays
\* as it is.  The first update ends the creation, the second the callback.
UpdateBinding ==
    /\ ui \in {"created", "refresh"}
    /\ IF bindings = <<>> THEN UNCHANGED bindings ELSE
       LET b == bindings[ui_index] IN
       IF b.index \in DOMAIN tags
       THEN \E shown \in Shows(b, tags[b.index]) : bindings' = [bindings EXCEPT ![ui_index] = shown]
       ELSE UNCHANGED bindings
    /\ IF ui_index < Len(bindings)
       THEN ui_index' = ui_index + 1 /\ UNCHANGED ui
       ELSE ui_index' = 1 /\ ui' = IF ui = "created" THEN "values" ELSE "idle"
    /\ UNCHANGED <<modelVars, clientVars, serverVars, queueVars, scan_limit,
                   observed_structure_generation, observed_value_generation>>

\* The value generation is noted before the values are read.
CheckValues ==
    /\ ui = "values"
    /\ ui' = IF value_generation = observed_value_generation THEN "idle" ELSE "refresh"
    /\ observed_value_generation' = value_generation
    /\ ui_index' = 1
    /\ UNCHANGED <<modelVars, clientVars, serverVars, queueVars, scan_limit,
                   observed_structure_generation, bindings>>

Refresh ==
    \/ StartRefresh \/ Rebuild \/ StartCards \/ ScanTag \/ UpdateBinding \/ CheckValues

----------------------------------------------------------------------------
\* The user.

\* boolean_switch_event, on a switch the touch has turned: the request is queued
\* and the label shows the wish, or the queue is full and the control shows the
\* tag again.
Tap ==
    /\ ui = "idle" /\ taps < MaxTaps
    /\ taps' = taps + 1
    /\ \E i \in DOMAIN bindings, v \in Values :
          LET b == bindings[i]
              turned == [b EXCEPT !.checked = v]
          IN
          /\ v # b.checked
          /\ \/ /\ Len(write_queue) < WriteQueueLength
                /\ write_queue' = Append(write_queue,
                          [index |-> b.index, value |-> v, node |-> b.node,
                           generation |-> observed_structure_generation])
                /\ bindings' = [bindings EXCEPT ![i] = [turned EXCEPT !.shown = v,
                                                 !.shown_node = b.node, !.pending = TRUE]]
             \/ /\ Len(write_queue) >= WriteQueueLength
                /\ UNCHANGED write_queue
                /\ \E shown \in IF b.index \in DOMAIN tags
                                THEN Shows(turned, tags[b.index]) ELSE {turned} :
                        bindings' = [bindings EXCEPT ![i] = shown]
    /\ UNCHANGED <<modelVars, clientVars, serverVars, ui, ui_index, scan_limit,
                   observed_structure_generation, observed_value_generation>>

----------------------------------------------------------------------------
Next == Client \/ Server \/ Refresh \/ Tap

\* The client task and the refresh timer keep running, and the server's reports
\* arrive in some iteration as long as the session iterates.
Fairness == WF_vars(Client) /\ WF_vars(Refresh) /\ SF_vars(DataChange)

Spec == Init /\ [][Next]_vars
FairSpec == Spec /\ Fairness

----------------------------------------------------------------------------
\* Properties.

Request == [index : 1..TagCapacity, value : Values, node : Nodes, generation : Nat]

Binding ==
    [index : 1..TagCapacity, node : Nodes, shown : Values, shown_node : Nodes,
     checked : Values, pending : BOOLEAN]

ClientTypeOK ==
    /\ phase \in {"down", "begin", "clear", "unmap", "browse", "end", "subscribe",
                  "writes", "iterate"}
    /\ browse_failed \in BOOLEAN
    /\ tag_node_ids \in Seq(Nodes)
    /\ subscribed \subseteq DOMAIN tags /\ notifications \subseteq subscribed
    /\ write_queue \in Seq(Request) /\ Len(write_queue) <= WriteQueueLength

ServerTypeOK == server_space \in Seq(Nodes) /\ server_value \in [Nodes -> Values]

PageTypeOK ==
    /\ ui \in {"idle", "rebuild", "cards", "scan", "created", "values", "refresh"}
    /\ ui_index \in Nat \ {0}
    /\ observed_structure_generation \in Nat
    /\ observed_value_generation \in Nat \union {-1}
    /\ bindings \in Seq(Binding)

\* Every variable keeps its type, and queue and tables their bounds.
TypeOK == DataModelTypeOK /\ ClientTypeOK /\ ServerTypeOK /\ PageTypeOK

\* Outside a discovery the client's map and the model agree on what every tag
\* index means, after a failed one as well (discover_address_space).
ModelMatchesMap ==
    phase \in {"down", "subscribe", "writes", "iterate"} =>
        /\ Len(tag_node_ids) = Len(tags)
        /\ \A i \in DOMAIN tags : tags[i].node = tag_node_ids[i]

\* A page between two refreshes whose generations are still the model's shows the
\* model: each control is bound to the tag it is labelled with and shows its value
\* unless a write is pending, whatever was discovered or changed while the page was
\* built or refreshed tag by tag (refresh_timer_callback, ui_equipment_update).
PageWithCurrentGenerationsIsCurrent ==
    /\ ui = "idle" /\ ~structure_update_active
    /\ observed_structure_generation = structure_generation
    /\ observed_value_generation = value_generation
    => \A b \in {bindings[i] : i \in DOMAIN bindings} :
          /\ b.index \in DOMAIN tags /\ tags[b.index].node = b.node
          /\ b.pending \/ (/\ b.shown = tags[b.index].value /\ b.shown_node = b.node
                           /\ b.checked = b.shown)

\* A request made on a page of the present structure, and not while it is being
\* replaced, reaches the variable its control is labelled with.
CurrentWritesHitTheirTag ==
    \A r \in {write_queue[i] : i \in DOMAIN write_queue} :
        r.generation = structure_generation /\ ~structure_update_active =>
            r.index \in DOMAIN tag_node_ids /\ tag_node_ids[r.index] = r.node

\* When the session lasts, every tag is monitored and server and user are quiet,
\* each control comes to show its variable's value on the server for good, except
\* one whose write never came true.
PageComesToShowServer ==
    /\ <>[](phase \in {"writes", "iterate"} /\ channel /\ subscribed = DOMAIN tags)
    /\ <>[][UNCHANGED <<server_space, server_value, taps>>]_vars
    => <>[](/\ {b.node : b \in {bindings[i] : i \in DOMAIN bindings}} =
               {server_space[i] : i \in DOMAIN server_space} \intersect WritableNodes
            /\ \A b \in {bindings[i] : i \in DOMAIN bindings} :
                  b.pending \/ (b.shown = server_value[b.node] /\ b.checked = b.shown))

\* README.md:36, "Objects and variables are uniquely identified by their complete
\* OPC UA NodeId": what the server accepts as a write is meant for that node.  The
\* code does not keep it: see run hmi_stale_write.
WritesHitTheIntendedNode ==
    [][\A n \in Nodes :
          server_value'[n] # server_value[n] /\ Len(write_queue') < Len(write_queue)
              => n = Head(write_queue).node]_vars
=============================================================================
