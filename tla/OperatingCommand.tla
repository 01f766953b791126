-------------------------- MODULE OperatingCommand --------------------------
(***************************************************************************)
(* A compressor operated from a generated page (ui_equipment.c): the       *)
(* switch of its operating command, which leaves automatic mode first, the *)
(* switch of the automatic mode, and the badge with its operating state.   *)
(* The LVGL task queues write requests by what the tags say, the client    *)
(* task serves them one by one and brings the tags up to date later, and   *)
(* the server runs its own cycle.                                          *)
(*                                                                         *)
(* The page is made of a discovery that may have missed a property or a    *)
(* value.  From then on the session and the page stay (HmiPipeline has     *)
(* them change), and every tag is monitored.                               *)
(***************************************************************************)
EXTENDS StationServer, StationNodes, NodeMetadata, EquipmentPage

CONSTANTS
    NoValue,            \* of a tag whose value is not valid
    Unread,             \* sets of what a discovery fails to read
    WriteQueueLength,   \* OPCUA_WRITE_QUEUE_LENGTH
    MaxTaps             \* bound

ASSUME OperatingAssumption ==
    NoValue \notin BOOLEAN /\ WriteQueueLength \in Nat \ {0} /\ MaxTaps \in Nat

VARIABLES
    card,               \* what the model says of the compressor: its kind, and which
                        \*   of its variables has which role
    values,             \* the values of the tags, NoValue where not valid
    badge,              \* displayed_running of the compressor's badge
    switches,           \* per switch: [checked, pending, pending_value]
    write_queue,        \* requests: [variable, value]
    event,              \* the switch whose event still has its own write to queue
    wish,               \* history: the running state last asked for; "none" when it
                        \*   was withdrawn, or lost on the way
    taps                \* counter for the bound

pageVars == <<card, values, badge>>
hmiVars == <<pageVars, switches, write_queue, event, wish, taps>>
vars == <<stationVars, hmiVars>>

Commands == {"automatic_mode", "run_command"}
Asked(value) == IF value THEN "run" ELSE "stop"

Roles == {"operating_command", "operating_status", "automatic_mode"}

\* ui_theme_find_tag_by_role for the compressor, whose model stays.
CardOf(model) ==
    LET i == CHOOSE i \in DOMAIN model.equipment : model.equipment[i].name = "compressor"
        Tag(role) == FindTagByRole(model, i, role)
    IN  [badge |-> EquipmentHeader(model, i),
         tag |-> [r \in Roles |-> IF Tag(r) = 0 THEN "none" ELSE model.tags[Tag(r)].name]]

ByRole(role) == IF card.tag[role] = "none" THEN NoValue ELSE values[card.tag[role]]

\* update_tag_binding: the operating command shows the operating status.
Shown(switch) ==
    IF /\ values[switch] # NoValue /\ card.tag["operating_command"] = switch
       /\ ByRole("operating_status") # NoValue
    THEN ByRole("operating_status")
    ELSE values[switch]

Showing(value) == [checked |-> value, pending |-> FALSE, pending_value |-> value]

Running ==
    card.badge.kind # "PASSIVE" /\ card.badge.status # 0 /\ ByRole("operating_status") = TRUE

\* The names of the variables that have a switch on a page.
SwitchesOf(model, view) ==
    LET bindings == UNION {ToSet(shown.bindings) : shown \in ToSet(view)}
    IN  {model.tags[b.tag].name : b \in {c \in bindings : c.type = "SWITCH"}}

\* The values are those of the first Read, or the first report is still to come;
\* ui_equipment_create ends with an update of the page.
Init ==
    /\ StationInit
    /\ \E unread \in Unread, mode \in {"details", "controls"} :
          LET model == Discover(AddressSpace, unread) IN
          /\ card = CardOf(model)
          /\ values = [v \in Variables |->
                          IF <<v, "Value">> \in unread THEN NoValue ELSE nodes[v]]
          /\ switches = [s \in Commands \intersect SwitchesOf(model, CreateView(model, mode)) |->
                            Showing(Shown(s) = TRUE)]
          /\ badge = Running
    /\ write_queue = <<>> /\ event = "none" /\ wish = "none" /\ taps = 0

----------------------------------------------------------------------------
\* The LVGL task: ui_equipment_update, the badge and one switch.

Idle == event = "none"
PageFrame == UNCHANGED <<stationVars, card, values, write_queue, event, wish, taps>>

ShowState ==
    /\ Idle /\ badge # Running
    /\ badge' = Running
    /\ PageFrame /\ UNCHANGED switches

\* A wish is shown until it comes true or its hold time is over.
Held(switch) ==
    switches[switch].pending /\ switches[switch].pending_value # Shown(switch)

\* A tag without a value says so and leaves the switch alone.
ShowTag(switch) ==
    /\ Idle /\ Shown(switch) # NoValue /\ ~Held(switch)
    /\ switches' = [switches EXCEPT ![switch] = Showing(Shown(switch))]
    /\ PageFrame /\ UNCHANGED badge

\* Mutant: the wish is held for good.
HoldLasts(switch) ==
    /\ Idle /\ Shown(switch) # NoValue /\ Held(switch)
    /\ UNCHANGED vars

\* The hold time is over.
HoldEnds(switch) ==
    /\ Idle /\ Shown(switch) # NoValue /\ Held(switch)
    /\ switches' = [switches EXCEPT ![switch] = Showing(Shown(switch))]
    /\ PageFrame /\ UNCHANGED badge

----------------------------------------------------------------------------
\* The LVGL task: boolean_switch_event, on a switch the touch has turned.

Turned(switch) == [switches[switch] EXCEPT !.checked = ~switches[switch].checked]

HasRoom == Len(write_queue) < WriteQueueLength

\* A request for which there is no room is given up; the switch shows its tag
\* again unless that has no value or an earlier wish is held.
GivesUp(switch, turned) ==
    \/ Shown(switch) # NoValue /\ switches' = [switches EXCEPT ![switch] = Showing(Shown(switch))]
    \/ /\ Shown(switch) = NoValue \/ Held(switch)
       /\ switches' = [switches EXCEPT ![switch] = turned]

Queues(switch, turned) ==
    /\ write_queue' = Append(write_queue, [variable |-> switch, value |-> turned.checked])
    /\ switches' = [switches EXCEPT ![switch] =
                      [turned EXCEPT !.pending = TRUE, !.pending_value = turned.checked]]

\* The mode the server will be in when the queued writes are served.
ModeToCome ==
    LET modes == SelectSeq(write_queue, LAMBDA r : r.variable = "automatic_mode")
    IN  IF modes = <<>> THEN nodes["automatic_mode"] ELSE modes[Len(modes)].value

Tappable(switch) ==
    Idle /\ switch \in DOMAIN switches /\ taps < MaxTaps /\ taps' = taps + 1

\* The automatic mode is known to be on, and known to be what it is.
KnownAutomatic ==
    card.tag["operating_command"] = "run_command" /\ ByRole("automatic_mode") = TRUE

TapAutomatic ==
    /\ Tappable("automatic_mode")
    /\ LET turned == Turned("automatic_mode") IN
       IF HasRoom
       THEN /\ Queues("automatic_mode", turned)
            /\ wish' = IF turned.checked THEN "none" ELSE wish
       ELSE GivesUp("automatic_mode", turned) /\ UNCHANGED <<write_queue, wish>>
    /\ UNCHANGED <<stationVars, pageVars, event>>

\* Mutant: the automatic mode is not left.
TapRunOnly ==
    /\ Tappable("run_command")
    /\ switches' = [switches EXCEPT !["run_command"] = Turned("run_command")]
    /\ event' = "run_command"
    /\ wish' = IF KnownAutomatic \/ ~ModeToCome
               THEN Asked(~switches["run_command"].checked) ELSE "none"
    /\ UNCHANGED <<stationVars, pageVars, write_queue>>

\* The automatic mode is left first, if the tag knows of it.  Where it does not, and
\* the mode is or will be automatic, the wish goes the way of a command in
\* automatic mode.
TapRun ==
    /\ Tappable("run_command")
    /\ IF KnownAutomatic /\ ~HasRoom
       THEN /\ GivesUp("run_command", Turned("run_command"))
            /\ UNCHANGED <<write_queue, event, wish>>
       ELSE /\ write_queue' = IF KnownAutomatic
                              THEN Append(write_queue, [variable |-> "automatic_mode",
                                                        value |-> FALSE])
                              ELSE write_queue
            /\ switches' = [switches EXCEPT !["run_command"] = Turned("run_command")]
            /\ event' = "run_command"
            /\ wish' = IF KnownAutomatic \/ ~ModeToCome
                       THEN Asked(~switches["run_command"].checked) ELSE "none"
    /\ UNCHANGED <<stationVars, pageVars>>

\* The second write of the same event, which may find the queue full after the
\* first one took the last place.
QueueRun ==
    /\ event = "run_command"
    /\ LET turned == switches["run_command"] IN
       IF HasRoom
       THEN Queues("run_command", turned) /\ UNCHANGED wish
       ELSE GivesUp("run_command", turned) /\ wish' = "none" /\ UNCHANGED write_queue
    /\ event' = "none"
    /\ UNCHANGED <<stationVars, pageVars, taps>>

Tap == TapAutomatic \/ TapRun

----------------------------------------------------------------------------
\* The client task.

\* process_write_requests, one request.  A write that fails is not repeated.
Serve ==
    /\ write_queue # <<>>
    /\ write_queue' = Tail(write_queue)
    /\ LET request == Head(write_queue) IN
       \/ ClientWrites(request.variable, request.value) /\ UNCHANGED wish
       \/ UNCHANGED stationVars /\ wish' = "none"
    /\ UNCHANGED <<pageVars, switches, event, taps>>

\* data_change_callback: some time after a change the tag has the value.
DataChange(variable) ==
    /\ values[variable] # nodes[variable]
    /\ values' = [values EXCEPT ![variable] = nodes[variable]]
    /\ UNCHANGED <<stationVars, card, badge, switches, write_queue, event, wish, taps>>

----------------------------------------------------------------------------
\* The server's cycle.  A cycle that began in automatic mode overwrites a command
\* served meanwhile, although the mode is manual by then.

Overwrites ==
    /\ cycle = "publish_command" /\ compressor.automatic_mode
    /\ ~nodes["automatic_mode"] /\ commanded

Station ==
    /\ StationCycle
    /\ wish' = IF Overwrites THEN "none" ELSE wish
    /\ UNCHANGED <<pageVars, switches, write_queue, event, taps>>

Refresh == ShowState \/ \E s \in DOMAIN switches : ShowTag(s) \/ HoldEnds(s)
Deliver == \E v \in Variables : DataChange(v)

Next == Refresh \/ Tap \/ QueueRun \/ Serve \/ Deliver \/ Station

\* The server and both tasks keep running, the session lasts, and some published
\* value changes in every cycle, so that the page is refreshed again and again.
Fairness ==
    WF_vars(Station) /\ WF_vars(Serve) /\ WF_vars(Deliver) /\ WF_vars(Refresh \/ QueueRun)

Spec == Init /\ [][Next]_vars /\ Fairness

----------------------------------------------------------------------------
\* Properties.

\* Leaving automatic mode never starts or stops the compressor by itself: in manual
\* mode its state changes only to a command some client wrote since, even if the
\* command that belongs to the change of mode found the queue full or failed
\* (boolean_switch_event, publish, CompressorModel.update).
BumplessTransfer ==
    [][cycle = "update" /\ ~compressor.automatic_mode
       /\ compressor'.is_running # compressor.is_running => commanded]_vars

\* A RUN or STOP tapped on a page that knows the mode, and not lost on the way, is
\* carried out and kept, and its switch shows it (boolean_switch_event,
\* process_write_requests, read_commands).
WishIsCarriedOut ==
    <>[][UNCHANGED <<taps, wish>>]_vars
        => <>[](wish # "none" => /\ wish = Asked(compressor.is_running)
                                 /\ wish = Asked(switches["run_command"].checked))

\* Whatever became of the writes: when the user is quiet and the compressor stays
\* as it is, the switches come to show its state and mode (update_tag_binding).
SwitchesComeToShowMachine ==
    <>[][UNCHANGED <<taps, compressor>>]_vars
        => <>[](/\ switches["run_command"].checked = compressor.is_running
                /\ switches["automatic_mode"].checked = nodes["automatic_mode"]
                /\ card.badge.status # 0 => badge = compressor.is_running)
=============================================================================
