---------------------------- MODULE StationServer ----------------------------
(***************************************************************************)
(* The operating mode of one compressor of the OPC UA server the           *)
(* repository brings along (simulator/main.py, opcua_server.py and         *)
(* compressor_logic.py).  Each cycle copies the writable variables into    *)
(* the model, advances it, and publishes it again; in automatic mode the   *)
(* run command is overwritten with the running state.  Every access to a   *)
(* variable is awaited, so a client's write may come between any two.      *)
(*                                                                         *)
(* Whether demand asks for the compressor is left open in every cycle.     *)
(***************************************************************************)
EXTENDS Naturals

VARIABLES
    nodes,          \* the variables' values in the address space
    compressor,     \* the model: [automatic_mode, manual_run_command, is_running]
    cycle,          \* the next access of the cycle
    commanded       \* history: the run command's value is a client's

stationVars == <<nodes, compressor, cycle, commanded>>

Variables == {"automatic_mode", "run_command", "run_status"}

\* The address space and the model start with the same values.
StationInit ==
    /\ nodes = [v \in Variables |-> v = "automatic_mode"]
    /\ compressor = [automatic_mode |-> TRUE, manual_run_command |-> FALSE,
                     is_running |-> FALSE]
    /\ cycle = "read_mode"
    /\ commanded = FALSE

\* read_commands.
ReadMode ==
    /\ cycle = "read_mode"
    /\ compressor' = [compressor EXCEPT !.automatic_mode = nodes["automatic_mode"]]
    /\ cycle' = "read_command"
    /\ UNCHANGED <<nodes, commanded>>

ReadCommand ==
    /\ cycle = "read_command"
    /\ compressor' = [compressor EXCEPT !.manual_run_command = nodes["run_command"]]
    /\ cycle' = "update"
    /\ UNCHANGED <<nodes, commanded>>

\* CompressorModel.update: the request of the dispatch decides in automatic mode, the
\* command otherwise.
UpdateCompressor(automatic_request) ==
    compressor' = [compressor EXCEPT !.is_running =
        IF compressor.automatic_mode THEN automatic_request
        ELSE compressor.manual_run_command]

\* StationModel.update: the demand may ask for the compressor or not.
Update ==
    /\ cycle = "update"
    /\ \E automatic_request \in BOOLEAN : UpdateCompressor(automatic_request)
    /\ cycle' = "publish_status"
    /\ UNCHANGED <<nodes, commanded>>

\* publish.
PublishStatus ==
    /\ cycle = "publish_status"
    /\ nodes' = [nodes EXCEPT !["run_status"] = compressor.is_running]
    /\ cycle' = "publish_command"
    /\ UNCHANGED <<compressor, commanded>>

\* Mutant: the run command is the client's alone.
PublishLeavesCommand ==
    /\ cycle = "publish_command"
    /\ cycle' = "read_mode"
    /\ UNCHANGED <<nodes, compressor, commanded>>

PublishCommand ==
    /\ cycle = "publish_command"
    /\ IF compressor.automatic_mode
       THEN /\ nodes' = [nodes EXCEPT !["run_command"] = compressor.is_running]
            /\ commanded' = FALSE
       ELSE UNCHANGED <<nodes, commanded>>
    /\ cycle' = "read_mode"
    /\ UNCHANGED compressor

StationCycle == ReadMode \/ ReadCommand \/ Update \/ PublishStatus \/ PublishCommand

\* A client's write, which the library stores at once.
ClientWrites(variable, value) ==
    /\ nodes' = [nodes EXCEPT ![variable] = value]
    /\ commanded' = (commanded \/ variable = "run_command")
    /\ UNCHANGED <<compressor, cycle>>
=============================================================================
