---------------------------- MODULE UartHandler ----------------------------
(***************************************************************************)
(* components/settings/src/uart_handler.c: the task that reads JSON        *)
(* messages from the serial line while it is told to listen.  START and    *)
(* STOP are bits of one task notification; the flag uart_running belongs   *)
(* to the callers and to the task.                                         *)
(***************************************************************************)
EXTENDS Naturals

VARIABLE
    uart            \* uart_running, the task's listening, its notification, and the
                    \* command that is known to be "missed"

UartInit ==
    uart = [running |-> FALSE, listening |-> FALSE, bits |-> {}, missed |-> "none"]

\* uart_password_handler_start
UartStart(u) ==
    IF u.running THEN [u EXCEPT !.missed = "none"]
    ELSE [u EXCEPT !.bits = @ \union {"START"}, !.missed = "none"]

\* Mutant: uart_running is left to the task.
UartStopByTask(u) ==
    IF ~u.running THEN [u EXCEPT !.missed = IF "START" \in u.bits THEN "stop" ELSE "none"]
    ELSE [u EXCEPT !.bits = @ \union {"STOP"}, !.missed = "none"]

\* uart_password_handler_stop; before the task has served a START it does nothing.
UartStop(u) ==
    IF ~u.running THEN [u EXCEPT !.missed = IF "START" \in u.bits THEN "stop" ELSE "none"]
    ELSE [u EXCEPT !.running = FALSE, !.bits = @ \union {"STOP"}, !.missed = "none"]

\* uart_event_task takes all bits at once; a STOP hides a START.
UartServes ==
    /\ uart.bits # {}
    /\ LET on == "STOP" \notin uart.bits
       IN  uart' = [running |-> on, listening |-> on, bits |-> {},
                    missed |-> IF on THEN uart.missed
                               ELSE IF "START" \in uart.bits THEN "start" ELSE "none"]

\* Commands come before data.
UartReads == uart.listening /\ uart.bits = {}

UartTypeOK ==
    uart \in [running : BOOLEAN, listening : BOOLEAN, bits : SUBSET {"START", "STOP"},
              missed : {"none", "start", "stop"}]
=============================================================================
