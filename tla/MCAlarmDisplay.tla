--------------------------- MODULE MCAlarmDisplay ---------------------------
(* The alarm table with its page, for TLC: more alarm keys than slots. *)
EXTENDS AlarmDisplay

=============================================================================
