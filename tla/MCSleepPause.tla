--------------------------- MODULE MCSleepPause ---------------------------
(* Display sleep, restore, the event loop and the settings screen, for TLC. *)
EXTENDS SleepPause

MCLevels == {30, 80}

=============================================================================
