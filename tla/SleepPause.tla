----------------------------- MODULE SleepPause -----------------------------
(***************************************************************************)
(* Display sleep (components/sleep_mode, main/idle_monitor.c), the restore *)
(* of the saved settings after a wake, and the settings screen with its    *)
(* brightness slider: the parts that pause the OPC UA client and light the *)
(* panel.                                                                  *)
(*                                                                         *)
(* The FreeRTOS timer task puts the display to sleep, the idle monitor     *)
(* task wakes it.  Each changes state and backlight under the mutex and,   *)
(* after giving the mutex back, posts an event that the default event loop *)
(* later turns into a pause or a resume; the post has no timeout and its   *)
(* result is ignored.  The restore task and the slider set the backlight   *)
(* without looking at the state.                                           *)
(***************************************************************************)
EXTENDS PauseControl, Sequences, SequencesExt

CONSTANTS
    EventQueueLength,   \* bound: sleep events the default event loop's queue holds
    MaxPauseDepth,      \* bound: the event loop takes no ENTER beyond it
    Levels              \* the brightness levels of the slider, none of them dark

ASSUME SleepAssumption ==
    /\ EventQueueLength \in Nat \ {0} /\ MaxPauseDepth \in Nat \ {0}
    /\ Levels \subseteq 1..100 /\ Levels # {}

VARIABLES
    sleep_state,        \* g.state
    normal_brightness,  \* g.cfg.normal_brightness_pct
    backlight,          \* the level the panel was last set to; 0 is dark
    idle_timer,         \* the one-shot idle timer is running
    timer_task,         \* "idle", "callback" (timer expired) or "emit" (ENTER)
    touch_activity,     \* the binary semaphore of the idle monitor
    monitor_task,       \* "idle" or "emit" (WAKE)
    saved,              \* the brightness in NVS
    restore_task,       \* the restore task's next step, "none" without a task
    loaded,             \* the brightness the restore task has read
    event_queue,        \* the default event loop's queue
    settings_overlay,   \* the settings screen is open
    slider,             \* the brightness slider: "free", "moved" or "held"
    level,              \* the slider's value
    unposted,           \* history: the event of the oldest state change whose event is
                        \*   not posted yet, "none" if all are
    disturbed,          \* history: an event was dropped or posted out of order
    lit,                \* history: the backlight was set during this sleep
    overwritten         \* history: a restore overtook or was overtaken by the slider

sleepVars == <<sleep_state, idle_timer, timer_task, monitor_task>>
panelVars == <<normal_brightness, backlight, lit>>
savedVars == <<saved, restore_task, loaded, overwritten>>
loopVars == <<event_queue, unposted, disturbed>>
screenVars == <<settings_overlay, slider, level>>
vars == <<pauseVars, sleepVars, touch_activity, panelVars, savedVars, loopVars, screenVars>>

Unread == CHOOSE some \in Levels : TRUE     \* loaded when no restore runs

\* sleep_init, at the given brightness: the display starts awake.
SleepInit(brightness) ==
    /\ sleep_state = "AWAKE" /\ idle_timer = TRUE /\ timer_task = "idle"
    /\ normal_brightness = brightness /\ backlight = brightness

\* idle_monitor_init loads the saved brightness and registers event and touch
\* callbacks.
Init ==
    /\ PauseInit
    /\ saved \in Levels /\ SleepInit(saved)
    /\ touch_activity = FALSE /\ monitor_task = "idle"
    /\ restore_task \in {"none", "load"} /\ loaded = Unread
    /\ event_queue = <<>> /\ unposted = "none"
    /\ settings_overlay = FALSE /\ slider = "free" /\ level = saved
    /\ disturbed = FALSE /\ lit = FALSE /\ overwritten = FALSE

----------------------------------------------------------------------------
\* The timer task: one task runs the idle and the debounce timer's callbacks.

IdleTimerExpires ==
    /\ timer_task = "idle" /\ idle_timer
    /\ idle_timer' = FALSE
    /\ timer_task' = "callback"
    /\ UNCHANGED <<pauseVars, sleep_state, monitor_task, touch_activity, panelVars,
                   savedVars, loopVars, screenVars>>

\* The event of a change stands behind one that is not posted yet.
Waits(event) == IF unposted = "none" THEN event ELSE unposted

\* enter_sleep_internal up to the unlock: nothing happens unless awake.
EnterSleep ==
    /\ timer_task = "callback"
    /\ \/ /\ sleep_state = "AWAKE"
          /\ sleep_state' = "SLEEPING"
          /\ backlight' = 0 /\ lit' = FALSE
          /\ unposted' = Waits("ENTER")
          /\ timer_task' = "emit"
       \/ /\ sleep_state = "SLEEPING"
          /\ timer_task' = "idle"
          /\ UNCHANGED <<sleep_state, backlight, lit, unposted>>
    /\ UNCHANGED <<pauseVars, idle_timer, monitor_task, touch_activity,
                   normal_brightness, savedVars, event_queue, disturbed, screenVars>>

\* do_emit_evt: a full queue loses the event without a trace.  Wi-Fi, IP, UART and
\* portal events share the queue and may fill it at any time.  The other task may
\* be about to post too.
Post(event, waiting) ==
    /\ \/ /\ Len(event_queue) < EventQueueLength
          /\ event_queue' = Append(event_queue, event)
          /\ disturbed' = (disturbed \/ unposted # event)
       \/ UNCHANGED event_queue /\ disturbed' = TRUE
    /\ unposted' = waiting

EmitEnter ==
    /\ timer_task = "emit"
    /\ timer_task' = "idle"
    /\ Post("ENTER", IF monitor_task = "emit" THEN "WAKE" ELSE "none")
    /\ UNCHANGED <<pauseVars, sleep_state, idle_timer, monitor_task, touch_activity,
                   panelVars, savedVars, screenVars>>

\* touch_isr_callback and, 100 ms after the last interrupt, touch_debounce_callback
\* in the timer task.  A finger that stays on the panel restarts the debounce
\* timer with every interrupt: the display may fall asleep under it.
Touch ==
    /\ timer_task = "idle"
    /\ touch_activity' = TRUE
    /\ UNCHANGED <<pauseVars, sleepVars, panelVars, savedVars, loopVars, screenVars>>

----------------------------------------------------------------------------
\* The idle monitor task.

\* restart_idle_timer_locked.  The timer's queue is assumed to take the restart.
RestartIdleTimer == idle_timer' = TRUE

\* Mutant: the wake does not restart the idle timer.
WakeKeepsTimer ==
    /\ monitor_task = "idle" /\ touch_activity
    /\ touch_activity' = FALSE
    /\ IF sleep_state = "SLEEPING"
       THEN /\ sleep_state' = "AWAKE"
            /\ backlight' = normal_brightness /\ lit' = FALSE
            /\ unposted' = Waits("WAKE") /\ monitor_task' = "emit"
       ELSE UNCHANGED <<sleep_state, backlight, lit, unposted, monitor_task>>
    /\ idle_timer' = (idle_timer \/ sleep_state = "AWAKE")
    /\ UNCHANGED <<pauseVars, timer_task, normal_brightness, savedVars, event_queue,
                   disturbed, screenVars>>

\* sleep_notify_activity: wake_internal up to the unlock.  The idle timer is
\* restarted in either state; the wake lights the panel at once, the firmware's
\* brightness delay being zero.
NotifyActivity ==
    /\ monitor_task = "idle" /\ touch_activity
    /\ touch_activity' = FALSE
    /\ RestartIdleTimer
    /\ \/ /\ sleep_state = "SLEEPING"
          /\ sleep_state' = "AWAKE"
          /\ backlight' = normal_brightness /\ lit' = FALSE
          /\ unposted' = Waits("WAKE")
          /\ monitor_task' = "emit"
       \/ /\ sleep_state = "AWAKE"
          /\ UNCHANGED <<sleep_state, backlight, lit, unposted, monitor_task>>
    /\ UNCHANGED <<pauseVars, timer_task, normal_brightness, savedVars, event_queue,
                   disturbed, screenVars>>

\* do_emit_evt, then sleep_event_callback: at most one restore task at a time.
EmitWake ==
    /\ monitor_task = "emit"
    /\ monitor_task' = "idle"
    /\ restore_task' = IF restore_task = "none" THEN "load" ELSE restore_task
    /\ Post("WAKE", IF timer_task = "emit" THEN "ENTER" ELSE "none")
    /\ UNCHANGED <<pauseVars, sleep_state, idle_timer, timer_task, touch_activity,
                   panelVars, saved, loaded, overwritten, screenVars>>

----------------------------------------------------------------------------
\* The restore task: system_settings_apply_saved, call by call.

RestoreLoads ==
    /\ restore_task = "load"
    /\ loaded' = saved
    /\ restore_task' = "normal"
    /\ UNCHANGED <<pauseVars, sleepVars, touch_activity, panelVars, saved,
                   overwritten, loopVars, screenVars>>

\* What the restore is about to write is not what the user last chose.
Outdated == slider # "free" \/ loaded # saved

\* Mutant: only a sleeping display takes the normal brightness.
RestoreNormalAsleep ==
    /\ restore_task = "normal"
    /\ normal_brightness' = IF sleep_state = "AWAKE" THEN normal_brightness ELSE loaded
    /\ restore_task' = "timeout"
    /\ overwritten' = (overwritten \/ Outdated)
    /\ UNCHANGED <<pauseVars, sleepVars, touch_activity, backlight, lit, saved,
                   loaded, loopVars, screenVars>>

\* sleep_update_normal_brightness.
RestoreNormal ==
    /\ restore_task = "normal"
    /\ normal_brightness' = loaded
    /\ restore_task' = "timeout"
    /\ overwritten' = (overwritten \/ Outdated)
    /\ UNCHANGED <<pauseVars, sleepVars, touch_activity, backlight, lit, saved,
                   loaded, loopVars, screenVars>>

\* sleep_update_idle_timeout: the timer of an awake display starts again.
RestoreTimeout ==
    /\ restore_task = "timeout"
    /\ IF sleep_state = "AWAKE" THEN RestartIdleTimer ELSE UNCHANGED idle_timer
    /\ restore_task' = "panel"
    /\ UNCHANGED <<pauseVars, sleep_state, timer_task, monitor_task, touch_activity,
                   panelVars, saved, loaded, overwritten, loopVars, screenVars>>

\* bsp_display_brightness_set, whatever the sleep state is by now.
RestorePanel ==
    /\ restore_task = "panel"
    /\ backlight' = loaded
    /\ lit' = (sleep_state = "SLEEPING")
    /\ restore_task' = "volume"
    /\ overwritten' = Outdated
    /\ UNCHANGED <<pauseVars, sleepVars, touch_activity, normal_brightness, saved,
                   loaded, loopVars, screenVars>>

\* apply_volume, which may start the codec, and the end of the task.
RestoreEnds ==
    /\ restore_task = "volume"
    /\ restore_task' = "none" /\ loaded' = Unread
    /\ UNCHANGED <<pauseVars, sleepVars, touch_activity, panelVars, saved,
                   overwritten, loopVars, screenVars>>

----------------------------------------------------------------------------
\* The event loop task.

\* Mutant: the handler pauses on both events.
HandleWakePauses ==
    /\ event_queue # <<>> /\ pause_depth < MaxPauseDepth
    /\ event_queue' = Tail(event_queue)
    /\ PauseCall
    /\ UNCHANGED <<sleepVars, touch_activity, panelVars, savedVars, unposted,
                   disturbed, screenVars>>

\* Mutant: the handler takes the newest event first.
HandleNewestFirst ==
    /\ event_queue # <<>> /\ pause_depth < MaxPauseDepth
    /\ event_queue' = Front(event_queue)
    /\ IF Last(event_queue) = "ENTER" THEN PauseCall ELSE ResumeCall
    /\ UNCHANGED <<sleepVars, touch_activity, panelVars, savedVars, unposted,
                   disturbed, screenVars>>

\* handle_sleep_event, for the event at the head of the queue.
HandleEvent ==
    /\ event_queue # <<>>
    /\ event_queue' = Tail(event_queue)
    /\ \/ /\ Head(event_queue) = "ENTER" /\ pause_depth < MaxPauseDepth
          /\ PauseCall
       \/ /\ Head(event_queue) = "WAKE"
          /\ ResumeCall
    /\ UNCHANGED <<sleepVars, touch_activity, panelVars, savedVars, unposted,
                   disturbed, screenVars>>

----------------------------------------------------------------------------
\* The LVGL task.  A finger is on one thing at a time.

\* open_settings_event, system_settings_create: the slider shows what is saved.
\* A second tap finds the overlay open and pauses nothing.
OpenSettings ==
    /\ ~settings_overlay /\ pause_depth < MaxPauseDepth
    /\ settings_overlay' = TRUE
    /\ level' = saved
    /\ PauseCall
    /\ UNCHANGED <<sleepVars, touch_activity, panelVars, savedVars, loopVars, slider>>

\* settings_overlay_deleted_event.
CloseSettings ==
    /\ settings_overlay /\ slider = "free"
    /\ settings_overlay' = FALSE
    /\ ResumeCall
    /\ UNCHANGED <<sleepVars, touch_activity, panelVars, savedVars, loopVars, slider,
                   level>>

\* brightness_event, LV_EVENT_VALUE_CHANGED: sleep_update_normal_brightness.
MoveSlider ==
    /\ settings_overlay /\ slider # "moved"
    /\ slider' = "moved"
    /\ level' \in Levels \ {level}
    /\ normal_brightness' = level'
    /\ UNCHANGED <<pauseVars, sleepVars, touch_activity, backlight, lit, savedVars,
                   loopVars, settings_overlay>>

\* bsp_display_brightness_set, awake or not.
SlidePanel ==
    /\ slider = "moved"
    /\ slider' = "held"
    /\ backlight' = level
    /\ lit' = (sleep_state = "SLEEPING")
    /\ UNCHANGED <<pauseVars, sleepVars, touch_activity, normal_brightness, savedVars,
                   loopVars, settings_overlay, level>>

\* Mutant: the release keeps the value for this wake only.
ReleaseUnsaved ==
    /\ settings_overlay /\ slider # "moved"
    /\ slider' = "free"
    /\ normal_brightness' = level
    /\ UNCHANGED <<pauseVars, sleepVars, touch_activity, backlight, lit, savedVars,
                   loopVars, settings_overlay, level>>

\* LV_EVENT_RELEASED, after moves or none: settings_config_save_brightness, which
\* updates the normal brightness once more but not the panel.
ReleaseSlider ==
    /\ settings_overlay /\ slider # "moved"
    /\ slider' = "free"
    /\ saved' = level
    /\ normal_brightness' = level
    /\ UNCHANGED <<pauseVars, sleepVars, touch_activity, backlight, lit, restore_task,
                   loaded, overwritten, loopVars, settings_overlay, level>>

----------------------------------------------------------------------------
EmitStep == EmitEnter \/ EmitWake

RestoreStep ==
    RestoreLoads \/ RestoreNormal \/ RestoreTimeout \/ RestorePanel \/ RestoreEnds

SettingsStep ==
    \/ OpenSettings \/ CloseSettings
    \/ MoveSlider \/ SlidePanel \/ ReleaseSlider

Next ==
    \/ IdleTimerExpires \/ EnterSleep \/ EmitStep
    \/ Touch \/ NotifyActivity
    \/ RestoreStep \/ HandleEvent \/ SettingsStep

\* Every task finishes what it has begun and the event loop keeps serving its
\* queue; nobody has to touch the display or to open or close a screen.
Fairness ==
    /\ WF_vars(EnterSleep) /\ WF_vars(EmitEnter) /\ WF_vars(EmitWake)
    /\ WF_vars(RestoreStep) /\ WF_vars(HandleEvent)

Spec == Init /\ [][Next]_vars
FairSpec == Spec /\ Fairness

----------------------------------------------------------------------------
\* Properties.

NextEvent == IF event_queue # <<>> THEN Head(event_queue) ELSE unposted

\* What the event loop knows of the display: a WAKE ends a sleep it has handled, an
\* ENTER one it has not.
SleepHandled ==
    \/ NextEvent = "WAKE"
    \/ NextEvent = "none" /\ sleep_state = "SLEEPING"

Holds(condition) == IF condition THEN 1 ELSE 0

\* Every variable keeps its type.
TypeOK ==
    /\ pause_depth \in 0..MaxPauseDepth
    /\ pause_requested \in BOOLEAN /\ reconnect_requested \in BOOLEAN
    /\ sleep_state \in {"AWAKE", "SLEEPING"}
    /\ timer_task \in {"idle", "callback", "emit"} /\ monitor_task \in {"idle", "emit"}
    /\ idle_timer \in BOOLEAN /\ touch_activity \in BOOLEAN
    /\ {normal_brightness, saved, loaded} \subseteq Levels
    /\ backlight \in Levels \cup {0} /\ level \in Levels
    /\ restore_task \in {"none", "load", "normal", "timeout", "panel", "volume"}
    /\ event_queue \in Seq({"ENTER", "WAKE"})
    /\ Len(event_queue) <= EventQueueLength
    /\ unposted \in {"none", "ENTER", "WAKE"}
    /\ settings_overlay \in BOOLEAN /\ slider \in {"free", "moved", "held"}
    /\ disturbed \in BOOLEAN /\ lit \in BOOLEAN /\ overwritten \in BOOLEAN

\* An awake display always has its next sleep coming: its idle timer runs or has
\* just expired, whatever touches, restores and expiries interleaved.
AwakeDisplayWillSleep ==
    sleep_state = "AWAKE" => idle_timer \/ timer_task = "callback"

\* As long as no event was lost or overtaken, every pause has an owner: the depth
\* is one for the open settings screen and one for the sleep that the event loop
\* has been told of and not yet of its end.
PausesHaveOwners ==
    ~disturbed => pause_depth = Holds(settings_overlay) + Holds(SleepHandled)

\* And so an open settings screen really pauses the client.
SettingsPauseTheClient ==
    ~disturbed /\ settings_overlay => pause_requested

\* Under the same condition a display that stays awake without the settings
\* screen gets its client back.
WakeResumesClient ==
    <>[](sleep_state = "AWAKE" /\ ~settings_overlay /\ ~disturbed)
        => <>[]~pause_requested

\* The panel, the sleep module and NVS agree once slider and restore are done: a
\* sleeping display is dark unless something lit it during this sleep, an awake
\* one has the brightness the user saved, unless a restore that had read the
\* settings earlier wrote them around the slider.
BacklightFollowsState ==
    slider = "free" /\ restore_task \in {"none", "load"} /\ ~overwritten =>
        /\ normal_brightness = saved
        /\ lit \/ backlight = IF sleep_state = "SLEEPING" THEN 0 ELSE saved

\* Whatever the races left behind, a display that keeps being restored after the
\* settings are closed comes to use the saved brightness.
SavedSettingsApply ==
    <>[]~settings_overlay /\ []<>(restore_task = "load")
        => <>[](/\ normal_brightness = saved
                /\ sleep_state = "AWAKE" /\ restore_task = "none"
                       => backlight = saved)
=============================================================================
