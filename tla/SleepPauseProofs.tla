-------------------------- MODULE SleepPauseProofs --------------------------
(***************************************************************************)
(* Proofs about the display sleep, for every length of the event queue,    *)
(* every bound on the pauses and every set of brightness levels.           *)
(***************************************************************************)
EXTENDS SleepPause, SequenceTheorems, TLAPS

USE DEF RestartIdleTimer

Events == {"ENTER", "WAKE"}
Other(event) == IF event = "ENTER" THEN "WAKE" ELSE "ENTER"

\* The event of the display's last change, and of the last one that was posted.
LastChange == IF sleep_state = "SLEEPING" THEN "ENTER" ELSE "WAKE"
LastPosted == IF unposted = "none" THEN LastChange ELSE Other(unposted)

\* What is not posted yet belongs to a task that is about to post it.
UnpostedInv ==
    /\ unposted = "none" <=> timer_task # "emit" /\ monitor_task # "emit"
    /\ unposted = "ENTER" => timer_task = "emit"
    /\ unposted = "WAKE" => monitor_task = "emit"

\* As long as no event was lost or overtaken, the changes alternate, posted or not,
\* up to the last one.
ChangesAlternate ==
    /\ timer_task = "emit" /\ monitor_task # "emit" => sleep_state = "SLEEPING"
    /\ monitor_task = "emit" /\ timer_task # "emit" => sleep_state = "AWAKE"
    /\ timer_task = "emit" /\ monitor_task = "emit" => unposted # LastChange

EventsAlternate ==
    /\ \A i \in 1 .. Len(event_queue) - 1 : event_queue[i] # event_queue[i + 1]
    /\ event_queue # <<>> => event_queue[Len(event_queue)] = LastPosted

PauseInv ==
    /\ UnpostedInv
    /\ ~disturbed => ChangesAlternate /\ EventsAlternate
    /\ pause_requested <=> pause_depth > 0
    /\ PausesHaveOwners

IInv == TypeOK /\ PauseInv

----------------------------------------------------------------------------
\* Sequences of alternating events.

AlternatesIn(q) == \A i \in 1 .. Len(q) - 1 : q[i] # q[i + 1]

LEMMA AppendAlternates ==
    ASSUME NEW q \in Seq(Events), NEW e \in Events,
           AlternatesIn(q), q # <<>> => q[Len(q)] # e
    PROVE  /\ Append(q, e) \in Seq(Events) /\ Len(Append(q, e)) = Len(q) + 1
           /\ AlternatesIn(Append(q, e))
           /\ Append(q, e) # <<>> /\ Append(q, e)[Len(Append(q, e))] = e
           /\ Head(Append(q, e)) = IF q = <<>> THEN e ELSE Head(q)
<1> DEFINE r == Append(q, e)
<1>1. /\ r \in Seq(Events) /\ r # <<>> /\ Len(r) = Len(q) + 1
      /\ \A i \in 1 .. Len(q) : r[i] = q[i]
      /\ r[Len(q) + 1] = e
    BY AppendProperties
<1>2. Len(q) \in Nat /\ (Len(q) = 0 => q = <<>>)
    BY LenProperties, EmptySeq
<1>3. ASSUME NEW i \in 1 .. Len(r) - 1 PROVE r[i] # r[i + 1]
    <2>1. CASE i = Len(q)
        BY <1>1, <1>2, <2>1
    <2>2. CASE i # Len(q)
        BY <1>1, <1>2, <2>2 DEF AlternatesIn
    <2> QED BY <2>1, <2>2
<1>4. Head(r) = IF q = <<>> THEN e ELSE Head(q)
    BY HeadTailAppend
<1> HIDE DEF r
<1>5. AlternatesIn(r)
    BY <1>3 DEF AlternatesIn
<1>6. r[Len(r)] = e
    BY <1>1
<1> QED BY <1>1, <1>4, <1>5, <1>6 DEF r

LEMMA TailAlternates ==
    ASSUME NEW q \in Seq(Events), q # <<>>, AlternatesIn(q)
    PROVE  /\ Tail(q) \in Seq(Events) /\ Len(Tail(q)) = Len(q) - 1
           /\ AlternatesIn(Tail(q))
           /\ Tail(q) # <<>> => /\ Tail(q)[Len(Tail(q))] = q[Len(q)]
                               /\ Head(Tail(q)) # Head(q)
           /\ Tail(q) = <<>> => Head(q) = q[Len(q)]
           /\ Head(q) \in Events
<1> DEFINE r == Tail(q)
<1>1. /\ r \in Seq(Events) /\ Len(r) = Len(q) - 1 /\ Head(q) \in Events
      /\ \A i \in 1 .. Len(r) : r[i] = q[i + 1]
    BY HeadTailProperties
<1>2. /\ Len(q) \in Nat /\ Len(q) # 0 /\ Len(r) \in Nat
      /\ (Len(r) = 0 <=> r = <<>>)
    BY <1>1, LenProperties, EmptySeq
<1>3. Head(q) = q[1] /\ (r # <<>> => Head(r) = r[1])
    BY <1>1
<1> HIDE DEF r
<1>4. AlternatesIn(r)
    BY <1>1, <1>2 DEF AlternatesIn
<1>5. r # <<>> => r[Len(r)] = q[Len(q)] /\ Head(r) # Head(q)
    BY <1>1, <1>2, <1>3 DEF AlternatesIn
<1>6. r = <<>> => Head(q) = q[Len(q)]
    <2>1. r = <<>> => Len(r) = 0
        BY <1>2
    <2>2. Len(r) = 0 => Len(q) = 1
        BY <1>1, <1>2
    <2> QED BY <1>3, <2>1, <2>2
<1> QED BY <1>1, <1>4, <1>5, <1>6 DEF r

----------------------------------------------------------------------------
\* The types that are BOOLEAN, and the others.
BooleansOK ==
    /\ pause_requested \in BOOLEAN /\ reconnect_requested \in BOOLEAN
    /\ idle_timer \in BOOLEAN /\ touch_activity \in BOOLEAN
    /\ settings_overlay \in BOOLEAN
    /\ disturbed \in BOOLEAN /\ lit \in BOOLEAN /\ overwritten \in BOOLEAN

ValuesOK ==
    /\ pause_depth \in 0..MaxPauseDepth
    /\ sleep_state \in {"AWAKE", "SLEEPING"}
    /\ timer_task \in {"idle", "callback", "emit"} /\ monitor_task \in {"idle", "emit"}
    /\ normal_brightness \in Levels /\ saved \in Levels /\ loaded \in Levels
    /\ backlight \in Levels \cup {0} /\ level \in Levels
    /\ restore_task \in {"none", "load", "normal", "timeout", "panel", "volume"}
    /\ unposted \in {"none", "ENTER", "WAKE"}
    /\ slider \in {"free", "moved", "held"}

QueueOK == event_queue \in Seq(Events) /\ Len(event_queue) <= EventQueueLength

LEMMA TypeParts == TypeOK <=> BooleansOK /\ ValuesOK /\ QueueOK
<1>1. {normal_brightness, saved, loaded} \subseteq Levels
        <=> normal_brightness \in Levels /\ saved \in Levels /\ loaded \in Levels
    BY Zenon
<1> QED BY <1>1, Zenon DEF TypeOK, BooleansOK, ValuesOK, QueueOK, Events

LEMMA InitInv == Init => IInv
<1> SUFFICES ASSUME Init PROVE IInv
    OBVIOUS
<1>1. BooleansOK
    BY Zenon DEF Init, SleepInit, PauseInit, BooleansOK
<1>2. ValuesOK
    BY SleepAssumption DEF Init, SleepInit, PauseInit, ValuesOK, Unread
<1>3. QueueOK
    BY EmptySeq, SleepAssumption DEF Init, SleepInit, QueueOK
<1>4. PauseInv
    BY DEF Init, SleepInit, PauseInit, PauseInv, UnpostedInv, ChangesAlternate, EventsAlternate,
           PausesHaveOwners, Holds, SleepHandled, NextEvent
<1> QED BY <1>1, <1>2, <1>3, <1>4, TypeParts DEF IInv

----------------------------------------------------------------------------
\* Types.

LEMMA PauseBooleans ==
    ASSUME reconnect_requested \in BOOLEAN, PauseCall \/ ResumeCall
    PROVE  pause_requested' \in BOOLEAN /\ reconnect_requested' \in BOOLEAN
<1>1. CASE PauseCall
    BY <1>1, Zenon DEF PauseCall
<1>2. CASE ResumeCall
    <2>1. pause_requested' \in BOOLEAN
        BY <1>2, SMT DEF ResumeCall
    <2> QED BY <1>2, <2>1, Zenon DEF ResumeCall
<1> QED BY <1>1, <1>2

LEMMA BooleansStep == BooleansOK /\ [Next]_vars => BooleansOK'
<1> SUFFICES ASSUME BooleansOK, [Next]_vars PROVE BooleansOK'
    OBVIOUS
<1> USE DEF BooleansOK, pauseVars, sleepVars, panelVars, savedVars, loopVars, screenVars
<1>1. CASE IdleTimerExpires
    BY <1>1, Zenon DEF IdleTimerExpires
<1>2. CASE EnterSleep
    BY <1>2, Zenon DEF EnterSleep
<1>3. CASE EmitStep
    BY <1>3, Zenon DEF EmitStep, EmitEnter, EmitWake, Post
<1>4. CASE Touch
    BY <1>4, Zenon DEF Touch
<1>5. CASE NotifyActivity
    BY <1>5, Zenon DEF NotifyActivity
<1>6. CASE RestoreStep
    <2>1. CASE RestoreLoads
        BY <2>1, Zenon DEF RestoreLoads
    <2>2. CASE RestoreNormal
        BY <2>2, Zenon DEF RestoreNormal, Outdated
    <2>3. CASE RestoreTimeout
        BY <2>3, Zenon DEF RestoreTimeout
    <2>4. CASE RestorePanel
        BY <2>4, Zenon DEF RestorePanel, Outdated
    <2>5. CASE RestoreEnds
        BY <2>5, Zenon DEF RestoreEnds
    <2> QED BY <1>6, <2>1, <2>2, <2>3, <2>4, <2>5 DEF RestoreStep
<1>7. CASE HandleEvent
    <2>1. PauseCall \/ ResumeCall
        BY <1>7 DEF HandleEvent
    <2> QED BY <1>7, <2>1, PauseBooleans, Zenon DEF HandleEvent
<1>8. CASE SettingsStep
    <2>1. CASE OpenSettings
        BY <2>1, Zenon DEF OpenSettings, PauseCall
    <2>2. CASE CloseSettings
        <3>1. ResumeCall
            BY <2>2 DEF CloseSettings
        <3> QED BY <2>2, <3>1, PauseBooleans, Zenon DEF CloseSettings
    <2>3. CASE MoveSlider
        BY <2>3, Zenon DEF MoveSlider
    <2>4. CASE SlidePanel
        BY <2>4, Zenon DEF SlidePanel
    <2>5. CASE ReleaseSlider
        BY <2>5, Zenon DEF ReleaseSlider
    <2> QED BY <1>8, <2>1, <2>2, <2>3, <2>4, <2>5 DEF SettingsStep
<1>9. CASE UNCHANGED vars
    BY <1>9, Zenon DEF vars
<1> QED BY <1>1, <1>2, <1>3, <1>4, <1>5, <1>6, <1>7, <1>8, <1>9 DEF Next

LEMMA ValuesStep == BooleansOK /\ ValuesOK /\ [Next]_vars => ValuesOK'
<1> SUFFICES ASSUME BooleansOK, ValuesOK, [Next]_vars PROVE ValuesOK'
    OBVIOUS
<1> USE SleepAssumption
    DEF ValuesOK, pauseVars, sleepVars, panelVars, savedVars, loopVars, screenVars
<1>1. CASE IdleTimerExpires
    BY <1>1 DEF IdleTimerExpires
<1>2. CASE EnterSleep
    BY <1>2 DEF EnterSleep, Waits
<1>3. CASE EmitStep
    BY <1>3 DEF EmitStep, EmitEnter, EmitWake, Post
<1>4. CASE Touch
    BY <1>4 DEF Touch
<1>5. CASE NotifyActivity
    BY <1>5 DEF NotifyActivity, Waits
<1>6. CASE RestoreStep
    BY <1>6 DEF RestoreStep, RestoreLoads, RestoreNormal, RestoreTimeout, RestorePanel,
                RestoreEnds, Unread
<1>7. CASE HandleEvent
    BY <1>7 DEF HandleEvent, PauseCall, ResumeCall
<1>8. CASE SettingsStep
    BY <1>8 DEF SettingsStep, OpenSettings, CloseSettings, MoveSlider, SlidePanel,
                ReleaseSlider, PauseCall, ResumeCall
<1>9. CASE UNCHANGED vars
    BY <1>9 DEF vars
<1> QED BY <1>1, <1>2, <1>3, <1>4, <1>5, <1>6, <1>7, <1>8, <1>9 DEF Next

LEMMA QueueStep == ValuesOK /\ QueueOK /\ [Next]_vars => QueueOK'
<1> SUFFICES ASSUME ValuesOK, QueueOK, [Next]_vars PROVE QueueOK'
    OBVIOUS
<1> USE DEF QueueOK
<1>1. ASSUME UNCHANGED event_queue PROVE QueueOK'
    BY <1>1
<1>2. ASSUME NEW e \in Events, NEW w, Post(e, w) PROVE QueueOK'
    <2>1. CASE Len(event_queue) < EventQueueLength /\ event_queue' = Append(event_queue, e)
        <3>1. event_queue' \in Seq(Events) /\ Len(event_queue') = Len(event_queue) + 1
            BY <2>1, AppendProperties
        <3> QED BY <2>1, <3>1, LenProperties, SleepAssumption
    <2> QED BY <1>1, <1>2, <2>1 DEF Post
<1>3. CASE EmitStep
    BY <1>2, <1>3 DEF EmitStep, EmitEnter, EmitWake, Events
<1>4. CASE HandleEvent
    <2>1. Tail(event_queue) \in Seq(Events) /\ Len(Tail(event_queue)) = Len(event_queue) - 1
        BY <1>4, HeadTailProperties DEF HandleEvent
    <2> QED BY <1>4, <2>1, LenProperties, SleepAssumption DEF HandleEvent
<1>5. CASE ~EmitStep /\ ~HandleEvent
    BY <1>1, <1>5 DEF Next, vars, loopVars, IdleTimerExpires, EnterSleep, Touch,
        NotifyActivity, RestoreStep, RestoreLoads, RestoreNormal, RestoreTimeout,
        RestorePanel, RestoreEnds, SettingsStep, OpenSettings, CloseSettings, MoveSlider,
        SlidePanel, ReleaseSlider
<1> QED BY <1>3, <1>4, <1>5

----------------------------------------------------------------------------
\* Pauses and their owners.

LEMMA FlagStep ==
    ASSUME pause_depth \in Nat, PauseCall \/ ResumeCall
    PROVE  pause_requested' <=> pause_depth' > 0
<1>1. CASE PauseCall
    <2>1. pause_requested'
        BY <1>1, Zenon DEF PauseCall
    <2>2. pause_depth' > 0
        BY <1>1 DEF PauseCall
    <2> QED BY <2>1, <2>2
<1>2. CASE ResumeCall
    BY <1>2, Zenon DEF ResumeCall
<1> QED BY <1>1, <1>2

\* Whatever leaves pauses, events and the sleep state alone.
LEMMA QuietStep ==
    ASSUME PauseInv, timer_task' = "emit" <=> timer_task = "emit",
           UNCHANGED <<pause_depth, pause_requested, sleep_state, monitor_task,
                       event_queue, unposted, disturbed, settings_overlay>>
    PROVE  PauseInv'
BY DEF PauseInv, UnpostedInv, ChangesAlternate, EventsAlternate, LastPosted, LastChange,
       PausesHaveOwners, Holds, SleepHandled, NextEvent

LEMMA HeadIsEvent == TypeOK /\ event_queue # <<>> => Head(event_queue) \in Events
BY HeadTailProperties, TypeParts DEF QueueOK

\* The display falls asleep: the event of its wake may still wait to be posted.
LEMMA FallsAsleep ==
    ASSUME TypeOK, PauseInv, EnterSleep, sleep_state = "AWAKE"
    PROVE  PauseInv'
<1>1. /\ timer_task = "callback" /\ timer_task' = "emit" /\ sleep_state' = "SLEEPING"
      /\ unposted' = Waits("ENTER")
      /\ UNCHANGED <<pause_depth, pause_requested, monitor_task, event_queue, disturbed,
                     settings_overlay>>
    BY DEF EnterSleep, pauseVars, screenVars
<1>2. unposted \in {"none", "WAKE"} /\ (unposted = "none" <=> monitor_task # "emit")
    BY <1>1 DEF TypeOK, PauseInv, UnpostedInv
<1>3. LastPosted' = LastPosted
    BY <1>1, <1>2 DEF LastPosted, LastChange, Other, Waits
<1>4. SleepHandled' <=> SleepHandled
    BY <1>1, <1>2, HeadIsEvent DEF Waits, SleepHandled, NextEvent, Events
<1>5. UnpostedInv' /\ ChangesAlternate'
    BY <1>1, <1>2 DEF UnpostedInv, ChangesAlternate, LastChange, Waits
<1> QED BY <1>1, <1>3, <1>4, <1>5 DEF PauseInv, EventsAlternate, PausesHaveOwners, Holds

LEMMA WakesUp ==
    ASSUME TypeOK, PauseInv, NotifyActivity, sleep_state = "SLEEPING"
    PROVE  PauseInv'
<1>1. /\ monitor_task = "idle" /\ monitor_task' = "emit" /\ sleep_state' = "AWAKE"
      /\ unposted' = Waits("WAKE")
      /\ UNCHANGED <<pause_depth, pause_requested, timer_task, event_queue, disturbed,
                     settings_overlay>>
    BY DEF NotifyActivity, pauseVars, screenVars
<1>2. unposted \in {"none", "ENTER"} /\ (unposted = "none" <=> timer_task # "emit")
    BY <1>1 DEF TypeOK, PauseInv, UnpostedInv
<1>3. LastPosted' = LastPosted
    BY <1>1, <1>2 DEF LastPosted, LastChange, Other, Waits
<1>4. SleepHandled' <=> SleepHandled
    BY <1>1, <1>2, HeadIsEvent DEF Waits, SleepHandled, NextEvent, Events
<1>5. UnpostedInv' /\ ChangesAlternate'
    BY <1>1, <1>2 DEF UnpostedInv, ChangesAlternate, LastChange, Waits
<1> QED BY <1>1, <1>3, <1>4, <1>5 DEF PauseInv, EventsAlternate, PausesHaveOwners, Holds

\* The event that is posted follows the last one posted, or else it overtook one.
LEMMA PostStep ==
    ASSUME TypeOK, PauseInv, NEW e \in Events,
           \/ EmitEnter /\ e = "ENTER"
           \/ EmitWake /\ e = "WAKE"
    PROVE  PauseInv'
<1> DEFINE waiting == IF e = "ENTER"
                      THEN IF monitor_task = "emit" THEN "WAKE" ELSE "none"
                      ELSE IF timer_task = "emit" THEN "ENTER" ELSE "none"
<1>0. Post(e, waiting)
    BY Zenon DEF EmitEnter, EmitWake
<1>1. UNCHANGED <<pause_depth, pause_requested, sleep_state, settings_overlay>>
    BY DEF EmitEnter, EmitWake, pauseVars, screenVars
<1>2. UnpostedInv'
    BY <1>0 DEF EmitEnter, EmitWake, Post, TypeOK, PauseInv, UnpostedInv
<1>3. CASE disturbed'
    BY <1>1, <1>2, <1>3 DEF PauseInv, PausesHaveOwners
<1>4. CASE ~disturbed'
    <2>1. /\ ~disturbed /\ unposted = e /\ unposted' = waiting
          /\ event_queue' = Append(event_queue, e)
        BY <1>0, <1>4 DEF Post, TypeOK
    <2>2. ChangesAlternate /\ EventsAlternate /\ event_queue \in Seq(Events)
        BY <2>1, TypeParts DEF PauseInv, QueueOK
    <2>3. ChangesAlternate' /\ LastPosted' = e /\ LastPosted = Other(e)
        BY <1>1, <2>1, <2>2 DEF EmitEnter, EmitWake, ChangesAlternate, LastPosted, LastChange,
            Other, Events, TypeOK
    <2>4. /\ AlternatesIn(event_queue') /\ event_queue' # <<>>
          /\ event_queue'[Len(event_queue')] = e
          /\ Head(event_queue') = IF event_queue = <<>> THEN e ELSE Head(event_queue)
        BY <2>1, <2>2, <2>3, AppendAlternates DEF EventsAlternate, AlternatesIn, Other, Events
    <2>5. EventsAlternate'
        BY <2>3, <2>4 DEF EventsAlternate, AlternatesIn
    <2>6. NextEvent' = NextEvent
        BY <2>1, <2>4 DEF NextEvent
    <2>7. PausesHaveOwners'
        BY <1>1, <2>1, <2>6 DEF PauseInv, PausesHaveOwners, SleepHandled, Holds
    <2> QED BY <1>1, <1>2, <2>3, <2>5, <2>7 DEF PauseInv
<1> QED BY <1>3, <1>4

\* The handled event is that of a sleep that has no pause yet, or of a wake whose
\* sleep has one.
LEMMA HandleStep ==
    ASSUME TypeOK, PauseInv, HandleEvent
    PROVE  PauseInv'
<1>1. /\ event_queue # <<>> /\ event_queue' = Tail(event_queue)
      /\ \/ Head(event_queue) = "ENTER" /\ PauseCall
         \/ Head(event_queue) = "WAKE" /\ ResumeCall
      /\ UNCHANGED <<sleep_state, timer_task, monitor_task, unposted, disturbed,
                     settings_overlay>>
    BY Zenon DEF HandleEvent, sleepVars, screenVars
<1>2. pause_depth \in Nat
    BY DEF TypeOK
<1>3. pause_requested' <=> pause_depth' > 0
    BY <1>1, <1>2, FlagStep
<1>4. UnpostedInv' /\ (ChangesAlternate => ChangesAlternate')
    BY <1>1 DEF PauseInv, UnpostedInv, ChangesAlternate, LastChange
<1>5. CASE disturbed
    BY <1>1, <1>3, <1>4, <1>5 DEF PauseInv, PausesHaveOwners
<1>6. CASE ~disturbed
    <2>1. EventsAlternate /\ event_queue \in Seq(Events) /\ AlternatesIn(event_queue)
        BY <1>6, TypeParts DEF PauseInv, QueueOK, EventsAlternate, AlternatesIn
    <2>2. /\ AlternatesIn(event_queue')
          /\ event_queue' # <<>> =>
                /\ event_queue'[Len(event_queue')] = event_queue[Len(event_queue)]
                /\ Head(event_queue') # Head(event_queue)
          /\ event_queue' = <<>> => Head(event_queue) = event_queue[Len(event_queue)]
          /\ event_queue' \in Seq(Events)
        BY <1>1, <2>1, TailAlternates
    <2>3. LastPosted' = LastPosted /\ event_queue[Len(event_queue)] = LastPosted
        BY <1>1, <2>1 DEF LastPosted, LastChange, EventsAlternate
    <2>4. EventsAlternate'
        BY <2>2, <2>3 DEF EventsAlternate, AlternatesIn
    <2>5. event_queue' # <<>> => Head(event_queue') \in Events
        BY <2>2, HeadTailProperties
    <2>6. SleepHandled <=> Head(event_queue) = "WAKE"
        BY <1>1 DEF SleepHandled, NextEvent
    <2>7. SleepHandled' <=> Head(event_queue) = "ENTER"
        <3>1. CASE event_queue' # <<>>
            BY <1>1, <2>2, <2>5, <3>1 DEF SleepHandled, NextEvent, Events
        <3>2. CASE event_queue' = <<>>
            <4>1. Head(event_queue) = LastPosted
                BY <2>2, <2>3, <3>2
            <4> QED BY <1>1, <3>2, <4>1 DEF SleepHandled, NextEvent, LastPosted, LastChange,
                        Other, TypeOK
        <3> QED BY <3>1, <3>2
    <2>8. PausesHaveOwners'
        BY <1>1, <1>2, <1>6, <2>6, <2>7 DEF PauseInv, PausesHaveOwners, Holds, PauseCall,
            ResumeCall
    <2> QED BY <1>3, <1>4, <1>6, <2>4, <2>8 DEF PauseInv
<1> QED BY <1>5, <1>6

\* Opening and closing the settings screen takes and gives back one pause.
LEMMA SettingsScreenStep ==
    ASSUME TypeOK, PauseInv, OpenSettings \/ CloseSettings
    PROVE  PauseInv'
<1>1. /\ UNCHANGED <<sleep_state, timer_task, monitor_task, event_queue, unposted, disturbed>>
      /\ \/ ~settings_overlay /\ settings_overlay' /\ PauseCall
         \/ settings_overlay /\ ~settings_overlay' /\ ResumeCall
    BY DEF OpenSettings, CloseSettings, sleepVars, loopVars
<1>2. pause_depth \in Nat
    BY DEF TypeOK
<1>3. pause_requested' <=> pause_depth' > 0
    BY <1>1, <1>2, FlagStep
<1>4. PausesHaveOwners'
    <2>1. SleepHandled' <=> SleepHandled
        BY <1>1 DEF SleepHandled, NextEvent
    <2>2. disturbed' <=> disturbed
        BY <1>1
    <2> QED BY <1>1, <1>2, <2>1, <2>2 DEF PauseInv, PausesHaveOwners, Holds, PauseCall,
            ResumeCall
<1> QED BY <1>1, <1>3, <1>4 DEF PauseInv, UnpostedInv, ChangesAlternate, EventsAlternate,
        LastPosted, LastChange

LEMMA PauseStep == TypeOK /\ PauseInv /\ [Next]_vars => PauseInv'
<1> SUFFICES ASSUME TypeOK, PauseInv, [Next]_vars PROVE PauseInv'
    OBVIOUS
<1>1. CASE IdleTimerExpires
    BY <1>1, QuietStep DEF IdleTimerExpires, pauseVars, loopVars, screenVars
<1>2. CASE EnterSleep
    <2>1. CASE sleep_state = "AWAKE"
        BY <1>2, <2>1, FallsAsleep
    <2>2. CASE sleep_state # "AWAKE"
        BY <1>2, <2>2, QuietStep DEF EnterSleep, pauseVars, screenVars
    <2> QED BY <2>1, <2>2
<1>3. CASE EmitEnter
    BY <1>3, PostStep DEF Events
<1>4. CASE EmitWake
    BY <1>4, PostStep DEF Events
<1>5. CASE NotifyActivity
    <2>1. CASE sleep_state = "SLEEPING"
        BY <1>5, <2>1, WakesUp
    <2>2. CASE sleep_state # "SLEEPING"
        BY <1>5, <2>2, QuietStep DEF NotifyActivity, pauseVars, screenVars
    <2> QED BY <2>1, <2>2
<1>6. CASE HandleEvent
    BY <1>6, HandleStep
<1>7. CASE OpenSettings \/ CloseSettings
    BY <1>7, SettingsScreenStep
<1>8. CASE Touch \/ RestoreStep \/ MoveSlider \/ SlidePanel \/ ReleaseSlider \/ UNCHANGED vars
    BY <1>8, QuietStep DEF Touch, RestoreStep, RestoreLoads, RestoreNormal, RestoreTimeout,
        RestorePanel, RestoreEnds, MoveSlider, SlidePanel, ReleaseSlider, vars, pauseVars,
        sleepVars, loopVars, screenVars
<1> QED BY <1>1, <1>2, <1>3, <1>4, <1>5, <1>6, <1>7, <1>8 DEF Next, EmitStep, SettingsStep

----------------------------------------------------------------------------
LEMMA SpecInv == Spec => []IInv
<1>1. TypeOK' <=> BooleansOK' /\ ValuesOK' /\ QueueOK'
    BY TypeParts, PTL
<1>2. IInv /\ [Next]_vars => IInv'
    BY <1>1, BooleansStep, ValuesStep, QueueStep, PauseStep, TypeParts DEF IInv
<1> QED BY <1>2, InitInv, PTL DEF Spec

\* Every variable of the display sleep keeps its type.
THEOREM TypeCorrect == Spec => []TypeOK
BY SpecInv, PTL DEF IInv

\* Every pause of the client has an owner (opcua_client_pause, handle_sleep_event,
\* open_settings_event): the settings screen or a sleep the event loop was told of.
THEOREM PausesHaveOwnersHolds == Spec => []PausesHaveOwners
BY SpecInv, PTL DEF IInv, PauseInv

\* An open settings screen pauses the client as long as no event was lost or
\* overtaken.
THEOREM SettingsPauseHolds == Spec => []SettingsPauseTheClient
<1>1. IInv => SettingsPauseTheClient
    BY DEF IInv, TypeOK, PauseInv, PausesHaveOwners, Holds, SettingsPauseTheClient
<1> QED BY <1>1, SpecInv, PTL

\* An awake display has its next sleep coming (sleep_notify_activity, enter_sleep,
\* sleep_update_idle_timeout).
THEOREM AwakeDisplayWillSleepHolds == Spec => []AwakeDisplayWillSleep
<1>1. Init => AwakeDisplayWillSleep
    BY DEF Init, SleepInit, AwakeDisplayWillSleep
<1>2. TypeOK /\ AwakeDisplayWillSleep /\ [Next]_vars => AwakeDisplayWillSleep'
    BY DEF TypeOK, AwakeDisplayWillSleep, Next, vars, sleepVars, IdleTimerExpires, EnterSleep,
        EmitStep, EmitEnter, EmitWake, Touch, NotifyActivity, RestoreStep, RestoreLoads,
        RestoreNormal, RestoreTimeout, RestorePanel, RestoreEnds, HandleEvent, SettingsStep,
        OpenSettings, CloseSettings, MoveSlider, SlidePanel, ReleaseSlider
<1> QED BY <1>1, <1>2, TypeCorrect, PTL DEF Spec

----------------------------------------------------------------------------
\* The brightness: what the panel shows, what a wake will show and what is saved.

\* A level the panel shows as it should, awake or asleep.
Panel(brightness) == lit \/ backlight = IF sleep_state = "SLEEPING" THEN 0 ELSE brightness

\* The slider shows what is saved before it is moved, and rests on a closed screen.
SliderInv ==
    /\ settings_overlay /\ slider = "free" => level = saved
    /\ slider # "free" => settings_overlay

\* Between its two writes a restore has set the normal brightness, or the slider
\* has since.
BetweenWrites ==
    restore_task \in {"timeout", "panel"} /\ slider = "free" => normal_brightness \in {loaded, saved}

\* Outside of them the normal brightness is the slider's while it is touched, the
\* saved one else, and the panel follows but for the moment of a move.
OutsideWrites ==
    restore_task \notin {"timeout", "panel"} /\ ~overwritten =>
        /\ normal_brightness = IF slider = "free" THEN saved ELSE level
        /\ slider # "moved" => Panel(normal_brightness)

BrightnessInv == SliderInv /\ BetweenWrites /\ OutsideWrites

LEMMA BrightnessInit == Init => BrightnessInv
BY DEF Init, SleepInit, BrightnessInv, SliderInv, BetweenWrites, OutsideWrites, Panel

LEMMA BrightnessStep == TypeOK /\ BrightnessInv /\ [Next]_vars => BrightnessInv'
<1> SUFFICES ASSUME TypeOK, BrightnessInv, [Next]_vars PROVE BrightnessInv'
    OBVIOUS
<1> USE DEF BrightnessInv, SliderInv, BetweenWrites, OutsideWrites, Panel
<1>1. CASE IdleTimerExpires \/ Touch \/ HandleEvent \/ EmitStep \/ UNCHANGED vars
    BY <1>1 DEF IdleTimerExpires, Touch, HandleEvent, EmitStep, EmitEnter, EmitWake, vars,
        pauseVars, sleepVars, panelVars, savedVars, loopVars, screenVars, TypeOK
<1>2. CASE EnterSleep
    BY <1>2 DEF EnterSleep, savedVars, screenVars
<1>3. CASE NotifyActivity
    BY <1>3 DEF NotifyActivity, savedVars, screenVars
<1>4. CASE RestoreStep
    <2>1. CASE RestoreLoads
        BY <2>1 DEF RestoreLoads, sleepVars, panelVars, screenVars
    <2>2. CASE RestoreNormal
        BY <2>2 DEF RestoreNormal, screenVars
    <2>3. CASE RestoreTimeout
        BY <2>3 DEF RestoreTimeout, panelVars, screenVars
    <2>4. CASE RestorePanel
        <3>1. UNCHANGED <<sleep_state, slider, level, saved, loaded, normal_brightness,
                          settings_overlay>>
            BY <2>4 DEF RestorePanel, sleepVars, screenVars
        <3>2. /\ restore_task = "panel" /\ restore_task' = "volume"
              /\ backlight' = loaded /\ overwritten' = Outdated
              /\ lit' = (sleep_state = "SLEEPING")
            BY <2>4 DEF RestorePanel
        <3>3. SliderInv' /\ BetweenWrites'
            BY <3>1, <3>2
        <3>4. ASSUME ~overwritten' PROVE slider = "free" /\ loaded = saved
            BY <3>2, <3>4 DEF Outdated
        <3>5. ~overwritten' => normal_brightness = saved /\ slider = "free" /\ loaded = saved
            BY <3>2, <3>4
        <3>6. OutsideWrites'
            BY <3>1, <3>2, <3>5
        <3> QED BY <3>3, <3>6
    <2>5. CASE RestoreEnds
        BY <2>5 DEF RestoreEnds, sleepVars, panelVars, screenVars
    <2> QED BY <1>4, <2>1, <2>2, <2>3, <2>4, <2>5 DEF RestoreStep
<1>5. CASE OpenSettings \/ CloseSettings
    BY <1>5 DEF OpenSettings, CloseSettings, sleepVars, panelVars, savedVars
<1>6. CASE MoveSlider
    BY <1>6 DEF MoveSlider, savedVars
<1>7. CASE SlidePanel
    BY <1>7 DEF SlidePanel, sleepVars, savedVars
<1>8. CASE ReleaseSlider
    BY <1>8 DEF ReleaseSlider, sleepVars
<1> QED BY <1>1, <1>2, <1>3, <1>4, <1>5, <1>6, <1>7, <1>8 DEF Next, SettingsStep

\* With slider and restore done, NVS, sleep module and panel agree
\* (brightness_event, sleep_update_normal_brightness, enter_sleep_internal,
\* wake_internal and restore_settings): whatever sleeps, wakes, restores and
\* moves of the slider interleaved, unless one of the named races happened.
THEOREM BacklightFollowsStateHolds == Spec => []BacklightFollowsState
<1>1. BrightnessInv => BacklightFollowsState
    BY DEF BrightnessInv, OutsideWrites, Panel, BacklightFollowsState
<1>2. TypeOK /\ BrightnessInv /\ [Next]_vars => BrightnessInv'
    BY BrightnessStep
<1> QED BY <1>1, <1>2, BrightnessInit, TypeCorrect, PTL DEF Spec
=============================================================================
