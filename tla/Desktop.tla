------------------------------- MODULE Desktop -------------------------------
(***************************************************************************)
(* The desktop service (firmware/applications/services/desktop): the home  *)
(* screen, the Quick Actions and Recent lists, the Control Center, the     *)
(* lock screen with its PIN and penalty, auto-lock, and the part of the    *)
(* animation manager that frees the screen while an application runs.      *)
(*                                                                         *)
(* One thread serves a queue of custom events and a queue of key presses;  *)
(* the scene on top of the stack handles both. The loader thread, the      *)
(* kernel's timers, RPC, the storage service and the settings application  *)
(* post custom events from their own threads.                              *)
(***************************************************************************)
EXTENDS Integers, Sequences, FiniteSetsExt, SequencesExt

CONSTANTS
    Pins,         \* whether a PIN may be set: a set of truth values
    FreeFails,    \* entries of desktop_helpers_fails_timeout before the first wait
    UnlockCnt,    \* UNLOCK_CNT, presses of Back that unlock without a PIN
    RecentMax,    \* DESKTOP_RECENT_APPS_COUNT
    Favorites,    \* FavoriteAppNumber
    Names,        \* application names the loader announces
    NoName,       \* the empty pending_app_name
    UsbInhibits,  \* usb_inhibit_auto_lock is set and a USB session is open
    SavedSettings,\* contents a settings file may have
    Inputs,       \* the inputs of the environment a run explores
    MaxEvents,    \* bound: custom events queued
    MaxScenes,    \* bound: depth of the scene stack
    MaxFails,     \* bound: wrong PINs
    MaxLaunches   \* bound: applications launched since boot

Settings == [delay : {0, 10}, dummy : {"off", "on"}]

NoSettings == [delay |-> 0, dummy |-> "off"]

ASSUME ConstantsAssumption ==
    /\ Pins \subseteq BOOLEAN /\ UsbInhibits \in BOOLEAN
    /\ {FreeFails, UnlockCnt, RecentMax, Favorites} \subseteq Nat \ {0}
    /\ {MaxEvents, MaxScenes, MaxFails, MaxLaunches} \subseteq Nat
    /\ RecentMax =< 6 /\ Favorites =< 6
    /\ NoName \notin Names
    /\ SavedSettings \subseteq Settings /\ NoSettings \in SavedSettings

VARIABLES
    events,      \* event queue of the view dispatcher
    scenes,      \* scene_id_stack, the current scene last
    locked,      \* desktop->locked
    rtc,         \* backup registers: lock flag, count of wrong PINs, PIN set
    lockdown,    \* lockdown of the GUI
    cli,         \* whether the CLI is enabled
    view,        \* locked view: state, pin_locked, timer, lock_count; and whether
                 \* an API unlock overtook a press since the start (Overtaken)
    penalty,     \* PIN timeout view: its timer, and whether a wait is owed
    autoLock,    \* auto_lock_timer and input_events_subscription
    settings,    \* desktop->settings
    appRunning,  \* desktop->app_running
    anim,        \* animation manager; and whether a new animation was started
                 \* over a stalled one since the start
    recent,      \* recent_apps
    shown,       \* labels of the Recent list on screen
    pendingName, \* pending_app_name
    semaphore,   \* animation_semaphore
    loader,      \* the loader thread: idle, waiting for the semaphore, running
    request,     \* whether the loader's queue, of one message, is full
    history,     \* names of all launches announced since boot
    halted       \* the failed assertion, or "no"

lockVars  == <<locked, rtc, lockdown, cli>>
sceneVars == <<scenes, shown, penalty>>
appVars   == <<appRunning, recent, semaphore>>
announced == <<pendingName, loader, history>>
loaderVars == <<announced, request>>

vars == <<events, lockVars, sceneVars, appVars, loaderVars, view, autoLock,
          settings, anim, halted>>

-----------------------------------------------------------------------------
(* Events                                                                  *)

\* The first values of enum DesktopEvent. The Favorites and Recent lists post
\* the index of the chosen line, so line i is the i-th value of the enum.
IndexEvents == <<"Lock", "OpenLockMenu", "FavoriteLeftShort", "FavoriteLeftLong",
                 "FavoriteRightShort", "FavoriteRightLong">>

LaunchEvents == {"FavoriteLeftShort", "FavoriteLeftLong", "FavoriteRightShort",
                 "FavoriteRightLong", "OpenMenu", "OpenPowerOff", "DummyOpen"}

AnimationEvents == {"CheckAnimation", "NewIdleAnimation", "InteractAnimation"}

GlobalEvents == {"BeforeAppStarted", "AfterAppFinished", "AutoLock",
                 "SaveSettings", "ReloadSettings"}

Event == Range(IndexEvents) \cup LaunchEvents \cup AnimationEvents \cup GlobalEvents
         \cup {"OpenFavorites", "OpenRecent", "OpenDebug", "DummyUpLong",
               "LockedUnlocked", "LockedUpdate", "ShowPinInput", "DoorsClosed",
               "PinUnlocked", "PinFailed", "PinBack", "PinTimeoutExit",
               "DebugExit", "DummyModeOn", "DummyModeOff", "LockMenuToggle",
               "OpenQuickSettings", "QuickSettingsClose", "BootExit", "ApiUnlock"}

\* The events posted by key presses.
UserEvents == Event \ (GlobalEvents \cup {"LockedUpdate", "DoorsClosed",
    "PinTimeoutExit", "ApiUnlock", "CheckAnimation", "NewIdleAnimation"})

\* The events that lock the desktop or leave the home screen.
HomeEvents == {"AutoLock", "Lock", "DummyUpLong", "OpenLockMenu", "OpenDebug",
               "OpenFavorites", "OpenRecent"}

Scene == {"Main", "LockMenu", "QuickSettings", "Debug", "Favorites", "Recent",
          "Locked", "PinInput", "PinTimeout", "Boot"}

Top == Last(scenes)

\* The value of an event as an index; every other event lies above the lists.
AsIndex(e) == IF e \in Range(IndexEvents)
              THEN (CHOOSE i \in DOMAIN IndexEvents : IndexEvents[i] = e) - 1
              ELSE 100

Running == halted = "no"

\* desktop_pin_code_is_set
PinSet == rtc.pin

\* view_dispatcher_send_custom_event: waits while the queue is full.
Post(e) == Len(events) < MaxEvents /\ events' = Append(events, e)

\* furi_message_queue_put(loader->queue, ..., FuriWaitForever): the handler that
\* calls the loader waits while another message is in its queue.
CallLoader == ~request /\ request' = TRUE

\* furi_crash: nothing runs until the device restarts.
Crash(why) == halted' = why

-----------------------------------------------------------------------------
(* Scenes                                                                  *)

\* Mutant: the PIN wait is shown but its timer is not started.
EnterNoTimer(s) ==
    /\ Len(s) =< MaxScenes
    /\ scenes' = s
    /\ shown' = IF Last(s) = "Recent" THEN recent ELSE <<>>
    /\ UNCHANGED penalty

\* scene_manager: the stack becomes s and its last scene is entered. Entering
\* Recent fills the list, leaving it empties it; entering PinTimeout starts
\* the timer.
Enter(s) ==
    /\ Len(s) =< MaxScenes
    /\ scenes' = s
    /\ shown' = IF Last(s) = "Recent" THEN recent ELSE <<>>
    /\ penalty' = IF Last(s) = "PinTimeout"
                  THEN [penalty EXCEPT !.timer = "on"] ELSE penalty

NextScene(s) == Enter(Append(scenes, s))

PreviousScene == Enter(Front(scenes))

\* scene_manager_search_and_switch_to_previous_scene.
Earlier(stack, s) == {i \in 1..(Len(stack) - 1) : stack[i] = s}

\* Mutant: only the scene on top is left.
BackOne(stack, s) == Front(stack)

BackTo(stack, s) == IF Earlier(stack, s) = {} THEN stack
                    ELSE SubSeq(stack, 1, Max(Earlier(stack, s)))

SwitchBack(s) == IF Earlier(scenes, s) = {} THEN UNCHANGED sceneVars
                 ELSE Enter(BackTo(scenes, s))

-----------------------------------------------------------------------------
(* Auto-lock                                                               *)

\* Mutant: the timer is started, the presses are not subscribed to.
ArmNoSubscription(d) == IF d = 0 THEN autoLock ELSE [autoLock EXCEPT !.timer = "on"]

\* desktop_auto_lock_arm: with the delay off it leaves everything as it is.
Arm(d) == IF d = 0 THEN autoLock ELSE [timer |-> "on", sub |-> "on"]

\* desktop_auto_lock_inhibit.
Inhibit == [timer |-> "off", sub |-> "off"]

\* A press, and desktop_input_event_callback: it restarts the timer.
Pressed ==
    autoLock' = IF autoLock.sub = "on" THEN [autoLock EXCEPT !.timer = "on"] ELSE autoLock

-----------------------------------------------------------------------------
(* Lock and unlock                                                         *)

\* desktop_pin_lock_get_fail_timeout() > 0.
FailTimeout(fails) == fails >= FreeFails

\* Mutant: a locked start asks for the PIN at once.
LockedNoWait(fails) == <<"Locked">>

LockedScenes(fails) == IF PinSet /\ FailTimeout(fails)
                       THEN <<"Locked", "PinTimeout">> ELSE <<"Locked">>

\* The locked view after desktop_view_locked_lock and close_doors.
LockedView(v, fails) ==
    IF PinSet /\ FailTimeout(fails)
    THEN [v EXCEPT !.state = "Locked", !.pin = PinSet]
    ELSE [v EXCEPT !.state = "DoorsClosing", !.pin = PinSet, !.timer = "on"]

\* desktop_lock, and the first entry of the Locked scene it causes. The flag is
\* in the backup registers before the view's assertion is reached.
DesktopLock ==
    IF locked
    THEN Crash("lock") /\ UNCHANGED <<lockVars, sceneVars, autoLock, view>>
    ELSE /\ rtc' = [rtc EXCEPT !.lock = TRUE]
         /\ cli' = (cli /\ ~PinSet)
         /\ autoLock' = Inhibit
         /\ lockdown' = TRUE
         /\ IF view.state = "Unlocked"
            THEN /\ view' = LockedView(view, rtc.fails)
                 /\ Enter(scenes \o LockedScenes(rtc.fails))
                 /\ locked' = TRUE
                 /\ UNCHANGED halted
            ELSE Crash("lockedView") /\ UNCHANGED <<sceneVars, view, locked>>

\* An unlock requested over the API is handled while a press made on the home
\* screen is still queued behind it.
Overtaken == Head(events) = "ApiUnlock" /\ Range(Tail(events)) \cap HomeEvents # {}

\* desktop_unlock.
DesktopUnlock ==
    IF ~locked
    THEN Crash("unlock") /\ UNCHANGED <<lockVars, sceneVars, autoLock, view>>
    ELSE /\ lockdown' = FALSE
         /\ view' = [state |-> "UnlockedHint", pin |-> FALSE, timer |-> "on", count |-> 0,
                      remote |-> view.remote \/ Overtaken]
         /\ scenes' = BackTo(scenes, "Main")
         /\ shown' = <<>>
         /\ penalty' = [penalty EXCEPT !.due = FALSE]
         /\ autoLock' = Arm(settings.delay)
         /\ rtc' = [rtc EXCEPT !.lock = FALSE, !.fails = 0]
         /\ cli' = (cli \/ PinSet)
         /\ locked' = FALSE
         /\ UNCHANGED halted

-----------------------------------------------------------------------------
(* Animation manager                                                       *)

\* animation_manager_start_new_idle.
NewIdle(a) == [a EXCEPT !.state = "Idle", !.loaded = TRUE]

\* animation_manager_check_blocking: a card notice, or mail when the dolphin
\* may level up; whether there is one is up to the card and the dolphin.
Blockings(a) == {[a EXCEPT !.state = "Blocked", !.loaded = TRUE, !.mail = m] :
                    m \in {a.mail, "pending"}}

\* animation_manager_set_dummy_mode_state.
AnimDummy(a, d) ==
    IF a.dummy = d THEN a
    ELSE [NewIdle(a) EXCEPT !.dummy = d, !.forced = a.forced \/ a.frozen]

\* animation_manager_unload_and_stall_animation.
StallAsserts(a) == a.loaded /\ ~a.frozen /\ a.state \in {"Idle", "Blocked"}

Stalled(a) == [a EXCEPT !.state = IF @ = "Idle" THEN "FreezedIdle" ELSE "FreezedBlocked",
                        !.loaded = FALSE, !.frozen = TRUE]

\* animation_manager_load_and_continue_animation.
ContinueAsserts(a) == ~a.loaded /\ a.frozen /\ a.state \in {"FreezedIdle", "FreezedBlocked"}

\* Mutant: the name of the stalled animation is kept after it is loaded.
ContinuedStillFrozen(a) ==
    IF a.state = "FreezedBlocked"
    THEN {[a EXCEPT !.state = "Blocked", !.loaded = TRUE]}
    ELSE {NewIdle(a)} \cup Blockings(a)

Continued(a) ==
    LET b == [a EXCEPT !.frozen = FALSE] IN
    IF a.state = "FreezedBlocked"
    THEN {[b EXCEPT !.state = "Blocked", !.loaded = TRUE]}
    ELSE {NewIdle(b)} \cup Blockings(b)

\* animation_manager_check_blocking_process and _new_idle_process.
Checked(a) == IF a.state = "Idle" THEN {a, NewIdle(a)} \cup Blockings(a) ELSE {a}

Renewed(a) == IF a.state = "Idle" THEN NewIdle(a) ELSE a

\* animation_manager_interact_process, and whether it consumes the press.
Interacts(a) == a.mail # "none" \/ a.state = "Blocked"

Interacted(a) ==
    CASE a.mail = "pending" -> {[a EXCEPT !.mail = "active"]}
      [] a.mail = "active"  -> {[NewIdle(a) EXCEPT !.mail = "none",
                                                     !.forced = a.forced \/ a.frozen]}
      [] OTHER -> Blockings(a) \cup {NewIdle(a)}

-----------------------------------------------------------------------------
(* Start of the service                                                    *)

\* desktop_srv: Main, then the lock screen when a PIN is set, then what there
\* is to report (slideshow, wrong hardware, crash, secure enclave).
BootScenes(fails, report) ==
    <<"Main">> \o (IF PinSet THEN LockedScenes(fails) ELSE <<>>)
               \o (IF report THEN <<"Boot">> ELSE <<>>)

OpenView == [state |-> "Unlocked", pin |-> FALSE, timer |-> "off", count |-> 0,
             remote |-> FALSE]

BootView(fails) == IF PinSet THEN LockedView(OpenView, fails) ELSE OpenView

BootPenalty(fails) == LET owed == PinSet /\ FailTimeout(fails) IN
    [timer |-> IF owed THEN "on" ELSE "off", due |-> owed]

\* desktop_init_settings arms auto-lock, desktop_lock inhibits it again.
BootAutoLock(s, running) ==
    IF s.delay = 0 \/ running \/ PinSet THEN Inhibit
    ELSE [timer |-> "on", sub |-> "on"]

BootAnim(s, running) ==
    LET a == [state |-> "Idle", loaded |-> TRUE, frozen |-> FALSE,
              dummy |-> s.dummy, mail |-> "none", forced |-> FALSE]
    IN IF running THEN Stalled(a) ELSE a

\* The card may be absent (s = NoSettings), an autostart application may run,
\* the menu style of the settings may still be on its way to the loader.
Init ==
    \E s \in SavedSettings, running \in BOOLEAN, report \in BOOLEAN :
        /\ rtc \in [lock : Pins, fails : {0}, pin : Pins] /\ rtc.lock = PinSet
        /\ events = <<>>
        /\ scenes = BootScenes(0, report)
        /\ locked = PinSet /\ lockdown = PinSet /\ cli = ~PinSet
        /\ view = BootView(0)
        /\ penalty = BootPenalty(0)
        /\ settings = s
        /\ autoLock = BootAutoLock(s, running)
        /\ anim = BootAnim(s, running)
        /\ appRunning = running
        /\ recent = <<>> /\ shown = <<>>
        /\ pendingName = NoName
        /\ semaphore = 0
        /\ loader = IF running THEN "running" ELSE "idle"
        /\ request \in BOOLEAN
        /\ history = <<>>
        /\ halted = "no"

\* A crash or a power cycle: only the backup registers survive.
Reboot ==
    /\ "Reboot" \in Inputs \/ ~Running
    /\ \E s \in SavedSettings :
        /\ events' = <<>>
        /\ scenes' = BootScenes(rtc.fails, ~Running)
        /\ locked' = PinSet /\ lockdown' = PinSet /\ cli' = ~PinSet
        /\ rtc' = [rtc EXCEPT !.lock = @ \/ PinSet]
        /\ view' = BootView(rtc.fails)
        /\ penalty' = BootPenalty(rtc.fails)
        /\ settings' = s
        /\ autoLock' = BootAutoLock(s, FALSE)
        /\ anim' = BootAnim(s, FALSE)
        /\ appRunning' = FALSE
        /\ recent' = <<>> /\ shown' = <<>>
        /\ pendingName' = NoName
        /\ semaphore' = 0
        /\ loader' = "idle"
        /\ request' \in BOOLEAN
        /\ history' = <<>>
        /\ halted' = "no"

-----------------------------------------------------------------------------
(* Keys                                                                    *)

\* A PIN takes at least four presses, by then a Back pressed before has been
\* handled; only the view's no-activity timer can be that late.
PinTyped == "PinBack" \notin Range(events) \/ "PinIdle" \in Inputs

\* The event a key of each view posts. Keys reach the desktop whenever no
\* application covers it, and always while the lock screen is up.
KeyEvents(s) ==
    CASE s = "Main" ->
           IF anim.dummy = "off"
           THEN {"OpenMenu", "OpenFavorites", "OpenLockMenu", "Lock", "OpenDebug",
                 "OpenRecent", "OpenPowerOff", "FavoriteLeftShort",
                 "FavoriteLeftLong", "FavoriteRightLong", "InteractAnimation"}
           ELSE {"DummyOpen", "OpenLockMenu", "DummyUpLong", "OpenPowerOff",
                 "InteractAnimation"}
      [] s = "LockMenu" ->
           {"LockMenuToggle", "OpenQuickSettings",
            IF settings.dummy = "off" THEN "DummyModeOn" ELSE "DummyModeOff"}
      [] s = "QuickSettings" -> {"QuickSettingsClose"}
      [] s = "Debug" -> {"DebugExit"}
      [] s = "PinInput" -> {"PinBack"} \cup (IF PinTyped THEN {"PinUnlocked"} ELSE {})
      [] s = "Boot" -> {"BootExit"}
      [] OTHER -> {}

\* A line of the Favorites or Recent list.
LineEvents(s) ==
    CASE s = "Favorites" -> {IndexEvents[i] : i \in 1..Favorites}
      [] s = "Recent" -> {IndexEvents[i] : i \in 1..Len(shown)}
      [] OTHER -> {}

\* Mutant: the label stays until its timer runs out.
HintKept == view

\* On Main the press first passes the locked view, which drops its
\* "Unlocked" label but leaves the label's timer running.
HintDropped == IF Top = "Main" /\ view.state = "UnlockedHint"
               THEN [view EXCEPT !.state = "Unlocked"] ELSE view

Key ==
    /\ Running
    /\ \E e \in (KeyEvents(Top) \cap Inputs) \cup LineEvents(Top) : Post(e)
    /\ Pressed
    /\ view' = HintDropped
    /\ UNCHANGED <<lockVars, sceneVars, appVars, loaderVars, settings, anim, halted>>

\* Back where the view leaves it to the scene manager.
KeyBack ==
    /\ Running
    /\ \/ Top \in {"LockMenu", "Favorites", "Recent", "Boot"} /\ PreviousScene
       \/ Top = "QuickSettings" /\ SwitchBack("Main")
    /\ Pressed
    /\ UNCHANGED <<events, lockVars, appVars, loaderVars, view, settings, anim, halted>>

\* A wrong PIN is counted in the backup registers before it is reported. One
\* typed while the no-activity event is queued finds the keypad gone.
WrongPin ==
    /\ Running /\ Top = "PinInput" /\ PinTyped /\ rtc.fails < MaxFails
    /\ rtc' = [rtc EXCEPT !.fails = @ + 1]
    /\ penalty' = [penalty EXCEPT !.due = @ \/ (/\ FailTimeout(rtc.fails + 1)
                                                /\ "PinBack" \notin Range(events))]
    /\ Post("PinFailed")
    /\ Pressed
    /\ UNCHANGED <<locked, lockdown, cli, scenes, shown, appVars, loaderVars, view,
                   settings, anim, halted>>

MaxPresses == UnlockCnt + 1     \* bound: presses counted by the locked view

\* desktop_view_locked_input while locked. A press long after the last one
\* starts the count again.
LockedKey ==
    /\ Running /\ Top = "Locked"
    /\ \/ /\ view.state = "Locked" /\ view.pin
          /\ Post("ShowPinInput")
          /\ UNCHANGED view
       \/ /\ view.state \in {"Locked", "LockedHint"} /\ ~view.pin
          /\ \E n \in {0, 1, view.count + 1} :
                /\ n =< MaxPresses
                /\ view' = [view EXCEPT !.state = "LockedHint", !.timer = "on",
                                        !.count = n]
                /\ IF n = UnlockCnt THEN Post("LockedUnlocked") ELSE UNCHANGED events
    /\ Pressed
    /\ UNCHANGED <<lockVars, sceneVars, appVars, loaderVars, settings, anim, halted>>

-----------------------------------------------------------------------------
(* Timers and other threads                                                *)

LockedTimer ==
    /\ Running /\ view.timer = "on"
    /\ Post("LockedUpdate")
    /\ UNCHANGED <<lockVars, sceneVars, appVars, loaderVars, view, autoLock,
                   settings, anim, halted>>

\* The shortest delay (10 s) outlasts the "Unlocked" label (2 s) and, counted
\* from the last press, the handling of what that press or the timer's last
\* run posted.
AutoLockTimer ==
    /\ Running /\ autoLock.timer = "on"
    /\ view.state # "UnlockedHint"
    /\ Range(events) \cap (UserEvents \cup {"AutoLock"}) = {}
    /\ Post("AutoLock")
    /\ autoLock' = [autoLock EXCEPT !.timer = "off"]
    /\ UNCHANGED <<lockVars, sceneVars, appVars, loaderVars, view, settings, anim, halted>>

\* The wait is over, and so is a wait still to come when the timer left running
\* by an earlier one overtakes the event of the wrong PIN.
PinTimeoutTimer ==
    /\ Running /\ penalty.timer = "on"
    /\ Post("PinTimeoutExit")
    /\ penalty' = [timer |-> "off", due |-> FALSE]
    /\ UNCHANGED <<lockVars, scenes, shown, appVars, loaderVars, view, autoLock,
                   settings, anim, halted>>

\* Posted by other threads: RPC, the storage service, the animation timer,
\* storage and dolphin notices.
Report(e) ==
    CASE e = "NewIdleAnimation" -> anim.state = "Idle" /\ (Top = "Main" \/ locked)
      [] e = "CheckAnimation" -> Top = "Main"
      [] OTHER -> TRUE

Reported ==
    /\ Running
    /\ \E e \in {"ApiUnlock", "ReloadSettings", "NewIdleAnimation", "CheckAnimation"}
                 \cap Inputs : Report(e) /\ Post(e)
    /\ UNCHANGED <<lockVars, sceneVars, appVars, loaderVars, view, autoLock,
                   settings, anim, halted>>

\* desktop_view_pin_input_timer_callback: 15 s without a press.
PinIdle ==
    /\ Running /\ Top = "PinInput" /\ "PinIdle" \in Inputs
    /\ Range(events) \cap UserEvents = {}
    /\ Post("PinBack")
    /\ UNCHANGED <<lockVars, sceneVars, appVars, loaderVars, view, autoLock,
                   settings, anim, halted>>

\* The settings application sets or removes the PIN (desktop_pin_code_set,
\* desktop_pin_code_reset); its keys only reach it while the screen is open.
SetPin ==
    /\ Running /\ loader = "running" /\ ~lockdown /\ "SetPin" \in Inputs
    /\ rtc' = [rtc EXCEPT !.pin = ~@]
    /\ UNCHANGED <<events, locked, lockdown, cli, sceneVars, appVars, loaderVars, view,
                   autoLock, settings, anim, halted>>

\* desktop_api_set_settings, called by the settings application: the structure
\* is overwritten in the application's thread.
SetSettings ==
    /\ Running /\ loader = "running" /\ "SaveSettings" \in Inputs
    /\ \E d \in {s.delay : s \in SavedSettings} :
          settings' = [settings EXCEPT !.delay = d]
    /\ Post("SaveSettings")
    /\ UNCHANGED <<lockVars, sceneVars, appVars, loaderVars, view, autoLock, anim, halted>>

\* Another client of the loader, its poll timer, or the end of an application
\* puts a message into the loader's queue.
OtherPuts ==
    /\ Running /\ CallLoader
    /\ UNCHANGED <<events, lockVars, sceneVars, appVars, announced, view, autoLock,
                   settings, anim, halted>>

\* The loader serves a message that starts or ends no application.
LoaderServes ==
    /\ Running /\ loader \in {"idle", "running"} /\ request
    /\ request' = FALSE
    /\ UNCHANGED <<events, lockVars, sceneVars, appVars, announced, view, autoLock,
                   settings, anim, halted>>

\* desktop_loader_callback, in the loader's thread, while it serves a message.
LoaderBeforeLoad ==
    /\ Running /\ loader \in {"idle", "running"} /\ Len(history) < MaxLaunches
    /\ request /\ request' = FALSE
    /\ \E n \in Names :
          /\ pendingName' = n
          /\ history' = Append(history, n)
    /\ Post("BeforeAppStarted")
    /\ loader' = "waiting"
    /\ UNCHANGED <<lockVars, sceneVars, appVars, view, autoLock, settings, anim, halted>>

\* Mutant: the loader sees the token but does not take it.
AcquireKeepsToken ==
    /\ Running /\ loader = "waiting" /\ semaphore = 1
    /\ loader' = "running"
    /\ UNCHANGED <<events, lockVars, sceneVars, appVars, pendingName,
                   history, request, view, autoLock, settings, anim, halted>>

LoaderAcquire ==
    /\ Running /\ loader = "waiting" /\ semaphore = 1
    /\ semaphore' = 0
    /\ loader' = "running"
    /\ UNCHANGED <<events, lockVars, sceneVars, appRunning, recent, pendingName,
                   history, request, view, autoLock, settings, anim, halted>>

LoaderNoMoreApps ==
    /\ Running /\ loader = "running" /\ request /\ request' = FALSE
    /\ Post("AfterAppFinished")
    /\ loader' = "idle"
    /\ UNCHANGED <<lockVars, sceneVars, appVars, pendingName, history, view, autoLock,
                   settings, anim, halted>>

\* The handler of e calls the loader, or does so unless no application is
\* assigned to the key or line.
NeedsLoader(e) ==
    \/ e \in {"SaveSettings", "ReloadSettings"}
    \/ Top = "Main" /\ e \in LaunchEvents \cup {"DummyUpLong"}
    \/ Top = "Main" /\ e = "InteractAnimation" /\ ~Interacts(anim)
    \/ Top = "Favorites" /\ AsIndex(e) < Favorites
    \/ Top = "Recent" /\ AsIndex(e) < Len(recent)

\* The desktop is stopped in a call of the loader.
DesktopWaits == request /\ events # <<>> /\ NeedsLoader(Head(events))

\* 3 s without the semaphore: loader and desktop wait for each other.
LoaderGivesUp ==
    /\ Running /\ loader = "waiting" /\ semaphore = 0 /\ DesktopWaits
    /\ Crash("release")
    /\ UNCHANGED <<events, lockVars, sceneVars, appVars, loaderVars, view, autoLock,
                   settings, anim>>

-----------------------------------------------------------------------------
(* Custom events                                                           *)

\* Mutant: a repeat of the last application is listed twice.
PushAlways(list, name) ==
    SubSeq(<<name>> \o list, 1, Min({RecentMax, Len(list) + 1}))

\* desktop_recent_apps_push.
Push(list, name) ==
    IF name = NoName \/ (list # <<>> /\ list[1] = name) THEN list
    ELSE SubSeq(<<name>> \o list, 1, Min({RecentMax, Len(list) + 1}))

\* Mutant: the loader is released only when there was an animation to stall.
ReleaseWhenStalled ==
    IF anim.loaded /\ ~StallAsserts(anim)
    THEN Crash("animation") /\ UNCHANGED <<anim, autoLock, appVars>>
    ELSE /\ anim' = IF anim.loaded THEN Stalled(anim) ELSE anim
         /\ autoLock' = Inhibit
         /\ appRunning' = TRUE
         /\ recent' = Push(recent, pendingName)
         /\ semaphore' = IF anim.loaded THEN 1 ELSE semaphore
         /\ UNCHANGED halted

BeforeAppStarted ==
    IF anim.loaded /\ ~StallAsserts(anim)
    THEN Crash("animation") /\ UNCHANGED <<anim, autoLock, appVars>>
    ELSE /\ anim' = IF anim.loaded THEN Stalled(anim) ELSE anim
         /\ autoLock' = Inhibit
         /\ appRunning' = TRUE
         /\ recent' = Push(recent, pendingName)
         /\ semaphore' = 1
         /\ UNCHANGED halted

AfterAppFinished ==
    IF ~ContinueAsserts(anim)
    THEN Crash("animation") /\ UNCHANGED <<anim, autoLock, appVars>>
    ELSE /\ anim' \in Continued(anim)
         /\ autoLock' = Arm(settings.delay)
         /\ appRunning' = FALSE
         /\ UNCHANGED <<recent, semaphore, halted>>

\* desktop_apply_settings; the menu style goes to the loader.
ApplySettings(s) ==
    /\ anim' = AnimDummy(anim, s.dummy)
    /\ CallLoader
    /\ autoLock' = IF appRunning \/ locked THEN autoLock ELSE Arm(s.delay)

SettingsChanged(s) == settings' = s /\ ApplySettings(s)

\* Mutant: the auto-lock event locks a desktop that is locked.
AutoLocksAgain == ~appRunning /\ ~UsbInhibits

AutoLocks == ~appRunning /\ ~locked /\ ~UsbInhibits

HandleGlobal(e) ==
    \/ /\ e = "BeforeAppStarted" /\ BeforeAppStarted
       /\ UNCHANGED <<lockVars, sceneVars, view, settings, request>>
    \/ /\ e = "AfterAppFinished" /\ AfterAppFinished
       /\ UNCHANGED <<lockVars, sceneVars, view, settings, request>>
    \/ /\ e = "AutoLock"
       /\ IF AutoLocks THEN DesktopLock
          ELSE UNCHANGED <<lockVars, sceneVars, autoLock, view, halted>>
       /\ UNCHANGED <<appVars, settings, anim, request>>
    \/ /\ e = "SaveSettings" /\ SettingsChanged(settings)
       /\ UNCHANGED <<lockVars, sceneVars, appVars, view, halted>>
    \/ /\ e = "ReloadSettings" /\ \E s \in SavedSettings : SettingsChanged(s)
       /\ UNCHANGED <<lockVars, sceneVars, appVars, view, halted>>

\* What desktop_view_locked_update may leave: the doors move or are shut, a
\* label goes away; the timer stops unless the doors were still moving.
Updated(v) ==
    CASE v.state = "DoorsClosing" -> {v, [v EXCEPT !.state = "Locked"]}
      [] v.state = "LockedHint" -> {[v EXCEPT !.state = "Locked", !.timer = "off"]}
      [] v.state = "UnlockedHint" -> {[v EXCEPT !.state = "Unlocked", !.timer = "off"]}
      [] OTHER -> {[v EXCEPT !.timer = "off"]}

UpdateView ==
    /\ view' \in Updated(view)
    /\ IF view.state = "DoorsClosing" /\ view'.state = "Locked"
       THEN events' = Append(Tail(events), "DoorsClosed")
       ELSE events' = Tail(events)

rest == <<appVars, loaderVars, settings>>

\* The scenes that only change the stack: what each event leads to.
Navigation == [
    Main |-> {"OpenLockMenu", "OpenDebug", "OpenFavorites", "OpenRecent"},
    LockMenu |-> {"LockMenuToggle", "OpenQuickSettings"},
    QuickSettings |-> {"QuickSettingsClose"},
    Debug |-> {"DebugExit"},
    Locked |-> {"ShowPinInput"},
    PinInput |-> {"PinBack"},
    PinTimeout |-> {"PinTimeoutExit"},
    Boot |-> {"BootExit"},
    Favorites |-> {},
    Recent |-> {}]

Opens == [OpenLockMenu |-> "LockMenu", OpenDebug |-> "Debug",
          OpenFavorites |-> "Favorites", OpenRecent |-> "Recent",
          OpenQuickSettings |-> "QuickSettings", DebugExit |-> "Main",
          ShowPinInput |-> "PinInput"]

Navigate(e) ==
    /\ e \in Navigation[Top]
    /\ CASE e \in DOMAIN Opens -> NextScene(Opens[e])
         [] e = "LockMenuToggle" -> SwitchBack("Main")
         [] e = "PinBack" -> SwitchBack("Locked")
         [] OTHER -> PreviousScene
    /\ events' = Tail(events)
    /\ UNCHANGED <<lockVars, rest, view, autoLock, anim, halted>>

\* Lock from the home screen; in dummy mode only when no application is
\* assigned to the key.
HandleLock(e) ==
    /\ Top = "Main" /\ e \in {"Lock", "DummyUpLong"}
    /\ DesktopLock
    /\ events' = Tail(events)
    /\ UNCHANGED <<rest, anim>>

\* desktop_scene_main_start_favorite, desktop_scene_main_open_app_or_profile: the
\* setting may name no application.
StartAssigned == CallLoader \/ UNCHANGED request

\* The application is requested from the loader, which answers in its own time.
HandleLaunch(e) ==
    /\ Top = "Main" /\ e \in LaunchEvents \cup {"DummyUpLong"}
    /\ IF e \in {"OpenMenu", "OpenPowerOff"} THEN CallLoader ELSE StartAssigned
    /\ events' = Tail(events)
    /\ UNCHANGED <<lockVars, sceneVars, appVars, announced, settings, view, autoLock,
                   anim, halted>>

HandleUnlock(e) ==
    /\ \/ Top = "Locked" /\ e \in {"LockedUnlocked", "ApiUnlock"}
       \/ Top = "PinInput" /\ e \in {"PinUnlocked", "ApiUnlock"}
    /\ DesktopUnlock
    /\ events' = Tail(events)
    /\ UNCHANGED <<rest, anim>>

HandleUpdate(e) ==
    /\ Top \in {"Main", "Locked"} /\ e = "LockedUpdate"
    /\ UpdateView
    /\ UNCHANGED <<lockVars, sceneVars, rest, autoLock, anim, halted>>

HandleAnimation(e) ==
    /\ \/ Top = "Main" /\ e = "CheckAnimation" /\ anim' \in Checked(anim)
       \/ Top \in {"Main", "Locked"} /\ e = "NewIdleAnimation" /\ anim' = Renewed(anim)
    /\ events' = Tail(events)
    /\ UNCHANGED <<lockVars, sceneVars, rest, view, autoLock, halted>>

\* A press the animation does not consume starts an application.
HandleInteract(e) ==
    /\ Top = "Main" /\ e = "InteractAnimation"
    /\ IF Interacts(anim) THEN anim' \in Interacted(anim) /\ UNCHANGED request
       ELSE StartAssigned /\ UNCHANGED anim
    /\ events' = Tail(events)
    /\ UNCHANGED <<lockVars, sceneVars, appVars, announced, settings, view, autoLock,
                   halted>>

\* desktop_set_dummy_mode_state, then back to Main.
HandleDummyMode(e) ==
    /\ Top = "LockMenu" /\ e \in {"DummyModeOn", "DummyModeOff"}
    /\ LET d == IF e = "DummyModeOn" THEN "on" ELSE "off" IN
          /\ settings' = [settings EXCEPT !.dummy = d]
          /\ anim' = AnimDummy(anim, d)
    /\ SwitchBack("Main")
    /\ events' = Tail(events)
    /\ UNCHANGED <<lockVars, appVars, loaderVars, view, autoLock, halted>>

\* A wrong PIN: the wait once the free attempts are used up.
HandlePinFailed(e) ==
    /\ Top = "PinInput" /\ e = "PinFailed"
    /\ IF FailTimeout(rtc.fails) THEN NextScene("PinTimeout") ELSE UNCHANGED sceneVars
    /\ events' = Tail(events)
    /\ UNCHANGED <<lockVars, rest, view, autoLock, anim, halted>>

\* desktop_scene_favorites_on_event and desktop_scene_recent_on_event take every
\* custom event for the index of a line.
HandleList(e) ==
    /\ \/ /\ Top = "Favorites"
          /\ IF AsIndex(e) < Favorites
             THEN PreviousScene /\ StartAssigned /\ UNCHANGED halted
             ELSE Crash("favorites") /\ UNCHANGED <<sceneVars, request>>
       \/ /\ Top = "Recent" /\ recent = <<>>
          /\ PreviousScene /\ UNCHANGED <<request, halted>>
       \/ /\ Top = "Recent" /\ recent # <<>>
          /\ IF AsIndex(e) < Len(recent)
             THEN PreviousScene /\ CallLoader /\ UNCHANGED halted
             ELSE Crash("recent") /\ UNCHANGED <<sceneVars, request>>
    /\ events' = Tail(events)
    /\ UNCHANGED <<lockVars, appVars, announced, settings, view, autoLock, anim>>

\* Events the scene on top knows; the others are dropped.
Known(s) == Navigation[s] \cup
    CASE s = "Main" -> {"Lock", "DummyUpLong", "LockedUpdate"} \cup LaunchEvents
                       \cup AnimationEvents
      [] s = "LockMenu" -> {"DummyModeOn", "DummyModeOff"}
      [] s = "Locked" -> {"LockedUnlocked", "ApiUnlock", "LockedUpdate", "NewIdleAnimation"}
      [] s = "PinInput" -> {"PinUnlocked", "ApiUnlock", "PinFailed"}
      [] s \in {"Favorites", "Recent"} -> Event
      [] OTHER -> {}

Dropped(e) ==
    /\ e \notin Known(Top)
    /\ events' = Tail(events)
    /\ UNCHANGED <<lockVars, sceneVars, rest, view, autoLock, anim, halted>>

HandleScene(e) ==
    \/ Navigate(e) \/ HandleLock(e) \/ HandleLaunch(e) \/ HandleUnlock(e)
    \/ HandleUpdate(e) \/ HandleAnimation(e) \/ HandleInteract(e) \/ HandleDummyMode(e)
    \/ HandlePinFailed(e) \/ HandleList(e) \/ Dropped(e)

\* desktop_custom_event_callback.
HandleEvent ==
    /\ Running /\ events # <<>>
    /\ LET e == Head(events) IN
       \/ e \in GlobalEvents /\ HandleGlobal(e) /\ events' = Tail(events)
          /\ UNCHANGED announced
       \/ e \notin GlobalEvents /\ HandleScene(e)

-----------------------------------------------------------------------------
User == Key \/ KeyBack \/ WrongPin \/ LockedKey

LoaderSteps == LoaderBeforeLoad \/ LoaderNoMoreApps \/ LoaderServes \/ LoaderGivesUp

Environment == LoaderSteps \/ OtherPuts \/ SetSettings \/ SetPin \/ Reported \/ PinIdle
               \/ LockedTimer \/ AutoLockTimer \/ Reboot

Next == User \/ Environment \/ HandleEvent \/ LoaderAcquire \/ PinTimeoutTimer

\* The desktop thread and the loader thread run, a wait of 3 s ends. A thread
\* waiting for a place in the loader's queue gets one when places become free
\* again and again, and so does a timer whose post a full event queue blocks.
Fairness ==
    /\ WF_vars(LoaderAcquire) /\ WF_vars(LoaderServes) /\ WF_vars(LoaderGivesUp)
    /\ SF_vars(HandleEvent) /\ SF_vars(PinTimeoutTimer)

Spec == Init /\ [][Next]_vars /\ Fairness

-----------------------------------------------------------------------------
(* Properties                                                              *)

\* The scattered pieces of the lock agree after every handler: desktop->locked,
\* the scene stack, the GUI lockdown, the backup flag, the CLI and the locked
\* view, whatever order lock requests, unlock requests and restarts come in;
\* and while locked only the lock screen and boot reports are on top.
LockStateAgrees ==
    Running =>
        /\ locked <=> "Locked" \in Range(scenes)
        /\ lockdown = locked
        /\ cli = ~(locked /\ PinSet)
        /\ locked => /\ rtc.lock
                     /\ view.state \in {"Locked", "DoorsClosing", "LockedHint"}
                     /\ view.pin = PinSet
                     /\ Top \in {"Locked", "PinInput", "PinTimeout", "Boot"}
        /\ ~locked => view.state \in {"Unlocked", "UnlockedHint"}

\* The assertions of desktop_lock and desktop_unlock never fail: no queue of
\* events locks a locked desktop or unlocks an unlocked one.
LockAssertsHold == halted \notin {"lock", "unlock"}

\* The locked view is in its unlocked state whenever the desktop locks, as
\* desktop_view_locked_lock asserts, unless an API unlock was handled ahead of a
\* queued press of the home screen since the start: Lock, ApiUnlock, Lock fails.
LockedViewReady == halted = "lockedView" => view.remote

\* An unlocked idle desktop with auto-lock on is going to lock: the timer runs
\* or its event is queued, and presses reach the timer. Settings that are
\* stored but not applied yet are excepted.
AutoLockArmed ==
    (/\ Running /\ ~locked /\ ~appRunning /\ settings.delay > 0
     /\ Range(events) \cap {"SaveSettings", "ReloadSettings"} = {})
    => /\ autoLock.sub = "on"
       /\ autoLock.timer = "on" \/ "AutoLock" \in Range(events)

\* The animation is out of memory exactly while an application runs, and the
\* assertions of the animation manager that stall and continue it hold, unless
\* dummy mode changed or the level-up was dismissed while it was stalled: both
\* start a new animation without asking.
AnimationInStep ==
    /\ halted = "animation" => anim.forced
    /\ (Running /\ ~anim.forced) => /\ anim.frozen <=> appRunning
                                    /\ anim.loaded <=> ~anim.frozen

\* The handshake with the loader: a token is in the semaphore only for the
\* launch the loader waits on, so no launch passes before its own event was
\* handled, and app_running is right whenever the two threads are at rest.
Handshake ==
    LET pending == Cardinality({i \in DOMAIN events : events[i] = "BeforeAppStarted"}) IN
    Running =>
        /\ pending = IF loader = "waiting" THEN 1 - semaphore ELSE 0
        /\ semaphore = 1 => loader = "waiting"
        /\ loader = "running" => appRunning
        /\ (loader = "idle" /\ "AfterAppFinished" \notin Range(events)) => ~appRunning

\* The launches of h, an immediate repeat counted once.
Starts(h) == {k \in DOMAIN h : k = 1 \/ h[k] # h[k - 1]}

\* The list names the latest launches of h, newest first: line i shows the
\* launch that the lines above it, and no others, are newer than. It shows all
\* of them unless it is full.
Latest(list, h) ==
    \E line \in [DOMAIN list -> Starts(h)] :
        /\ \A i \in DOMAIN list :
              /\ list[i] = h[line[i]]
              /\ {k \in Starts(h) : k > line[i]} = {line[j] : j \in 1 .. i - 1}
        /\ Len(list) = RecentMax \/ Range(line) = Starts(h)

\* Recent holds the last launches, newest first, without immediate repeats,
\* although name and event travel separately through pending_app_name and the
\* event queue.
RecentMatchesHistory ==
    LET handled == IF "BeforeAppStarted" \in Range(events) THEN Front(history) ELSE history
    IN Running => Latest(recent, handled)

\* Once the free attempts are used up no further PIN can be entered before the
\* timer of the wait, which is running, has run out, across restarts too. Two
\* failures get away: one typed while the no-activity event of the keypad is
\* queued (WrongPin), and one whose event is overtaken by the timer left running
\* by an earlier wait (PinTimeoutTimer).
PenaltyServed ==
    (Running /\ penalty.due) =>
        \/ "PinFailed" \in Range(events)
        \/ /\ "PinTimeout" \in Range(scenes) /\ Top # "PinInput"
           /\ penalty.timer = "on"

\* The loader is released within its 3 s, whatever is queued ahead of its event,
\* unless the desktop is stopped in a call of the loader with the loader's queue
\* full: then each waits for the other and the furi_check takes the device down.
LoaderReleased == loader = "waiting" ~> (loader # "waiting" \/ DesktopWaits \/ ~Running)

\* The PIN wait ends, or the device restarts: the exit event of its timer is not
\* lost under a boot report, or the timer is started again.
PenaltyEnds == Top = "PinTimeout" ~> (Top # "PinTimeout" \/ ~Running)
=============================================================================
