# Verification of the R0N1N firmware core

R0N1N is a firmware for the Flipper Zero, forked from Unleashed. It consists of
a kernel layer (`firmware/furi`, over FreeRTOS), services that live as long as
the device (`firmware/applications/services`), and applications, one of which
runs at a time. This project models what every use of the device goes through:
the application loader, the desktop, the keys from the contact to the view that
gets them (input service, GUI, view dispatcher), the event loop that
applications and services run on, and an RPC session. TLC checks the models on
small instances; TLAPS proves their safety properties for every instance. Paths below are relative to
`firmware/applications/services` unless they start with `firmware/` or `docs/`.

## 1. Inventory

| Component | State | Operations | Works with | What is hard |
|---|---|---|---|---|
| loader | message queue of depth 1, record of the running application, launch queue of 4, loading animation, menu, browser | start (three variants), lock, unlock, enqueue, clear, menu, style, queries | kernel scrub thread, desktop and power (events), every client (api_lock) | callers, scrub thread and timer share a one-entry queue; handlers block |
| desktop | event queue, scene stack, lock state in six places, auto-lock timer, Recent list, settings | lock, unlock, keys, settings, handlers per scene | loader (events, semaphore), GUI, storage, RPC, RTC registers | events for one scene arriving in another, timers racing keys, restarts |
| animation manager | current and stalled animation, blocking state | check, renew, interact, stall, continue | desktop, storage, dolphin | assertions on the order of stall and continue |
| gui: view dispatcher, scene manager | queues, views, stack of scenes, keys that are down | switch view, run, stop, next, previous, search | every application, compositor | keys arrive from the GUI's thread while views change; a key's Release must find the view of its Press |
| gui: compositor | layers, view ports, lockdown, direct drawing, keys that are down | add, remove, order, enable, redraw, route input | input service, all view ports | its mutex is held over input callbacks that wait for applications |
| furi/core: event loop | items, waiting list, timers, pending callbacks, flags | subscribe, unsubscribe, start and stop timers, run, stop | queues, applications | flags of many senders taken at once; callbacks that unsubscribe; late timers |
| furi/core: thread, record, pubsub, timer | thread states, record holders, subscribers | start, join, scrub, open, close, publish | everything | blocking and life times across threads |
| storage | open files, card status | open, read, write, remove, mount | every service | removal of the card under open files |
| rpc | sessions, stream of received bytes, callbacks of the transport, application system | open, feed, close, send, confirm | cli, bt, loader, applications, timer daemon | close, disconnect and the application's answers race on four threads |
| power | state of battery, power-off timer | event loop of messages and ticks | loader events, input, gui | timers against application sessions |
| expansion | worker, mode | enable, disable, listen | rpc, serial port | thread handing its port over |
| input | contacts, debounce counters, press counters and timers | press, short, long, repeat, release | gui (bounded queue), timer daemon | two threads publish events of one key |
| bt, cli, notification, dialogs, dolphin | connection, shell, layers, one dialog, deeds | see sources | rpc, gui, storage | mostly sequential requests |
| updater, HAL, protocols (Sub-GHz, NFC, RFID, IR, iButton), applications | - | - | - | hardware, signals, user interface |

Properties that make them correct, with the ones stated here in italics:

* loader: an application's end is reported once (*ClosedOnce*, *EndIsReported*),
  its resources belong to it (*ResourcesMatchApp*), the lock has one owner
  (*LockExclusive*), a reply never meets a caller that left (*ReplyAwaited*),
  calls return (*CallsReturn*), the animation is up exactly when due
  (*LoadingAccounted*, *HoldEnds*), subscribers know whether an application runs
  (*SubscribersInStep*, *NoMoreAppsMeansNone*), windows neither miss a wake-up
  nor draw with an unmapped plugin (*NoLostWakeup*, *MenuStyleMapped*).
* desktop: the pieces of the lock agree (*LockStateAgrees*), asserted states
  hold (*LockAssertsHold*, *LockedViewReady*), a penalty cannot be skipped and
  ends (*PenaltyServed*, *PenaltyEnds*), an idle device locks (*AutoLockArmed*),
  Recent is right (*RecentMatchesHistory*), the loader is let go (*Handshake*,
  *LoaderReleased*). Four of these hold up to a defect of the code, which the
  property names (section 5).
* animation manager: stall and continue alternate (*AnimationInStep*).
* input: the events of a key form sequences of Press, Short or Long and Repeat,
  Release (*ImplementsKeys*, *OneMeaning*), and no edge is slept through
  (*KeysSettle*).
* gui and view dispatcher: whoever got a Press gets its Release (*NoStuckKeys*,
  *KeyOwnsRelease*), nothing removed is used (*NothingDangles*), the screen
  shows the state once the GUI rests (*ScreenUpToDate*).
* event loop: no wait on work (*NoSleepOnWork*, *LevelWaits*), timers in order
  and stopped when told (*FrontIsEarliest*, *StopMeansStop*), lists without
  freed items (*ListsAlive*), flags heard (*ThreadFlagHeard*, which fails).
* rpc: no callback after the close (*NoCallbackAfterClose*), what was received
  is served (*FedIsServed*), answers at most once (*AnsweredOnce*), a closed
  session ends (*CloseEnds*).
* planned: records are destroyed only without holders; no file stays open on a
  removed card; a port handed to an expansion module comes back.

`PROJECT.json` lists the components with their status and the hazards with
their lines.

## 2. Plan

1. `Loader` (done): the core; proofs in `LoaderProofs` and `LoaderSafetyProofs`.
2. `Desktop` (done): lock, scenes, auto-lock, animation.
3. `Keys` (done): what the events of the keys look like to their receivers.
   `Input` (done) implements it; `Gui` (done) is built on it, and
   `ViewDispatcher` (done) on `Gui`.
4. `EventLoop` (done) and `Rpc` (done).
5. Proofs (done): `LoaderSessionProofs`, `InputProofs`, `RpcProofs`,
   `EventLoopProofs`, `ViewDispatcherProofs`, `DesktopProofs`.
6. Left for later: `Session`, an abstract specification of what the loader tells
   subscribers, and its composition with `Desktop`, which so far knows of the
   loader's queue only whether it is full; records, `Expansion`, `Storage`,
   Bluetooth sessions.

No module that is proved about, or will be, uses a RECURSIVE operator.

## 3. Modules

### Loader.tla

`loader/loader.c` and the parts of `loader_menu.c`, `loader_applications.c`,
`loader_queue.c`, `furi/core/thread.c` it interacts with.

* Variables: `queue` (loader->queue), `callPc`, `callMsg` (where each caller is
  in the API and what it sends), `holds` (clients that locked the loader), `app`
  (loader->app), `thread`, `scrubQueue`, `scrubPc` (threads as the kernel sees
  them), `launchQueue`, `pc` and `job` (where the loader thread blocks),
  `loading`, `insomnia`, `session` (what the last published event said),
  `style`, `browser`.
* Callers: `Request` begins a call, `Put` puts its message when the queue has
  room. Synchronous calls then wait until the handler releases their api_lock.
* Loader thread: one action per message of `loader_srv`. A handler is cut only
  where it blocks: at the BeforeLoad event (desktop's semaphore) and at the
  joins of the menu and browser threads.
* Kernel: `ThreadExit`, `Scrub`, `ScrubPut` are the three stages of a thread's
  end; `TimerTick` is the poll of the loading animation, dropped when the queue
  is full. `Halted` is a device stopped by a failed `furi_check`.

### Desktop.tla

`desktop/desktop.c`, its scenes and views, `animations/animation_manager.c`, and
the parts of `gui/scene_manager.c` and `gui/view_dispatcher.c` it uses.

* Variables: `events` (view dispatcher queue), `scenes` (scene stack), `locked`,
  `rtc` (lock flag and count of wrong PINs, the only state that survives a
  restart), `lockdown`, `cli`, `view` (locked view), `penalty`, `autoLock`
  (timer and subscription to key presses), `settings`, `appRunning`, `anim`,
  `recent`, `shown`, `pendingName`, `semaphore`, `loader`, `request` (whether the
  loader's queue of one message is full), `halted`. `history`, `penalty.due`,
  `view.remote` and `anim.forced` are history variables for the properties: the
  launches, whether a wait is owed, whether an API unlock overtook a press, and
  whether a new animation was started over a stalled one.
* Keys: `Key`, `KeyBack`, `LockedKey`, `WrongPin` post what the view on top
  posts. Time is abstracted: a timer that runs may fire, except where the code's
  constants order it (auto-lock takes at least 10 s, the label 2 s; the
  no-activity timer 15 s after a press). `SetPin` is the settings application
  setting or removing the PIN.
* Other threads: timers (`PinIdle` is the keypad's no-activity timer),
  `Reported` (RPC, card, animation), `SetSettings`; the loader with
  `LoaderBeforeLoad`, `LoaderAcquire`, `LoaderNoMoreApps`, `LoaderServes` (any
  other message) and `LoaderGivesUp` (3 s without the semaphore); `OtherPuts` is
  anyone else who fills the loader's queue.
* Calls of the loader (`CallLoader`: a launch, a line of a list, a press the
  animation does not consume, settings and their menu style) wait while its
  queue is full, as `furi_message_queue_put` with FuriWaitForever does, and with
  them the whole handler.
* Desktop thread: `HandleEvent` takes an event; `HandleGlobal` or the scene on
  top handles it. The boot reports (slideshow, hardware, fault, secure enclave)
  are one scene `Boot`. Actions are whole handlers: `DesktopLock` contains the
  first entry of the Locked scene, `Enter` what entering a scene does.
* `Reboot` is a power cycle, or the restart after a failed assertion.

### Keys.tla, Input.tla

`Keys` is the abstract specification of the input events: a set of keys that are
down and the GUI's bounded queue; per key Press and Release alternate and Short
only comes between them. `Input` is `input/input.c`: contacts (`level`), the
interrupt's flag, `pin` (state, debounce counter, press counter), the thread's
position in its loop over the pins, the timer daemon with its command queue, and
the events on their way to the GUI's queue. `Edge` is a contact that moves or
bounces. `ImplementsKeys` is the refinement: a key is down in `Keys` when its
state is on and its Press is out (`Down`).

### Gui.tla, ViewDispatcher.tla

`Gui` (`gui/gui.c`, `gui/view_port.c`) takes the events of `Keys` and routes them
to view ports: `layers`, `enabled`, `mode` (lockdown, inhibit, direct drawing, hand orientation),
`flags` and `gui` (the thread, the event it holds, ongoing_input and the port
bound to it). Its mutex is held in the states `deliver` and `commit`. Other
threads' calls are one action each. `held` records what a plain port believes
down. `view_port_map_input` is in two
halves: `Handed` swaps the directions for a left-handed user, `Oriented` by the
orientation of the port. The hand orientation is a flag of the RTC that
`HandOrientChanged`, a settings view in its input callback, toggles with the key
still down. `ViewDispatcher` (`gui/view_dispatcher.c`) completes it with one
application: the queue the GUI's thread fills from its input callback
(`DeliverApp`, which waits for room), views, the loading view, the orientation
of the port, and the application's thread. `view_dispatcher_set_current_view` is
cut in three (`Leave`, `Enter`, `Show`) because the GUI's thread runs between
its parts. The callbacks of the application are where it makes its calls
(`AppCall`), which the loop interleaves with keys in any order. The desktop's
own port is a plain one here.

### EventLoop.tla

`firmware/furi/core/event_loop.c`, `event_loop_timer.c`, `event_loop_tick.c` and
the notifying side of `message_queue.c`, for one life of a loop: set up, run,
stopped, freed. `flags` is the notification value a wait takes whole, `got` what
a branch puts back; `waiting`, `current`, `timerList`, `timerQueue`, `pending`
are the code's lists. `pc` tells which callback runs, and in a callback any call
of the API may be made (`Api`). Time passes by `Elapse`, at most `MaxLate` ticks
past an expiry.

### Rpc.tla

A session over USB: `rpc/rpc.c`, `rpc/rpc_cli.c` and `rpc/rpc_app.c`, on five
sides. The host sends messages of two pieces and may hang up in between; the
command line's thread feeds pieces into the stream and closes the session
(`CliCloses`, one callback at a time); the worker reads, decodes, dispatches and
answers; the timer daemon frees the systems and the session; an application
started over RPC attaches, reports its start, confirms, and leaves when it is
told of the end or by its user, detaching before or after it reports its exit
(the infrared and the NFC application do it in opposite orders). A confirmation
answers `last_command_id`, whichever command that is by then.
`rpc_system_app_free` is four steps, between any of which the application may
move: it looks for a callback (`LooksForApp`), calls it (`CallsApp`), the
callback detaches the application (`DetachesApp`), and it waits without a limit
until none is attached (`AwaitsDetach`). `callbacks_mutex` is held in the
states named `sending` and `closing`. A failed check or a use of freed memory
leads to `crashed`. `answers` and `fed` are history variables.

`MCLoader`, `MCLoaderLive` (bounded number of calls), `MCDesktop` and
`MCViewDispatcher` instantiate them; `Input`, `EventLoop` and `Rpc` are checked
as they are.

## 4. Runs

| Run | Result | Shows |
|---|---|---|
| loader_core | passes | two clients, enqueuing application, scrub and timer: reports, resources, lock, replies, animation and events are consistent |
| loader_windows | passes | menu and browser: mapped style, no lost wake-up |
| loader_live | passes | calls return, holds end, ends are reported |
| desktop_lock | passes | all scenes, PIN set, unset or changed, penalty with the no-activity timer, unlock over the API, dummy mode, auto-lock, three-press unlock, restarts |
| desktop_apps | passes | launches, settings changes, dummy mode and interaction under a running application, animation, Recent |
| desktop_live | passes | the loader is released although the desktop calls the loader, or both wait for each other; waits end |
| input | passes | two keys that bounce, refined to `Keys`; presses mean one thing; keys settle |
| dispatcher | passes | two plain ports and an application with an upright and a flipped view, hand orientation toggled under a held key: keys, redraws and life times |
| event_loop | passes | level and edge queues, two timers, tick, pending callbacks, thread flags |
| rpc | passes | a session with three messages and an application, cable pulled at any point |
| loader_join | violated | mutual wait of loader and scrub thread |
| event_loop_flags | violated | a thread flag taken along with a pending callback and dropped |

Bounds. The loader's queue depth is the code's 1. Two clients suffice for every
race of two calls through one slot, and are symmetric. `LaunchQueueMax` is 2 (4
in the code, and in `loader_live`) so that full and empty are both met. `HoldMax`
counts polls of the animation. For the desktop, `MaxEvents` 3 (16 in the
code) allows every pair of racing events plus one; `MaxScenes` 4 is the deepest
stack with a lock screen over an open scene; `RecentMax` 2 (6) with three
launches of two (interchangeable) names fills and shifts the list; `FreeFails` 2 (4) with three
wrong PINs reaches the second wait.

The three runs of the desktop reach 4.7, 4.5 and 0.7 million states.

`Input` has two keys, so that one is scanned while the other publishes; two
debounce ticks (4 in the code) and two periods for a long press keep every
branch of the counters, and four edges (`MaxEdges`) are two presses, or one with
a bounce, with the initial contacts free. `ViewDispatcher` has an upright and a
flipped view beside the loading view and none, so that views change under a held
key with and without a rotation; three keys, of which Back and Up are pressed
(`Clicked`; Down is what Up is mapped to) and Back also has Short (`Tapped`); two
presses (`MaxClicks`) and one call (`MaxOps`) of all other threads together, not
counting the calls that end what an earlier one began (remove a port, enable it
again, leave lockdown or direct drawing) and what the application does before it
runs its loop; both queues hold one event (8 and 16 in the code), so that
full queues are met all the time. `EventLoop` has a level queue, an edge queue
subscribed once, a one-shot and a periodic timer, intervals 1 and 2, and two
calls (`MaxOps`) beside two messages or flags (`MaxTold`). `Rpc` has messages of
all five kinds, three of them (`MaxMsgs`): enough to start an application, command
it and stop the session or fail to decode; the stream holds two pieces
(`StreamMax`), so that a feed finds it full (1.9 million states).

`CHECK_DEADLOCK FALSE` is used for the loader where windows can end in the mutual
wait that `loader_join` shows or the device halts, where calls, edges or messages
are bounded, and in `dispatcher` for the mutual wait described in section 5.

Fairness. `Loader`: weak fairness of each thread's steps, since FreeRTOS
schedules every ready thread of equal priority in turn; callers are not fair
about making calls. Liveness is checked with a bounded number of calls because a
caller blocked on a full queue may be overtaken by new ones without end.
`Desktop`: weak fairness of the loader's steps (taking the semaphore, serving a
message, giving up); strong fairness of the desktop's handler, which may wait
for a place in the loader's queue, and of the wait's timer, whose post to a full
queue is blocked: FreeRTOS serves the tasks waiting for a queue in turn. Keys,
launches, restarts and other posts are not fair. `Input`: weak fairness of
the thread's loop and of the GUI's get; strong fairness of the publishers and of
the daemon's commands, because FreeRTOS wakes the tasks blocked on a queue in
turn; contacts and the expiry of timers are not fair. `EventLoop`: the loop's
thread runs, a sender finishes its call, and time passes. `Rpc`: each thread
runs and a callback of the transport returns, since `pipe_send` ends when the
host reads or hangs up; the host is not fair, and neither is the user of an
application: nobody has to leave it.

## 5. Findings

* **Mutual wait** (`loader_join`): `loader_do_menu_closed` and
  `loader_do_applications_closed` join a window's thread; only the scrub thread
  can complete the join, and it may be blocked putting AppClosed in the loader's
  full queue.
* **Dropped flag** (`event_loop_flags`): the event and timer branches of
  `furi_event_loop_run` put back the other flags they took, the pending branch
  does not. A thread flag that arrives with a pending callback is dropped.

Disagreements and defects the models contain and no run is spent on:

* Loader: `loader_enqueue_launch(NULL)`, documented as a cancellation
  (`loader.h:166`), fails a check (`EnqueueNull`). A deferred launch of "Apps"
  succeeds without starting anything, so NoMoreAppsInQueue is never published:
  desktop and power believe an application runs, and a browser that waits for
  its application can wait for good. The runs enqueue other names; with "Apps"
  in `EnqueueNames`, *SubscribersInStep* and *NoLostWakeup* fail. The end of
  another client's application, seen between the browser's subscription and its
  own launch (`loader_applications.c:134`), ends its wait early.
* Desktop: unlock, press Up within two seconds, and the label's timer posts its
  update to Quick Actions, whose assertion takes it for an index (`HandleList`);
  Recent has the same handler. The no-activity event (`PinIdle`) queued just
  before a wrong PIN's event leaves the scene: the failure is counted and no wait
  imposed until the next one (`WrongPin`, the first exception of
  *PenaltyServed*). Settings reloaded with auto-lock OFF leave the
  running timer armed (`Arm`). An auto-lock event that meets a USB session is
  consumed. Two things start a new animation over the one stalled for an
  application, and the assertion of the next stall or continue fails
  (`animation_manager.c:202`, `:502`): a card with another dummy mode mounted
  while the application runs (`AnimDummy`), and a press that dismisses the
  level-up, handled behind BeforeAppStarted (`Interacted`). They are the
  exception of *AnimationInStep* (`anim.forced`). A device locked
  without a PIN restarts unlocked with the lock flag set (`Reboot`). A lock queued
  behind an unlock request of the API finds the locked view with its label up and
  fails an assertion (`desktop_view_locked.c:225`): the queue Lock, ApiUnlock,
  Lock is enough. It is the exception of *LockedViewReady* (`Overtaken`).
  The loader waits for the desktop inside its own callback (`desktop.c:39`) and
  does not serve its queue meanwhile; if another client's message fills the queue
  and an event ahead of BeforeAppStarted makes the desktop call the loader
  (a launch, settings), each waits for the other and after 3 s the furi_check
  takes the device down (`LoaderGivesUp`, the exception of *LoaderReleased*,
  `DesktopWaits`). Recent
  keeps the list it was entered with while launches from outside shift
  `recent_apps`. A boot report over the wait: leaving the report enters the wait
  again while its timer runs or its exit event is queued, against the comment in
  `desktop_view_pin_timeout.c` ("no race - always called when timer is stopped");
  the stray timer can overtake the event of the next wrong PIN, whose wait then
  counts as over when it begins (`PinTimeoutTimer`, the second exception of
  *PenaltyServed*).
* View dispatcher: the comment at `view_dispatcher.c:134` says that all input is
  delivered when the run returns; the code stops at the last Release. Some six
  presses while a callback that ends the loop is busy leave the queue full and
  the GUI's thread waiting for room in it with its mutex held, which
  `view_dispatcher_remove_view` then waits for. A rotation with a Press of the
  old mapping queued leaves that key in ongoing_input, and the drain waits
  forever (`Enter`). So does the hand orientation: `view_port_map_input` reads the
  flag anew for every event, and `hand_orient_changed` (`system_settings.c:171`)
  toggles it on a Short or a Repeat of Left or Right, with the key down; the
  Release arrives as the opposite key, the old one stays in ongoing_input, and
  on the way out the drain at `view_dispatcher.c:136` waits for a Release nobody
  sends until the opposite key is pressed. Plain ports are left with a stuck key
  the same way. *KeyOwnsRelease* and *NoStuckKeys* name these two, port by port,
  as their only exceptions (`remapped`).
  The reset of the loading view is skipped while a key is down, so a Press queued
  behind it lands on the next view (`Resets`).
* Event loop: an item subscribed once is freed before it is made current and used
  (`TakeOnce`, the state `crashed`). A callback pended from a pending callback
  runs before timer commands issued ahead of it, against `event_loop.h:180`. The
  stop branch consumes flags that a second run of the loop would need. An
  interval of 0 for a periodic timer divides by zero.
* RPC: `rpc_system_app_free` looks for an application, calls it, and waits until
  it is detached, without a lock. An application that attaches between the look
  (`rpc_app.c:500`) and the wait (`:513`) is not told of the end: the timer
  daemon, and so every timer of the device, and the command line then wait until
  the user leaves it (`AttachedLate`, the exception of *CloseEnds*). One that
  leaves between the look and the call has NULL or the callback of a freed
  context called, and the callback posts the end to the application before it
  detaches it (`infrared_app.c:57`), which may be freed in between. An application
  that confirms or reports after the session's end cleared its context fails a
  check, and one that attaches, answers or reports its exit while the daemon frees
  the system uses freed memory (all `crashed`). A feed that finds no room
  for 3 s loses bytes, which only an assertion notices (`fed.lost`). A second
  command before the first is confirmed fails an assertion, so the model's host
  keeps to one (`OneAtATime`). `rpc_pb_stream_read` calls buffer_is_empty_callback
  without the mutex, against `rpc.h:70`, and `bt.c` sets it before its context;
  Bluetooth sessions are not modelled.

## 6. Proofs

Every theorem holds for any values of the constants that satisfy the named
assumptions of the module it is about: any clients, keys, ports, views, timers
and objects, any queue lengths and any of the bounds of section 4. Each
inductive invariant was first checked by TLC as an invariant of the module's
run. A proof module has one lemma per action or group of actions, under it one
step per part of the invariant the action can disturb, and lemmas on sequences
(what taking the head, appending, filtering or inserting does to the elements)
stated once at its beginning.

| Module | Theorems |
|---|---|
| LoaderProofs | LoaderTyped |
| LoaderSafetyProofs | LoaderInvariant; LoaderClosedOnce, LoaderLockExclusive, LoaderReplyAwaited, LoaderLoadingAccounted, LoaderDepthBounded |
| LoaderSessionProofs | LoaderResourcesMatchApp, LoaderMenuStyleMapped; under hypotheses LoaderSubscribersInStep, LoaderNoLostWakeup, LoaderNoMoreAppsMeansNone |
| InputProofs | InputInvariant; InputImplementsKeys, InputOneMeaning |
| RpcProofs | RpcInvariant; RpcNoCallbackAfterClose, RpcAnsweredOnce, RpcFedIsServed |
| EventLoopProofs | EventLoopInvariant; EventLoopNoSleepOnWork, EventLoopFrontIsEarliest, EventLoopListsAlive, EventLoopLevelWaits, EventLoopStopMeansStop |
| DesktopProofs | LockInvariant; LockStateAlwaysAgrees, LockAssertsAlwaysHold, HandshakeHolds, RecentAlwaysMatches; AnimationAlwaysInStep, LockedViewAlwaysReady, PenaltyAlwaysServed; under a hypothesis AutoLockAlwaysArmed |
| ViewDispatcherProofs | DispatcherInvariant; DispatcherKeyOwnsRelease, DispatcherNoStuckKeys, DispatcherNothingDangles, DispatcherScreenUpToDate |

**Loader.** `LoaderProofs` proves type correctness over the parts `QueueOK` ...
`WindowsOK`. `LoaderInv` adds to it:

* ClosedOnce: the application is in exactly one place on its way from running to
  reported. It is inductive with the type invariant because the queue, the scrub
  queue and the thread state change together.
* LockExclusive needs LaunchBracketed: while a launch is announced the record is
  empty, so a launch that completes cannot overwrite a held lock.
* ReplyAwaited needs OwnMessages: a caller about to put carries a message of its
  own, so putting it adds no second request of another caller.
* LoadingAccounted and DepthBounded need DirectUnbracketed: a direct launch is
  announced at depth 0, and each deferred one takes its place in the bound from
  the launch queue.

`LoaderSessionProofs` builds on it. `ResourceInv` (resources and the mapped
style) needs no hypothesis. `SessionInv`, that the last event agrees with the
record between messages, needs `BrowserNotEnqueued`: nobody defers a launch of
"Apps"; it follows the names from the callers through the queue to the launch
queue. `ChainInv` adds that there are deferred launches only while an application
runs or the next of them is being announced, and that the browser stays
subscribed from its request to its answer; it also needs `OnlyAppsEnqueue`:
deferred launches come from the running application. Both hypotheses are what the source does:
the callers of `loader_enqueue_launch` are applications (the NFC application and
the debug ones that chain), and none passes "Apps". Without the first the
properties are false (section 5). TLC's instances satisfy both.

**Input.** `InputInv` relates the five places a press can be in: the thread's
position, the pin's debounced state, the timer daemon's command queue, the timer
and the event the daemon holds. The point of it is that a timer which runs, and
a command that will start one, belong to a key that is down or whose Press is
being published, so the callback counts and publishes only between the two
edges. InputImplementsKeys is the refinement: the initial states map to initial
states of `Keys`, and each of the actions maps to a step of `Keys` or a stutter.
It includes everything `Keys` states, which has no fairness. What a run of
timer commands leaves is expressed by the last command of a key (`Commanded`)
rather than by replaying them, because replaying is an induction over data.

**RPC.** `RpcInv` says that pieces in the pipe, in the feeding thread and in the
stream are in the order they were sent in, all behind the messages decoded so
far (`Flow`), so that none is decoded twice; that a decoded message which has not
been answered has at most one holder: the worker, `last_command_id`, or the
answer the application is sending (`OpenOnce`); what the queue of the application
holds does not matter, since a confirmation answers `last_command_id`; that the daemon tears down only after the worker's thread is gone
(`Teardown`); and that nothing is fed after the disconnect and what was fed in
full is decoded or in the stream (`FedKept`). *FedIsServed* and *AnsweredOnce* as
stated are not inductive: they say nothing of the messages under way.

**Event loop.** NoSleepOnWork is not inductive: a flag can be in the
notification value, among those just taken, or among those still to be put
back. `EventLoopInv` follows it through these places in every state of the
loop, together with: what waits is subscribed and waits once; a level that is up
waits, is being processed, or its sender is still to notify; a timer with a
request is in the request queue; the list holds the active timers in the order
of their expiry. StopMeansStop follows because a request that was not served yet
keeps its flag up, and the loop serves its flags before an expired timer.

**View dispatcher.** `KeysInOrder` says that in the GUI's queue Press and Release
of a key alternate, counting what `ongoing_input` holds as an event in place 0;
`FlightInOrder` says the same of the dispatcher's queue with the event the GUI's
thread is putting there, counting the dispatcher's `ongoing_input`, and links the
two: a key that does not end with a Release there is one the GUI counts as down
and will route there. Without this link a Release in the GUI's queue could go
elsewhere. `HeldHere` and
`SeenHere` give NoStuckKeys, `BoundExists` and `DeliversToBound` NothingDangles.
`Current` says that the screen is fresh, a redraw is pending in some place, or a
switch of views is about to ask for one. The last event of a key in a queue is
obtained as the largest index with that key, from the finiteness of the index
range, so no induction over the queue is needed. The theorems on keys are stated up to
the two changes of the mapping of section 5, per port (`remapped`): as long as a
port is not in it, the mapping of each key that is down there is the one its
Press had, through both halves of `view_port_map_input`. `GuiAssumption` and
`DispatcherAssumption` say that the home port is an ordinary one, that Long and
Repeat are other types than Press and Release, and that the mapping of keys of a
rotated port is injective, as `view_port_map_input` is.

**Desktop.** Everything rests on `LockInv`: types, and the shape of the scene
stack. While locked there is exactly one Locked scene, above it one of the six
stacks of `Over` (the keypad, the wait, a boot report), below it no scene of the
lock (`LockedAt`); while unlocked there is none at all, and the six places that
say so agree. The shape is what makes the agreement inductive: a handler goes
back to a scene it searches for in the stack, so what it uncovers matters.

* Handshake: each of the loader's two events is queued at most once, and the end
  of an application before the start of the next (`LoaderEvents`); the start is
  queued exactly while the loader waits without a token (`HandshakeInv`).
* RecentMatchesHistory is stated by a function from the lines of the list to
  launches (`Latest`), not by filtering and reversing the history, which would
  be an induction over it. `RecentInv` adds that a queued launch has its name in
  pending_app_name and that the first line is the last handled launch: that is
  what the comparison in `desktop_recent_apps_push` relies on. It needs the
  handshake, without which a second launch could overwrite the name.
* AutoLockArmed is inductive with `LockInv`. Hypothesis: no USB session holds the
  auto-lock off (`UsbInhibits`), since an event that meets one is consumed.
* AnimationInStep: until an animation is started over a stalled one the manager
  keeps to one pair of flags that follows app_running (`AnimInv`); interaction,
  dummy mode and settings are in, and only the two steps that set `anim.forced`
  leave it.
* LockedViewReady: what leaves the home screen was pressed there and what unlocks
  on the lock screen, so while locked no unlocking event is ahead of one of the
  home screen and while unlocked none is behind one (`HintInv`); the label is
  then never up when a lock is handled. An unlock request of the API can be
  queued anywhere: when it is handled with a press of the home screen behind it,
  `view.remote` says so, and otherwise the order is kept.
* PenaltyServed: a wrong PIN a wait is owed for and whose event is still queued
  finds the keypad, after it there is the wait with its timer running
  (`PenaltyInv`). It rests on what may be queued ahead of the failure: no PinBack,
  whether of a key or of the no-activity timer, and no exit event of an earlier
  wait that is not followed by the failure.

Three properties of the desktop and the two on keys name, as exceptions, the
defects of section 5; no input of the code is left out of the theorems for them.
AutoLockAlwaysArmed has its hypothesis because the setting behind it is meant to
hold auto-lock off.

Model-checked only:

* the liveness properties (*CallsReturn*, *HoldEnds*, *EndIsReported*,
  *LoaderReleased*, *PenaltyEnds*, *KeysSettle*, *CloseEnds*): fairness is out of
  the prover's reach;
* the two violations, which are counterexamples.

## 7. Not modelled

Drawing, texts, logging and icons; the time in milliseconds, except for the
order of timers named above; the 3 s limit of the semaphore is not counted, it
passes when the desktop is stopped in a call of the loader; contents of .fap
files (a load succeeds or fails); which animation is chosen; the PIN itself (an
entry is right or wrong); the status bar's layers and the sizes of view ports;
keys injected over RPC (`view_port_map_input` does not swap them) and the
vertical orientations; the turn of the canvas with the hand orientation, which
is not part of what *ScreenUpToDate* compares; `buffer_is_empty_callback` of an
RPC session, which only Bluetooth sets;
the encoding of RPC messages and the commands of its other subsystems; a second
run of an event loop, and its semaphores, mutexes and stream buffers, which
differ from queues only in their contract. Components left out altogether are
listed with the reason in `PROJECT.json`: hardware access, signal protocols,
vendored code and the applications, which are user interface around them.
Storage, power, expansion, Bluetooth and notification are state machines of
their own that the plan leaves for later.
