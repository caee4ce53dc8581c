------------------------------ MODULE EventLoop ------------------------------
(***************************************************************************)
(* The kernel's event loop (firmware/furi/core/event_loop.c,               *)
(* event_loop_timer.c, event_loop_tick.c): one thread runs the loop and    *)
(* all its callbacks; other threads put messages into queues it watches,   *)
(* set its thread flags and ask it to stop. What it is told arrives as a   *)
(* set of flags that a wait takes whole and the branches handle one at a   *)
(* time. One life of a loop: set up, run, stopped, freed.                  *)
(***************************************************************************)
EXTENDS Naturals, Sequences, FiniteSets, FiniteSetsExt

CONSTANTS
    Object,       \* the queues a loop may watch for incoming messages
    Edge,         \* the ones it watches with FuriEventLoopEventFlagEdge
    Once,         \* the ones it watches with FuriEventLoopEventFlagOnce
    Timer,        \* the loop's timers
    Periodic,     \* the periodic ones
    Intervals,    \* intervals timers are started with
    TickInterval, \* interval of the tick callback, 0 when none is set
    MaxLate,      \* bound: ticks a callback may take past an expiry
    MaxLevel,     \* bound: capacity of a queue
    MaxOps,       \* bound: calls of the API by the loop's own thread
    MaxTold       \* bound: messages and thread flags from other threads

ASSUME EventLoopAssumption ==
    /\ Edge \subseteq Object /\ Once \subseteq Object /\ Periodic \subseteq Timer
    /\ Intervals \subseteq Nat \ {0}
    /\ {TickInterval, MaxLate, MaxLevel, MaxOps, MaxTold} \subseteq Nat

VARIABLES
    level,      \* messages in each queue
    telling,    \* queues whose sender has yet to notify the loop's item
    flags,      \* notification value of the loop's thread
    got,        \* flags of the current iteration that go back after the branch
    pc,         \* what the loop's thread is in
    subscribed, \* objects with an item in the tree, linked from the object
    waiting,    \* waiting_list
    current,    \* current_item: its object, and whether it is still owned
    timer,      \* the timers: alive, active, request, interval, time elapsed
    timerList,  \* timer_list: active timers, earliest expiry first
    timerQueue, \* timer_queue: timers with a request
    firing,     \* the timer whose callback runs
    pending,    \* callbacks in pending_queue
    hears,      \* are_thread_flags_subscribed
    unheard,    \* a thread flag was set and its callback has not run since
    sinceTick,  \* ticks since tick.prev_time
    ops, told   \* counters of the bounds

vars == <<level, telling, flags, got, pc, subscribed, waiting, current, timer,
          timerList, timerQueue, firing, pending, hears, unheard, sinceTick, ops, told>>

queueVars == <<level, telling>>
itemVars  == <<subscribed, waiting, current>>
timerVars == <<timer, timerList, timerQueue, firing>>
flagVars  == <<hears, unheard>>

None == [object |-> "none", owned |-> FALSE]

NoTimer == "none"

Callback == {"event", "pending", "threadflag", "expired", "tick"}

Init ==
    /\ level = [o \in Object |-> 0] /\ telling = {}
    /\ flags = {} /\ got = {} /\ pc = "setup"
    /\ subscribed = {} /\ waiting = <<>> /\ current = None
    /\ timer = [t \in Timer |-> [alive |-> TRUE, active |-> FALSE, request |-> "none",
                                 next |-> 0, interval |-> 0, elapsed |-> 0]]
    /\ timerList = <<>> /\ timerQueue = <<>> /\ firing = NoTimer
    /\ pending = 0 /\ hears = FALSE /\ unheard = FALSE /\ sinceTick = 0
    /\ ops = 0 /\ told = 0

-----------------------------------------------------------------------------
(* Items                                                                   *)

IsWaiting(o) == \E i \in 1 .. Len(waiting) : waiting[i] = o

\* furi_event_loop_item_notify on the item of o: the list, then the flag.
Notified(o, list) == IF \E i \in 1 .. Len(list) : list[i] = o THEN list ELSE Append(list, o)

\* A list without the node x, which is in it at most once.
Unlinked(s, x) ==
    IF \E i \in 1 .. Len(s) : s[i] = x
    THEN LET p == CHOOSE i \in 1 .. Len(s) : s[i] = x
         IN  SubSeq(s, 1, p - 1) \o SubSeq(s, p + 1, Len(s))
    ELSE s

-----------------------------------------------------------------------------
(* Other threads                                                           *)

\* furi_message_queue_put, first half: the message is in the queue.
Send(o) ==
    /\ told < MaxTold /\ level[o] < MaxLevel /\ o \notin telling
    /\ level' = [level EXCEPT ![o] = @ + 1]
    /\ telling' = telling \cup {o}
    /\ told' = told + 1
    /\ UNCHANGED <<flags, got, pc, itemVars, timerVars, pending, flagVars, sinceTick, ops>>

\* Second half: furi_event_loop_link_notify.
LinkNotify(o) ==
    /\ o \in telling
    /\ telling' = telling \ {o}
    /\ IF o \in subscribed
       THEN waiting' = Notified(o, waiting) /\ flags' = flags \cup {"Event"}
       ELSE UNCHANGED <<waiting, flags>>
    /\ UNCHANGED <<level, got, pc, subscribed, current, timerVars, pending, flagVars,
                   sinceTick, ops, told>>

\* furi_thread_flags_set on the loop's thread.
SetThreadFlag ==
    /\ told < MaxTold
    /\ flags' = flags \cup {"ThreadFlag"}
    /\ unheard' = hears
    /\ told' = told + 1
    /\ UNCHANGED <<queueVars, got, pc, itemVars, timerVars, pending, hears, sinceTick, ops>>

\* furi_event_loop_stop, from the signal callback in another thread.
StopSignal ==
    /\ pc \notin {"stopped", "freed", "crashed"}
    /\ flags' = flags \cup {"Stop"}
    /\ UNCHANGED <<queueVars, got, pc, itemVars, timerVars, pending, flagVars, sinceTick,
                   ops, told>>

\* A tick of the clock passes, in the wait or in a callback: what the loop
\* does between them takes no time.
Elapse ==
    /\ pc \in Callback \cup {"wait"}
    /\ \A t \in Timer : timer[t].active => timer[t].elapsed < timer[t].interval + MaxLate
    /\ TickInterval > 0 => sinceTick < TickInterval + MaxLate
    /\ timer' = [t \in Timer |-> IF timer[t].active
                                 THEN [timer[t] EXCEPT !.elapsed = @ + 1] ELSE timer[t]]
    /\ sinceTick' = IF TickInterval > 0  THEN sinceTick + 1 ELSE 0
    /\ timer' # timer \/ sinceTick' # sinceTick
    /\ UNCHANGED <<queueVars, flags, got, pc, itemVars, timerList, timerQueue, firing,
                   pending, flagVars, ops, told>>

-----------------------------------------------------------------------------
(* The API, called by the loop's thread: before the run, from a callback,  *)
(* and after the run.                                                      *)

Call == pc \in Callback \cup {"setup"} /\ ops < MaxOps /\ ops' = ops + 1

\* Calls that also take the loop apart once it has stopped.
CallOrTeardown == Call \/ (pc = "stopped" /\ UNCHANGED ops)

\* furi_event_loop_object_subscribe: a level that is up already notifies.
Subscribe(o) ==
    /\ Call \/ (pc = "setup" /\ UNCHANGED ops)
    /\ o \notin subscribed
    /\ subscribed' = subscribed \cup {o}
    /\ IF o \notin Edge /\ level[o] > 0
       THEN waiting' = Notified(o, waiting) /\ flags' = flags \cup {"Event"}
       ELSE UNCHANGED <<waiting, flags>>
    /\ UNCHANGED <<queueVars, got, pc, current, timerVars, pending, flagVars, sinceTick, told>>

\* Mutant: an item that waits is freed where it is.
UnlinkKept(o) == waiting

\* The waiting list without the item of o.
Unlink(o) == Unlinked(waiting, o)

\* furi_event_loop_unsubscribe: the current item is freed later.
Unsubscribe(o) ==
    /\ CallOrTeardown /\ o \in subscribed
    /\ subscribed' = subscribed \ {o}
    /\ waiting' = Unlink(o)
    /\ current' = IF current.object = o THEN [current EXCEPT !.owned = FALSE] ELSE current
    /\ UNCHANGED <<queueVars, flags, got, pc, timerVars, pending, flagVars, sinceTick, told>>

\* furi_event_loop_timer_enqueue_request
Enqueue(t, request, interval) ==
    /\ timer[t].alive /\ timer[t].request # "free"
    /\ timer' = [timer EXCEPT ![t].request = request, ![t].next = interval]
    /\ timerQueue' = Append(Unlinked(timerQueue, t), t)
    /\ flags' = flags \cup {"Timer"}
    /\ UNCHANGED <<queueVars, got, pc, itemVars, timerList, firing, pending, flagVars,
                   sinceTick, told>>

TimerStart(t) == Call /\ \E i \in Intervals : Enqueue(t, "start", i)

TimerRestart(t) ==
    Call /\ timer[t].interval > 0 /\ Enqueue(t, "start", timer[t].interval)

TimerStop(t) == Call /\ Enqueue(t, "stop", timer[t].next)

TimerFree(t) == CallOrTeardown /\ Enqueue(t, "free", timer[t].next)

\* furi_event_loop_pend_callback
PendCallback ==
    /\ Call
    /\ pending' = pending + 1
    /\ flags' = flags \cup {"Pending"}
    /\ UNCHANGED <<queueVars, got, pc, itemVars, timerVars, flagVars, sinceTick, told>>

\* furi_event_loop_subscribe_thread_flags and its counterpart
HearThreadFlags(h) ==
    /\ CallOrTeardown /\ (pc = "stopped" => ~h)
    /\ hears # h
    /\ hears' = h /\ unheard' = FALSE
    /\ UNCHANGED <<queueVars, flags, got, pc, itemVars, timerVars, pending, sinceTick, told>>

\* furi_event_loop_stop, from a callback.
Stop ==
    /\ Call /\ pc # "setup"
    /\ flags' = flags \cup {"Stop"}
    /\ UNCHANGED <<queueVars, got, pc, itemVars, timerVars, pending, flagVars, sinceTick, told>>

Api ==
    \/ \E o \in Object : Subscribe(o) \/ Unsubscribe(o)
    \/ \E t \in Timer : TimerStart(t) \/ TimerRestart(t) \/ TimerStop(t) \/ TimerFree(t)
    \/ PendCallback \/ Stop
    \/ \E h \in BOOLEAN : HearThreadFlags(h)

-----------------------------------------------------------------------------
(* furi_event_loop_run                                                     *)

Run ==
    /\ pc = "setup"
    /\ pc' = "wait"
    /\ UNCHANGED <<queueVars, flags, got, itemVars, timerVars, pending, flagVars,
                   sinceTick, ops, told>>

\* The wait returns with the flags: all are taken.
Woken(f) ==
    /\ pc = "wait" /\ f \in flags
    /\ f # "Stop" => "Stop" \notin flags

LoopStops ==
    /\ Woken("Stop")
    /\ pc' = "stopped" /\ flags' = {}
    /\ UNCHANGED <<queueVars, got, itemVars, timerVars, pending, flagVars, sinceTick,
                   ops, told>>

\* Mutants: the flags of the other branches are dropped; a waiting item is
\* left to the next notification.
RestoredNever == {}

SyncedNever(list) == {}

\* furi_event_loop_restore_flags
Restored == got

\* furi_event_loop_sync_flags
Synced(list) == IF list # <<>> THEN {"Event"} ELSE {}

\* furi_event_loop_process_waiting_list up to the callback. A level that is
\* down needs none.
TakeEvent ==
    /\ Woken("Event")
    /\ waiting # <<>> => Head(waiting) \notin Once
    /\ IF waiting = <<>> \/ (Head(waiting) \notin Edge /\ level[Head(waiting)] = 0)
       THEN /\ waiting' = IF waiting = <<>> THEN <<>> ELSE Tail(waiting)
            /\ flags' = (flags \ {"Event"}) \cup Synced(waiting')
            /\ UNCHANGED <<got, pc, current>>
       ELSE /\ waiting' = Tail(waiting)
            /\ current' = [object |-> Head(waiting), owned |-> TRUE]
            /\ got' = flags \ {"Event"} /\ flags' = {}
            /\ pc' = "event"
    /\ UNCHANGED <<queueVars, subscribed, timerVars, pending, flagVars, sinceTick, ops, told>>

\* An item subscribed Once is unsubscribed before it becomes the current one,
\* so it is freed, and the heap zeroes what is freed: the contract read from
\* it is NULL.
TakeOnce ==
    /\ Woken("Event")
    /\ waiting # <<>> /\ Head(waiting) \in Once
    /\ pc' = "crashed"
    /\ UNCHANGED <<queueVars, flags, got, itemVars, timerVars, pending, flagVars,
                   sinceTick, ops, told>>

\* The callback gets a message from its queue.
GetMessage ==
    /\ pc = "event" /\ level[current.object] > 0
    /\ level' = [level EXCEPT ![current.object] = @ - 1]
    /\ pc' = "done"
    /\ UNCHANGED <<telling, flags, got, itemVars, timerVars, pending, flagVars, sinceTick,
                   ops, told>>

\* Mutant: a level still up counts as complete.
IncompleteNever(o) == FALSE

\* A level that is still up after the callback.
Incomplete(o) == o \notin Edge /\ level[o] > 0

\* The rest of furi_event_loop_process_waiting_list, and the flags go back. An
\* edge callback may leave the message where it is.
EventDone ==
    /\ pc = "done" \/ (pc = "event" /\ current.object \in Edge)
    /\ waiting' = IF current.owned /\ Incomplete(current.object)
                  THEN Notified(current.object, waiting) ELSE waiting
    /\ flags' = flags \cup Synced(waiting') \cup Restored
    /\ current' = None /\ got' = {} /\ pc' = "wait"
    /\ UNCHANGED <<queueVars, subscribed, timerVars, pending, flagVars, sinceTick, ops, told>>

Remaining(r) == IF r.elapsed < r.interval THEN r.interval - r.elapsed ELSE 0

\* Mutant: a new timer goes in front of the others.
PlaceInFront(list, tm, t) == 0

\* How many timers of the list stay in front of t.
Place(list, tm, t) ==
    LET earlier == {i \in 1 .. Len(list) : Remaining(tm[t]) >= Remaining(tm[list[i]])}
    IN  IF earlier = {} THEN 0 ELSE Max(earlier)

\* furi_event_loop_schedule_timer
Scheduled(list, tm, t) ==
    LET p == Place(list, tm, t)
    IN  SubSeq(list, 1, p) \o <<t>> \o SubSeq(list, p + 1, Len(list))

TakeTimers ==
    /\ Woken("Timer") /\ "Event" \notin flags
    /\ got' = flags \ {"Timer"} /\ flags' = {}
    /\ pc' = "timers"
    /\ UNCHANGED <<queueVars, itemVars, timerVars, pending, flagVars, sinceTick, ops, told>>

\* furi_event_loop_process_timer_queue, one request: what it leaves in the timer.
Answered(tm) ==
    [tm EXCEPT !.active = (tm.request = "start"), !.alive = (tm.request # "free"),
               !.request = "none", !.elapsed = 0,
               !.interval = IF tm.request = "start" THEN tm.next ELSE @]

Served(t) ==
    LET list == Unlinked(timerList, t)
        tms == [timer EXCEPT ![t] = Answered(@)]
    IN  /\ timer' = tms
        /\ timerList' = IF timer[t].request = "start" THEN Scheduled(list, tms, t) ELSE list
        /\ timerQueue' = Tail(timerQueue)

ServeTimerRequest ==
    /\ pc = "timers" /\ timerQueue # <<>>
    /\ Served(Head(timerQueue))
    /\ UNCHANGED <<queueVars, flags, got, pc, itemVars, firing, pending, flagVars,
                   sinceTick, ops, told>>

TimersDone ==
    /\ pc = "timers" /\ timerQueue = <<>>
    /\ flags' = flags \cup Restored
    /\ got' = {} /\ pc' = "wait"
    /\ UNCHANGED <<queueVars, itemVars, timerVars, pending, flagVars, sinceTick, ops, told>>

\* The pending branch drops the other flags it took.
TakePending ==
    /\ Woken("Pending") /\ flags \cap {"Event", "Timer"} = {}
    /\ flags' = {}
    /\ pc' = IF pending > 0 THEN "pending" ELSE "wait"
    /\ UNCHANGED <<queueVars, got, itemVars, timerVars, pending, flagVars, sinceTick, ops, told>>

\* A pending callback returns; the next one runs.
PendingDone ==
    /\ pc = "pending"
    /\ pending' = pending - 1
    /\ pc' = IF pending > 1 THEN "pending" ELSE "wait"
    /\ UNCHANGED <<queueVars, flags, got, itemVars, timerVars, flagVars, sinceTick, ops, told>>

TakeThreadFlag ==
    /\ Woken("ThreadFlag") /\ flags = {"ThreadFlag"}
    /\ flags' = {}
    /\ pc' = IF hears THEN "threadflag" ELSE "wait"
    /\ unheard' = FALSE
    /\ UNCHANGED <<queueVars, got, itemVars, timerVars, pending, hears, sinceTick, ops, told>>

FrontExpired == timerList # <<>> /\ Remaining(timer[Head(timerList)]) = 0

TickExpired == TickInterval > 0 /\ sinceTick >= TickInterval

\* The wait times out: the first timer of the list has expired.
\* furi_event_loop_process_expired_timers up to the callback.
TimerExpires ==
    /\ pc = "wait" /\ flags = {} /\ FrontExpired
    /\ LET t == Head(timerList)
           tm == [timer EXCEPT ![t].elapsed = @ % timer[t].interval]
       IN  IF t \in Periodic
           THEN timer' = tm /\ timerList' = Scheduled(Tail(timerList), tm, t)
           ELSE timer' = [timer EXCEPT ![t].active = FALSE] /\ timerList' = Tail(timerList)
    /\ pc' = "expired" /\ firing' = Head(timerList)
    /\ UNCHANGED <<queueVars, flags, got, itemVars, timerQueue, pending, flagVars,
                   sinceTick, ops, told>>

\* ... or no timer has, and the tick is due: furi_event_loop_process_tick.
Tick ==
    /\ pc = "wait" /\ flags = {} /\ ~FrontExpired /\ TickExpired
    /\ sinceTick' = sinceTick - TickInterval
    /\ pc' = "tick"
    /\ UNCHANGED <<queueVars, flags, got, itemVars, timerVars, pending, flagVars, ops, told>>

\* A callback that leaves no flags to restore returns.
CallbackDone ==
    /\ pc \in {"threadflag", "expired", "tick"}
    /\ pc' = "wait" /\ firing' = NoTimer
    /\ UNCHANGED <<queueVars, flags, got, itemVars, timer, timerList, timerQueue, pending,
                   flagVars, sinceTick, ops, told>>

\* furi_event_loop_free, by a thread that unsubscribed and freed its timers:
\* the requests are served first.
ServeAtFree ==
    /\ pc = "stopped" /\ timerQueue # <<>>
    /\ subscribed = {} /\ ~hears
    /\ \A t \in Timer : timer[t].alive => timer[t].request = "free"
    /\ Served(Head(timerQueue))
    /\ UNCHANGED <<queueVars, flags, got, pc, itemVars, firing, pending, flagVars,
                   sinceTick, ops, told>>

Free ==
    /\ pc = "stopped" /\ timerQueue = <<>>
    /\ subscribed = {} /\ ~hears
    /\ \A t \in Timer : ~timer[t].alive
    /\ pc' = "freed" /\ flags' = {} /\ pending' = 0
    /\ UNCHANGED <<queueVars, got, itemVars, timerVars, flagVars, sinceTick, ops, told>>

-----------------------------------------------------------------------------
Loop ==
    \/ Run \/ LoopStops \/ TakeEvent \/ TakeOnce \/ GetMessage \/ EventDone
    \/ TakeTimers \/ ServeTimerRequest \/ TimersDone
    \/ TakePending \/ PendingDone \/ TakeThreadFlag
    \/ TimerExpires \/ Tick \/ CallbackDone \/ ServeAtFree \/ Free

Others ==
    \/ \E o \in Object : Send(o) \/ LinkNotify(o)
    \/ SetThreadFlag \/ StopSignal \/ Elapse

Next == Loop \/ Api \/ Others

\* The loop's thread is scheduled, callbacks return, senders finish their
\* call and time passes.
Spec ==
    /\ Init /\ [][Next]_vars
    /\ WF_vars(Loop) /\ WF_vars(Elapse)
    /\ \A o \in Object : WF_vars(LinkNotify(o))

-----------------------------------------------------------------------------
(* Properties                                                              *)

Over == pc \in {"stopped", "freed", "crashed"}

\* The loop never sleeps on work: whenever it is about to wait, a waiting
\* item, a timer request or a pending callback has its flag set, though the
\* wait took all flags at once and the branches put back what they left.
NoSleepOnWork ==
    pc = "wait" =>
       /\ waiting # <<>> => "Event" \in flags
       /\ timerQueue # <<>> => "Timer" \in flags
       /\ pending > 0 => "Pending" \in flags

\* event_loop_timer.c:50: the front of the list is the first timer to expire,
\* and the list holds the active timers once each, whatever was started,
\* restarted, stopped and late in between.
FrontIsEarliest ==
    /\ \A t \in Timer :
         (timer[t].alive /\ timer[t].active) <=> \E i \in 1 .. Len(timerList) : timerList[i] = t
    /\ \A i, j \in 1 .. Len(timerList) :
         i < j => /\ timerList[i] # timerList[j]
                  /\ Remaining(timer[timerList[i]]) =< Remaining(timer[timerList[j]])

\* The checks of furi_event_loop_free and the assertions on items hold: a
\* loop freed after its user unsubscribed and freed the timers has nothing
\* in its lists, and what waits is subscribed.
ListsAlive ==
    /\ \A i \in 1 .. Len(waiting) : waiting[i] \in subscribed
    /\ pc = "freed" => waiting = <<>> /\ timerList = <<>>

\* event_loop_timer.h: "Stop a timer without firing its callback". A timer
\* whose stop or free has been requested does not fire, even when it expired
\* before the request.
StopMeansStop ==
    [][pc = "wait" /\ pc' = "expired" =>
         timer[Head(timerList)].request = "none"]_vars

\* event_loop.h on level events: "the event will be generated repeatedly until
\* the level becomes zero". A watched queue that is not empty, whose sender is
\* done and whose callback is not running, waits for its callback, however it
\* was subscribed, notified and left half empty before.
LevelWaits ==
    \A o \in subscribed \ (Edge \cup telling) :
       level[o] > 0 /\ current.object # o => IsWaiting(o)

\* event_loop.h on furi_event_loop_subscribe_thread_flags: "The callback to
\* call when a flag has been set". A thread flag set while the loop listens
\* reaches the callback.
ThreadFlagHeard ==
    unheard ~> ~unheard \/ Over
=============================================================================
