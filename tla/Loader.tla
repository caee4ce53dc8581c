------------------------------- MODULE Loader -------------------------------
(***************************************************************************)
(* The application loader service                                          *)
(* (firmware/applications/services/loader/loader.c): one thread that       *)
(* serves a message queue one entry deep, starts and reaps application     *)
(* threads, chains deferred launches, keeps the "loading" animation up     *)
(* while an application starts, and tells its subscribers when a session   *)
(* of applications begins and ends.                                        *)
(*                                                                         *)
(* The other actors are the clients of the loader API (desktop, CLI, RPC), *)
(* the application thread, the main menu thread, the Applications browser  *)
(* thread, the kernel's scrub thread that reports stopped threads, and the *)
(* periodic timer that polls the animation.                                *)
(***************************************************************************)
EXTENDS Integers, Sequences, FiniteSets

CONSTANTS
    Clients,          \* threads of other services that call the loader API
    MenuUsers,        \* the clients that open and style the main menu (desktop)
    Enqueuers,        \* the callers that use loader_enqueue_launch
    InternalApps,     \* applications linked into the firmware
    InsomniaSafeApps, \* the internal ones flagged InsomniaSafe
    FapApps,          \* names that resolve to a .fap file that exists
    MissingApps,      \* names that resolve to nothing
    ApplicationsName, \* LOADER_APPLICATIONS_NAME
    StartNames,       \* names given to loader_start and its variants
    EnqueueNames,     \* names given to loader_enqueue_launch
    ArgKinds,         \* kinds of argument strings the callers pass
    Styles,           \* menu style plugins
    LongStyles,       \* the ones whose name does not fit menu_style.name
    None,             \* NULL
    QueueDepth,       \* depth of loader->queue (1 in the code)
    LaunchQueueMax,   \* LOADER_QUEUE_MAX_SIZE
    HoldMax,          \* LOADER_LOADING_HOLD_MAX_MS in poll periods
    NullCancels       \* whether a caller tries loader_enqueue_launch(NULL)

AppNames == InternalApps \cup FapApps \cup MissingApps \cup {ApplicationsName}

Threads == {"app", "menu", "apps"}

Callers == Clients \cup Threads

ASSUME ClientsAssumption ==
    /\ Clients \cap Threads = {}
    /\ MenuUsers \subseteq Clients
    /\ Enqueuers \subseteq Clients \cup {"app"}

ASSUME NamesAssumption ==
    /\ InsomniaSafeApps \subseteq InternalApps
    /\ InternalApps \cap (FapApps \cup MissingApps \cup {ApplicationsName}) = {}
    /\ FapApps \cap (MissingApps \cup {ApplicationsName}) = {}
    /\ ApplicationsName \notin MissingApps
    /\ StartNames \subseteq AppNames
    /\ EnqueueNames \subseteq AppNames
    /\ None \notin AppNames \cup Styles \cup Callers
    /\ LongStyles \subseteq Styles
    /\ ArgKinds \subseteq {"none", "args", "rpc"}

ASSUME SizesAssumption ==
    /\ QueueDepth \in Nat \ {0}
    /\ LaunchQueueMax \in Nat \ {0}
    /\ HoldMax \in Nat \ {0}
    /\ NullCancels \in BOOLEAN

VARIABLES
    queue,       \* loader->queue
    callPc,      \* where each caller of the API is: idle, blocked in put, waiting
    callMsg,     \* the message a caller is blocked on putting
    holds,       \* clients that were told they hold the loader lock
    app,         \* loader->app
    thread,      \* states of the application, menu and browser threads
    scrubQueue,  \* furi_thread_scrub_message_queue
    scrubPc,     \* the scrub thread: idle or inside the application's callback
    launchQueue, \* loader->launch_queue
    loading,     \* loading_depth, loading_held, view, age of the hold
    pc,          \* the loader thread
    job,         \* the launch whose BeforeLoad event is being published
    insomnia,    \* furi_hal_power_insomnia entries made by the loader
    session,     \* what subscribers were last told: BeforeLoad opens a session,
                 \* NoMoreAppsInQueue closes it (app_running in desktop and power)
    style,       \* mapped menu style plugin, and the one the menu draws with
    browser      \* Applications browser: subscription, stop flag, waiting

vars == <<queue, callPc, callMsg, holds, app, thread, scrubQueue, scrubPc,
          launchQueue, loading, pc, job, insomnia, session, style, browser>>

callVars   == <<callPc, callMsg>>
scrubVars  == <<scrubQueue, scrubPc>>

-----------------------------------------------------------------------------
(* Messages                                                                *)

SyncTypes == {"StartByName", "Lock", "Query", "EnqueueLaunch", "ClearLaunchQueue"}

Args == {"none", "args", "rpc"}

LaunchRequest == [type : {"StartByName", "StartDetached", "EnqueueLaunch"},
                  from : Callers, name : AppNames, args : Args]

LockRequest == [type : {"Lock", "Unlock"},
                from : Clients, name : {None}, args : {"none"}]

PlainRequest == [type : {"Query", "ClearLaunchQueue"},
                 from : Callers, name : {None}, args : {"none"}]

MenuRequest == [type : {"ShowMenu", "SetMenuStyle"},
                from : Clients, name : Styles \cup {None}, args : {"none"}]

WindowReport == [type : {"MenuClosed", "ApplicationsClosed"},
                 from : {"menu", "apps"}, name : {None}, args : {"none"}]

KernelReport == [type : {"AppClosed", "LoadingCheck"},
                 from : {None}, name : {None}, args : {"none"}]

Message == LaunchRequest \cup LockRequest \cup PlainRequest \cup MenuRequest
           \cup WindowReport \cup KernelReport

Msg(t, c, n, a) == [type |-> t, from |-> c, name |-> n, args |-> a]

NoMsg == Msg("NoMsg", None, None, "none")

AppClosedMsg == Msg("AppClosed", None, None, "none")
LoadingCheckMsg == Msg("LoadingCheck", None, None, "none")

\* A record of the deferred queue.
DeferredLaunch == [type : {"Deferred"}, from : {None}, name : AppNames, args : Args]

\* A launch: a request served directly, or a record of the deferred queue.
Launch == [type : {"StartByName", "StartDetached"}, from : Callers,
           name : AppNames, args : Args] \cup DeferredLaunch

Deferred(n, a) == [type |-> "Deferred", from |-> None, name |-> n, args |-> a]

-----------------------------------------------------------------------------
Init ==
    /\ queue = <<>>
    /\ callPc = [c \in Callers |-> "idle"]
    /\ callMsg = [c \in Callers |-> NoMsg]
    /\ holds = {}
    /\ app = [thread |-> "NULL", args |-> FALSE, insomniac |-> FALSE,
              rpc |-> FALSE, fap |-> FALSE, path |-> "unset"]
    /\ thread = [t \in Threads |-> "none"]
    /\ scrubQueue = <<>>
    /\ scrubPc = "idle"
    /\ launchQueue = <<>>
    /\ loading = [depth |-> 0, held |-> FALSE, view |-> FALSE, age |-> 0]
    /\ pc = "idle"
    /\ job = None
    /\ insomnia = 0
    /\ session = "closed"
    /\ style = [mapped |-> None, menu |-> None]
    /\ browser = [sub |-> FALSE, flag |-> FALSE, waiting |-> FALSE]

\* furi_crash stops the whole device: no thread moves once a check failed.
Alive == pc # "crashed"

-----------------------------------------------------------------------------
(* The API side: a call first blocks until its message fits the queue,     *)
(* then, when synchronous, until the loader unlocks its api_lock.          *)

ClientMessages(c) ==
    {Msg(t, c, n, a) : t \in {"StartByName", "StartDetached"},
                       n \in StartNames, a \in ArgKinds}
    \cup {Msg("Query", c, None, "none")}
    \cup {Msg(t, c, None, "none") : t \in IF c \in holds THEN {"Unlock"} ELSE {"Lock"}}
    \cup (IF c \in MenuUsers
          THEN {Msg("ShowMenu", c, None, "none")}
               \cup {Msg("SetMenuStyle", c, s, "none") : s \in Styles \cup {None}}
          ELSE {})

EnqueueMessages(c) ==
    IF c \in Enqueuers
    THEN {Msg("EnqueueLaunch", c, n, a) : n \in EnqueueNames, a \in ArgKinds}
         \cup {Msg("ClearLaunchQueue", c, None, "none")}
    ELSE {}

\* The menu starts any application by name, the browser only files; each
\* ends by reporting that it closed.
ThreadMessages(t) ==
    CASE t = "app"  -> {Msg("Query", t, None, "none")}
      [] t = "menu" -> {Msg("StartByName", t, n, "none") : n \in StartNames}
                       \cup {Msg("MenuClosed", t, None, "none")}
      [] t = "apps" -> {Msg("StartByName", t, n, "none") : n \in FapApps}
                       \cup {Msg("ApplicationsClosed", t, None, "none")}

\* A caller makes its next API call.
Request(c, m) ==
    /\ Alive
    /\ callPc[c] = "idle"
    /\ c \in Threads => thread[c] = "running"
    /\ c = "apps" => ~browser.waiting
    /\ callPc' = [callPc EXCEPT ![c] = "put"]
    /\ callMsg' = [callMsg EXCEPT ![c] = m]
    /\ holds' = IF m.type = "Unlock" THEN holds \ {c} ELSE holds
    /\ browser' = IF c = "apps" /\ m.type = "StartByName"
                  THEN [browser EXCEPT !.sub = TRUE] ELSE browser
    /\ UNCHANGED <<queue, app, thread, scrubVars, launchQueue, loading, pc, job,
                   insomnia, session, style>>

\* loader_enqueue_launch(NULL): strdup(NULL) fails its furi_check.
EnqueueNull(c) ==
    /\ Alive
    /\ NullCancels
    /\ c \in Enqueuers
    /\ callPc[c] = "idle"
    /\ c \in Threads => thread[c] = "running"
    /\ pc' = "crashed"
    /\ UNCHANGED <<queue, callVars, holds, app, thread, scrubVars, launchQueue,
                   loading, job, insomnia, session, style, browser>>

\* Mutant: the call returns as soon as its message is in the queue.
PutNoWait(c) ==
    /\ Alive
    /\ callPc[c] = "put"
    /\ Len(queue) < QueueDepth
    /\ queue' = Append(queue, callMsg[c])
    /\ callPc' = [callPc EXCEPT ![c] = "idle"]
    /\ callMsg' = [callMsg EXCEPT ![c] = NoMsg]
    /\ UNCHANGED <<holds, app, thread, scrubVars, launchQueue, loading, pc, job,
                   insomnia, session, style, browser>>

\* furi_message_queue_put(loader->queue, .., FuriWaitForever) completes.
Put(c) ==
    /\ Alive
    /\ callPc[c] = "put"
    /\ Len(queue) < QueueDepth
    /\ queue' = Append(queue, callMsg[c])
    /\ callPc' = [callPc EXCEPT ![c] =
                    IF callMsg[c].type \in SyncTypes THEN "wait" ELSE "idle"]
    /\ callMsg' = [callMsg EXCEPT ![c] = NoMsg]
    /\ thread' = IF callMsg[c].type \in {"MenuClosed", "ApplicationsClosed"}
                 THEN [thread EXCEPT ![c] = "exiting"] ELSE thread
    /\ UNCHANGED <<holds, app, scrubVars, launchQueue, loading, pc, job,
                   insomnia, session, style, browser>>

\* The browser was woken by the NoMoreAppsInQueue event: it unsubscribes and
\* shows its file list again.
BrowserWake ==
    /\ Alive
    /\ browser.waiting
    /\ browser.flag
    /\ browser' = [sub |-> FALSE, flag |-> FALSE, waiting |-> FALSE]
    /\ UNCHANGED <<queue, callVars, holds, app, thread, scrubVars, launchQueue,
                   loading, pc, job, insomnia, session, style>>

-----------------------------------------------------------------------------
(* Threads that end, and the scrub thread that reports it.                 *)

\* furi_thread_body after the callback returned: Stopping, then the thread
\* hands itself to the scrub thread. An application may return at any time it
\* is not inside a loader call; the menu and the browser once they reported.
ThreadExit(t) ==
    /\ Alive
    /\ thread[t] = IF t = "app" THEN "running" ELSE "exiting"
    /\ callPc[t] = "idle"
    /\ thread' = [thread EXCEPT ![t] = "stopping"]
    /\ scrubQueue' = Append(scrubQueue, t)
    /\ UNCHANGED <<queue, callVars, holds, app, scrubPc, launchQueue, loading, pc,
                   job, insomnia, session, style, browser>>

\* furi_thread_scrub: the thread becomes Stopped; for the application the
\* state callback then puts AppClosed in the loader's queue and may block.
Scrub ==
    /\ Alive
    /\ scrubPc = "idle"
    /\ scrubQueue # <<>>
    /\ thread' = [thread EXCEPT ![Head(scrubQueue)] = "stopped"]
    /\ scrubPc' = IF Head(scrubQueue) = "app" THEN "callback" ELSE "idle"
    /\ scrubQueue' = Tail(scrubQueue)
    /\ UNCHANGED <<queue, callVars, holds, app, launchQueue, loading, pc, job,
                   insomnia, session, style, browser>>

\* Mutant: the report is dropped when the queue is full, as the timer's is.
ScrubPutNoWait ==
    /\ Alive
    /\ scrubPc = "callback"
    /\ queue' = IF Len(queue) < QueueDepth THEN Append(queue, AppClosedMsg) ELSE queue
    /\ scrubPc' = "idle"
    /\ UNCHANGED <<callVars, holds, app, thread, scrubQueue, launchQueue, loading,
                   pc, job, insomnia, session, style, browser>>

\* loader_thread_state_callback gets its message into the queue.
ScrubPut ==
    /\ Alive
    /\ scrubPc = "callback"
    /\ Len(queue) < QueueDepth
    /\ queue' = Append(queue, AppClosedMsg)
    /\ scrubPc' = "idle"
    /\ UNCHANGED <<callVars, holds, app, thread, scrubQueue, launchQueue, loading,
                   pc, job, insomnia, session, style, browser>>

\* loader_loading_timer_callback: one poll period passed; the poll is dropped
\* when the queue is full.
TimerTick ==
    /\ Alive
    /\ loading.held
    /\ loading' = [loading EXCEPT !.age = IF @ < HoldMax THEN @ + 1 ELSE @]
    /\ queue' = IF Len(queue) < QueueDepth THEN Append(queue, LoadingCheckMsg) ELSE queue
    /\ UNCHANGED <<callVars, holds, app, thread, scrubVars, launchQueue, pc, job,
                   insomnia, session, style, browser>>

-----------------------------------------------------------------------------
(* The loader thread. It takes one message at a time; a handler runs to    *)
(* its end except where it blocks on another thread: in the BeforeLoad     *)
(* event (the desktop answers it) and in furi_thread_join.                 *)

Take(t) ==
    /\ pc = "idle"
    /\ queue # <<>>
    /\ Head(queue).type \in t
    /\ queue' = Tail(queue)

\* Mutant: the handler forgets api_lock_unlock.
UnblockForgotten(c) == UNCHANGED callPc

\* api_lock_unlock of a synchronous request.
Unblock(c) == callPc' = [callPc EXCEPT ![c] = "idle"]

\* loader_is_application_running
IsAppRunning == app.thread = "APP"

\* Everything a launch brackets is taken down: the view goes unless the hold
\* keeps it for the application that just started (loader_do_hide_loading).
HideLoading(held) == [depth |-> 0, held |-> held, view |-> held, age |-> 0]

\* Mutant: the hold ends but the view stays up.
DropLoadingKeepsView == [loading EXCEPT !.held = FALSE, !.age = 0]

\* loader_do_drop_loading
DropLoading ==
    IF loading.held
    THEN [depth |-> loading.depth, held |-> FALSE, view |-> loading.depth > 0, age |-> 0]
    ELSE loading

\* loader_do_show_loading
ShowLoading(l) == [depth |-> l.depth + 1, held |-> l.held, view |-> TRUE, age |-> l.age]

\* The answer to a direct launch. The browser goes on to wait for the end of
\* the session when its launch succeeded, else it unsubscribes.
AnswerLaunch(j, ok, b) ==
    /\ callPc' = IF j.type = "StartByName" THEN [callPc EXCEPT ![j.from] = "idle"]
                 ELSE callPc
    /\ browser' = IF j.from # "apps" THEN b
                  ELSE IF ok THEN [b EXCEPT !.waiting = TRUE]
                  ELSE [sub |-> FALSE, flag |-> FALSE, waiting |-> FALSE]

\* Mutant: the event is sent whether or not the loader is locked.
EmitQueueEmptyAlways(th) == "closed"

\* loader_do_emit_queue_empty_event: what the subscribers believe after it,
\* given loader->app.thread at that point. It is silent on a locked loader.
EmitQueueEmpty(th) == IF th = "NULL" THEN "closed" ELSE session

\* Mutant: the browser is not told.
BrowserNotifiedNever(th) == browser

\* The browser's stop flag after the same event.
BrowserNotified(th) == [browser EXCEPT !.flag = @ \/ (browser.sub /\ th = "NULL")]

\* loader_do_start_by_name on a locked loader, whether by an application or by
\* a client: the request fails.
StartRejected ==
    /\ Take({"StartByName", "StartDetached"})
    /\ app.thread # "NULL"
    /\ session' = EmitQueueEmpty(app.thread)
    /\ AnswerLaunch(Head(queue), FALSE, BrowserNotified(app.thread))
    /\ UNCHANGED <<callMsg, holds, app, thread, scrubVars, launchQueue, loading, pc,
                   job, insomnia, style>>

\* loader_do_applications_show
ApplicationsShown(th) ==
    IF th["apps"] = "none" THEN [th EXCEPT !["apps"] = "running"] ELSE th

\* The name of the browser itself: shown without any event.
StartApplications ==
    /\ Take({"StartByName", "StartDetached"})
    /\ app.thread = "NULL"
    /\ Head(queue).name = ApplicationsName
    /\ thread' = ApplicationsShown(thread)
    /\ app' = [app EXCEPT !.path = "set"]
    /\ AnswerLaunch(Head(queue), TRUE, browser)
    /\ UNCHANGED <<callMsg, holds, scrubVars, launchQueue, loading, pc, job,
                   insomnia, session, style>>

\* BeforeLoad goes out; its subscribers hold the loader until they are done.
PublishBeforeLoad(j) ==
    /\ pc' = "before_load"
    /\ job' = j
    /\ session' = "open"

StartByName ==
    /\ Take({"StartByName", "StartDetached"})
    /\ app.thread = "NULL"
    /\ Head(queue).name # ApplicationsName
    /\ PublishBeforeLoad(Head(queue))
    /\ UNCHANGED <<callVars, holds, app, thread, scrubVars, launchQueue, loading,
                   insomnia, style, browser>>

\* Mutant: the record stays in the queue.
QueuePopKeeps == launchQueue

\* loader_queue_pop
QueuePop == Tail(launchQueue)

\* loader_do_next_deferred_launch_if_available with a record to pop. A deferred
\* launch brackets the launches it chains, so the depth grows by one.
LaunchNextDeferred(l, a, th) ==
    /\ launchQueue # <<>>
    /\ launchQueue' = QueuePop
    /\ \/ /\ Head(launchQueue).name # ApplicationsName
          /\ PublishBeforeLoad(Head(launchQueue))
          /\ loading' = ShowLoading(l)
          /\ app' = a
          /\ thread' = th
       \/ /\ Head(launchQueue).name = ApplicationsName
          /\ thread' = ApplicationsShown(th)
          /\ app' = [a EXCEPT !.path = "set"]
          /\ loading' = HideLoading(FALSE)
          /\ pc' = "idle"
          /\ job' = None
          /\ UNCHANGED session

\* The launch finds its application: an internal one, or a .fap that loads
\* (at once, or after the user accepts an API mismatch). The thread starts and
\* every bracket of the launch closes; the last one turns into a hold unless
\* the application serves a remote session or the timer did not start.
AppStarts ==
    /\ pc = "before_load"
    /\ job.name \in InternalApps \cup FapApps
    /\ app' = [thread    |-> "APP",
               args      |-> job.name \in InternalApps /\ job.args # "none",
               insomniac |-> job.name \notin InsomniaSafeApps,
               rpc       |-> job.args = "rpc",
               fap       |-> job.name \in FapApps,
               path      |-> "set"]
    /\ thread' = [thread EXCEPT !["app"] = "running"]
    /\ insomnia' = IF job.name \in InsomniaSafeApps THEN insomnia ELSE insomnia + 1
    /\ \E timerStarted \in BOOLEAN :
         loading' = HideLoading(job.args # "rpc" /\ timerStarted)
    /\ AnswerLaunch(job, TRUE, browser)
    /\ pc' = "idle"
    /\ job' = None
    /\ UNCHANGED <<queue, callMsg, holds, scrubVars, launchQueue, session, style>>

\* Mutant: a failed deferred launch gives up on the ones behind it.
LaunchIsLastAlways == TRUE

\* Whether a failed launch has nothing to go on with: only a deferred launch
\* tries the next record.
LaunchIsLast == job.type # "Deferred" \/ launchQueue = <<>>

\* No such application, or a .fap that does not load. A direct launch reports
\* the end of the session and answers; a deferred one goes on with the next.
LaunchFails ==
    /\ pc = "before_load"
    /\ job.name \notin InternalApps
    /\ LaunchIsLast
    /\ session' = EmitQueueEmpty(app.thread)
    /\ loading' = IF job.type # "Deferred" /\ job.name \in MissingApps
                  THEN loading ELSE HideLoading(FALSE)
    /\ app' = [app EXCEPT !.rpc = (job.args = "rpc")]
    /\ AnswerLaunch(job, FALSE, BrowserNotified(app.thread))
    /\ pc' = "idle"
    /\ job' = None
    /\ UNCHANGED <<queue, callMsg, holds, thread, scrubVars, launchQueue, insomnia,
                   style>>

DeferredLaunchFails ==
    /\ pc = "before_load"
    /\ job.name \notin InternalApps
    /\ ~LaunchIsLast
    /\ LaunchNextDeferred(loading, [app EXCEPT !.rpc = (job.args = "rpc")], thread)
    /\ UNCHANGED <<queue, callVars, holds, scrubVars, insomnia, style, browser>>

\* Mutants: the arguments, or the thread, are not reset.
ClosedAppKeepsArgs == [app EXCEPT !.thread = "NULL", !.fap = FALSE, !.path = "freed"]

ClosedAppKeepsThread == [app EXCEPT !.args = FALSE, !.fap = FALSE, !.path = "freed"]

\* loader_do_app_closed up to the launch queue: the hold is dropped, the thread
\* joined (it is Stopped before its callback runs) and everything freed.
ClosedApp ==
    [thread |-> "NULL", args |-> FALSE, insomniac |-> app.insomniac,
     rpc |-> app.rpc, fap |-> FALSE, path |-> "freed"]

ReapApp ==
    /\ Take({"AppClosed"})
    /\ insomnia' = IF app.insomniac THEN insomnia - 1 ELSE insomnia

\* ... with nothing to launch next: the session ends.
AppClosedLast ==
    /\ ReapApp
    /\ launchQueue = <<>>
    /\ app' = ClosedApp
    /\ thread' = [thread EXCEPT !["app"] = "none"]
    /\ loading' = DropLoading
    /\ session' = EmitQueueEmpty("NULL")
    /\ browser' = BrowserNotified("NULL")
    /\ UNCHANGED <<callVars, holds, scrubVars, launchQueue, pc, job, style>>

\* ... with a deferred launch pending: it starts in the same handler.
AppClosedNext ==
    /\ ReapApp
    /\ LaunchNextDeferred(DropLoading, ClosedApp, [thread EXCEPT !["app"] = "none"])
    /\ UNCHANGED <<callVars, holds, scrubVars, style, browser>>

\* Mutant: a second client can take the lock.
LockFreeUnlessApp == app.thread # "APP"

\* loader_do_lock succeeds only on an unlocked loader.
LockFree == app.thread = "NULL"

\* loader_do_lock; the answer tells the client whether it holds the lock.
Lock ==
    /\ Take({"Lock"})
    /\ Unblock(Head(queue).from)
    /\ IF LockFree
       THEN /\ app' = [app EXCEPT !.thread = "MAGIC"]
            /\ holds' = holds \cup {Head(queue).from}
       ELSE UNCHANGED <<app, holds>>
    /\ UNCHANGED <<callMsg, thread, scrubVars, launchQueue, loading, pc, job,
                   insomnia, session, style, browser>>

\* loader_do_unlock; LockExclusive below is why its furi_check holds.
Unlock ==
    /\ Take({"Unlock"})
    /\ app' = [app EXCEPT !.thread = "NULL"]
    /\ UNCHANGED <<callVars, holds, thread, scrubVars, launchQueue, loading, pc, job,
                   insomnia, session, style, browser>>

\* IsLocked, Signal, GetApplicationName, GetApplicationLaunchPath: they read
\* the application record and answer.
Query ==
    /\ Take({"Query"})
    /\ Unblock(Head(queue).from)
    /\ UNCHANGED <<callMsg, holds, app, thread, scrubVars, launchQueue, loading, pc,
                   job, insomnia, session, style, browser>>

\* Mutant: one record too many is accepted.
LaunchQueueFullLate == Len(launchQueue) > LaunchQueueMax

\* loader_queue_push refuses a record.
LaunchQueueFull == Len(launchQueue) >= LaunchQueueMax

\* LoaderMessageTypeEnqueueLaunch: furi_check(loader_queue_push(..)).
EnqueueLaunch ==
    /\ Take({"EnqueueLaunch"})
    /\ ~LaunchQueueFull
    /\ launchQueue' = Append(launchQueue, Deferred(Head(queue).name, Head(queue).args))
    /\ Unblock(Head(queue).from)
    /\ UNCHANGED <<callMsg, holds, app, thread, scrubVars, loading, pc, job,
                   insomnia, session, style, browser>>

EnqueueOverflow ==
    /\ Take({"EnqueueLaunch"})
    /\ LaunchQueueFull
    /\ pc' = "crashed"
    /\ UNCHANGED <<callVars, holds, app, thread, scrubVars, launchQueue, loading, job,
                   insomnia, session, style, browser>>

ClearLaunchQueue ==
    /\ Take({"ClearLaunchQueue"})
    /\ launchQueue' = <<>>
    /\ Unblock(Head(queue).from)
    /\ UNCHANGED <<callMsg, holds, app, thread, scrubVars, loading, pc, job,
                   insomnia, session, style, browser>>

\* loader_do_menu_show: a menu that has not been freed yet is left alone.
ShowMenu ==
    /\ Take({"ShowMenu"})
    /\ IF thread["menu"] = "none"
       THEN /\ thread' = [thread EXCEPT !["menu"] = "running"]
            /\ style' = [style EXCEPT !.menu = style.mapped]
       ELSE UNCHANGED <<thread, style>>
    /\ UNCHANGED <<callVars, holds, app, scrubVars, launchQueue, loading, pc, job,
                   insomnia, session, browser>>

\* Mutant: an open menu keeps the old style.
MenuStyleAfterStale(s) == style.menu

\* The style the menu draws with once style s is published to it.
MenuStyleAfter(s) == IF thread["menu"] = "none" THEN style.menu ELSE s

\* loader_do_set_menu_style: the plugin of the style asked for is mapped, or
\* fails to; the menu lets go of the old one before that is unmapped. One step:
\* menu_set_style returns with the model's lock released, the menu draws under
\* it, and while both plugins are mapped it may draw with either.
SetMenuStyle ==
    /\ Take({"SetMenuStyle"})
    /\ LET name == Head(queue).name IN
       IF name = style.mapped \/ name \in LongStyles
       THEN UNCHANGED style
       ELSE \E s \in {name, None} :
              style' = [mapped |-> s, menu |-> MenuStyleAfter(s)]
    /\ UNCHANGED <<callVars, holds, app, thread, scrubVars, launchQueue, loading, pc,
                   job, insomnia, session, browser>>

\* loader_do_menu_closed and loader_do_applications_closed: the loader polls
\* in furi_thread_join until the scrub thread has seen the thread.
WindowClosed ==
    /\ Take({"MenuClosed", "ApplicationsClosed"})
    /\ pc' = IF Head(queue).type = "MenuClosed" THEN "join_menu" ELSE "join_apps"
    /\ UNCHANGED <<callVars, holds, app, thread, scrubVars, launchQueue, loading, job,
                   insomnia, session, style, browser>>

JoinMenu ==
    /\ pc = "join_menu"
    /\ thread["menu"] = "stopped"
    /\ thread' = [thread EXCEPT !["menu"] = "none"]
    /\ style' = [style EXCEPT !.menu = None]
    /\ pc' = "idle"
    /\ UNCHANGED <<queue, callVars, holds, app, scrubVars, launchQueue, loading, job,
                   insomnia, session, browser>>

JoinApplications ==
    /\ pc = "join_apps"
    /\ thread["apps"] = "stopped"
    /\ thread' = [thread EXCEPT !["apps"] = "none"]
    /\ pc' = "idle"
    /\ UNCHANGED <<queue, callVars, holds, app, scrubVars, launchQueue, loading, job,
                   insomnia, session, style, browser>>

\* Mutant: the cap is missed by one period.
HoldExpiredLate == loading.age > HoldMax

\* The cap on a hold has passed.
HoldExpired == loading.age >= HoldMax

\* loader_do_check_loading: the hold ends once the application has drawn or
\* the cap has passed.
LoadingCheck ==
    /\ Take({"LoadingCheck"})
    /\ \E drawn \in BOOLEAN :
         loading' = IF drawn \/ HoldExpired THEN DropLoading ELSE loading
    /\ UNCHANGED <<callVars, holds, app, thread, scrubVars, launchQueue, pc, job,
                   insomnia, session, style, browser>>

\* A crashed device stays crashed.
Halted == ~Alive /\ UNCHANGED vars

-----------------------------------------------------------------------------
LoaderStep ==
    \/ StartRejected \/ StartApplications \/ StartByName
    \/ AppStarts \/ LaunchFails \/ DeferredLaunchFails
    \/ AppClosedLast \/ AppClosedNext
    \/ Lock \/ Unlock \/ Query
    \/ EnqueueLaunch \/ EnqueueOverflow \/ ClearLaunchQueue
    \/ ShowMenu \/ SetMenuStyle \/ WindowClosed \/ JoinMenu \/ JoinApplications
    \/ LoadingCheck

ClientRequest ==
    \E c \in Clients : \E m \in ClientMessages(c) \cup EnqueueMessages(c) : Request(c, m)

ThreadRequest ==
    \E t \in Threads : \E m \in ThreadMessages(t) \cup EnqueueMessages(t) : Request(t, m)

UserStep ==
    \/ ClientRequest
    \/ ThreadRequest
    \/ \E c \in Callers : EnqueueNull(c)

SystemStep ==
    \/ LoaderStep
    \/ \E c \in Callers : Put(c)
    \/ \E t \in Threads : ThreadExit(t)
    \/ Scrub \/ ScrubPut \/ TimerTick \/ BrowserWake

Next == UserStep \/ SystemStep \/ Halted

Spec == Init /\ [][Next]_vars

\* The kernel schedules every ready thread in the end: the loader, a caller
\* whose message fits, a window that is closing, the scrub and timer threads.
\* Users and applications may stop at any time.
Fairness ==
    /\ WF_vars(LoaderStep)
    /\ \A c \in Callers : WF_vars(Put(c))
    /\ \A t \in {"menu", "apps"} : WF_vars(ThreadExit(t))
    /\ WF_vars(Scrub)
    /\ WF_vars(ScrubPut)
    /\ WF_vars(TimerTick)
    /\ WF_vars(BrowserWake)

FairSpec == Spec /\ Fairness

-----------------------------------------------------------------------------
(* Properties                                                              *)

QueueOK ==
    queue \in Seq(Message) /\ Len(queue) <= QueueDepth

CallsOK ==
    /\ callPc \in [Callers -> {"idle", "put", "wait"}]
    /\ callMsg \in [Callers -> Message \cup {NoMsg}]
    /\ \A c \in Callers : callPc[c] = "put" => callMsg[c] \in Message
    /\ holds \subseteq Clients

AppRecord == [thread : {"NULL", "MAGIC", "APP"}, args : BOOLEAN, insomniac : BOOLEAN,
              rpc : BOOLEAN, fap : BOOLEAN, path : {"unset", "set", "freed"}]

AppOK ==
    app \in AppRecord

ThreadStates == [Threads -> {"none", "running", "exiting", "stopping", "stopped"}]

ThreadsOK ==
    /\ thread \in ThreadStates
    /\ scrubQueue \in Seq(Threads)
    /\ scrubPc \in {"idle", "callback"}

LaunchOK ==
    /\ launchQueue \in Seq(DeferredLaunch) /\ Len(launchQueue) <= LaunchQueueMax
    /\ pc \in {"idle", "before_load", "join_menu", "join_apps", "crashed"}
    /\ job \in Launch \cup {None}
    /\ pc = "before_load" => job \in Launch

LoadingRecord == [depth : Nat, held : BOOLEAN, view : BOOLEAN, age : 0 .. HoldMax]

LoadingOK ==
    loading \in LoadingRecord

SessionOK ==
    insomnia \in Int /\ session \in {"open", "closed"}

BrowserRecord == [sub : BOOLEAN, flag : BOOLEAN, waiting : BOOLEAN]

WindowsOK ==
    /\ style \in [mapped : Styles \cup {None}, menu : Styles \cup {None}]
    /\ browser \in BrowserRecord

\* Every variable stays in its type: the queue within its depth, the launch
\* queue within LOADER_QUEUE_MAX_SIZE, and a launch is under way while its
\* event is published.
TypeOK ==
    /\ QueueOK /\ CallsOK /\ AppOK /\ ThreadsOK
    /\ LaunchOK /\ LoadingOK /\ SessionOK /\ WindowsOK

\* A message of type t is in the loader's queue; there are not two of them.
Queued(t) == \E i \in 1 .. Len(queue) : queue[i].type = t

QueuedOnce(t) ==
    \A i, j \in 1 .. Len(queue) : queue[i].type = t /\ queue[j].type = t => i = j

\* The application thread is in the hands of the scrub thread.
AppInScrubQueue == \E i \in 1 .. Len(scrubQueue) : scrubQueue[i] = "app"

AppInScrubQueueOnce ==
    \A i, j \in 1 .. Len(scrubQueue) : scrubQueue[i] = "app" /\ scrubQueue[j] = "app" => i = j

\* The end of an application is reported exactly once: while loader->app.thread
\* is an application it is running, in the scrub queue, being reported by the
\* scrub thread, or reported in the loader's queue, and only one of these; no
\* report exists when no application is recorded. The assert in
\* loader_do_app_closed and the join there that must not block rest on it.
ClosedOnce ==
    /\ IsAppRunning <=> thread["app"] # "none"
    /\ thread["app"] # "exiting"
    /\ AppInScrubQueue <=> thread["app"] = "stopping"
    /\ AppInScrubQueueOnce
    /\ thread["app"] = "stopped" <=> scrubPc = "callback" \/ Queued("AppClosed")
    /\ scrubPc = "callback" => ~Queued("AppClosed")
    /\ QueuedOnce("AppClosed")

\* What the application owns lives exactly as long as it is recorded: no
\* argument string, .fap image or insomnia entry is left without
\* an application (the assert in loader_start_internal_app), and the launch
\* path that GetApplicationLaunchPath copies is neither unset nor freed.
ResourcesMatchApp ==
    IF IsAppRunning
    THEN /\ app.path = "set"
         /\ insomnia = IF app.insomniac THEN 1 ELSE 0
    ELSE ~app.args /\ ~app.fap /\ insomnia = 0

\* The animation is on screen exactly while a launch bracket or a hold keeps
\* it there; between messages every bracket is closed, and a hold belongs to a
\* running application that is not a remote session. This is the "a live hold
\* implies a running app" of loader_do_show_loading.
LoadingAccounted ==
    /\ loading.view <=> loading.depth > 0 \/ loading.held
    /\ pc \in {"idle", "join_menu", "join_apps"} => loading.depth = 0
    /\ loading.held => IsAppRunning /\ ~app.rpc

\* The brackets of a chain of deferred launches are bounded by the launch
\* queue, so the furi_check on loading_depth in loader_do_show_loading holds.
DepthBounded ==
    loading.depth + Len(launchQueue) <= LaunchQueueMax

\* The lock has one owner: the loader is locked by a client exactly while one
\* client holds the lock or has its unlock under way, so the furi_check in
\* loader_do_unlock holds and no application runs under a held lock.
Unlocking == {c \in Callers : callPc[c] = "put" /\ callMsg[c].type = "Unlock"}

LockExclusive ==
    /\ app.thread = "MAGIC" <=> holds # {} \/ Unlocking # {} \/ Queued("Unlock")
    /\ \A c, d \in holds : c = d
    /\ \A c, d \in Unlocking : c = d
    /\ QueuedOnce("Unlock")
    /\ holds = {} \/ Unlocking = {}
    /\ Queued("Unlock") => holds = {} /\ Unlocking = {}

\* A synchronous request carries an api_lock on its caller's stack: while the
\* request is queued, or its launch is under way, that caller is still blocked
\* on it and has no second request, so the loader never unlocks a frame that
\* was left.
ReplyAwaited ==
    /\ \A i \in 1 .. Len(queue) :
         queue[i].type \in SyncTypes => callPc[queue[i].from] = "wait"
    /\ \A i, j \in 1 .. Len(queue) :
         queue[i].type \in SyncTypes /\ queue[j].type \in SyncTypes
           /\ queue[i].from = queue[j].from => i = j
    /\ pc = "before_load" /\ job.type = "StartByName" =>
         /\ callPc[job.from] = "wait"
         /\ \A i \in 1 .. Len(queue) :
              queue[i].type \in SyncTypes => queue[i].from # job.from

\* A blocked caller puts a message of its own, never a kernel report; a direct
\* launch is announced under no bracket.
OwnMessages ==
    \A c \in Callers :
       callPc[c] = "put" =>
          callMsg[c].from = c /\ callMsg[c].type \notin {"AppClosed", "LoadingCheck"}

DirectUnbracketed ==
    pc = "before_load" /\ job.type # "Deferred" => loading.depth = 0

\* While a launch is being announced nothing holds the loader, and its
\* subscribers have a session open.
LaunchBracketed ==
    pc = "before_load" => app.thread = "NULL" /\ session = "open"

\* Between messages the subscribers of the loader (desktop, power) believe an
\* application is running exactly when one is: every BeforeLoad is matched by
\* one NoMoreAppsInQueue, through failed launches and deferred chains.
SubscribersInStep ==
    pc \in {"idle", "join_menu", "join_apps"} => (session = "open" <=> IsAppRunning)

\* The menu never draws with a style whose plugin has been unmapped, in any
\* order of ShowMenu, SetMenuStyle and MenuClosed.
MenuStyleMapped ==
    style.menu \in {None, style.mapped}

\* The Applications browser never waits for a wake-up that was already spent:
\* while it waits without its stop flag, an application is running or being
\* launched and the browser is subscribed to the event that ends the session.
NoLostWakeup ==
    browser.waiting /\ ~browser.flag =>
       browser.sub /\ (IsAppRunning \/ pc = "before_load")

\* NoMoreAppsInQueue means what its name says: the session is declared over
\* only with no launch left in the queue.
NoMoreAppsMeansNone ==
    [][session = "open" /\ session' = "closed" => launchQueue' = <<>>]_vars

\* thread.c on furi_thread_join: a caller is stuck there only while another
\* thread uses all the processor time. With every ready thread scheduled, the
\* loader comes back from joining the menu or the browser.
JoinReturns ==
    pc \in {"join_menu", "join_apps"} ~> pc = "idle"

\* Every call of the loader API returns, however the messages of the callers,
\* the scrub thread and the timer interleave in the one-entry queue.
CallsReturn ==
    \A c \in Callers : callPc[c] # "idle" ~> callPc[c] = "idle"

\* The animation of a hold is taken down even when the application never
\* draws and polls are dropped because the queue is full.
HoldEnds ==
    loading.held ~> ~loading.held

\* An application that ended is reaped and its subscribers hear of it: the
\* session ends, the next application is launched, or the chain ends in the
\* Applications browser, which loader_do_next_deferred_launch_if_available
\* counts as a launch.
EndIsReported ==
    thread["app"] = "stopping" ~>
       session = "closed" \/ pc = "before_load" \/ thread["apps"] # "none"
=============================================================================
