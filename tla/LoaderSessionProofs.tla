------------------------ MODULE LoaderSessionProofs ------------------------
(* What the loader tells its subscribers, the launch queue behind it, the     *)
(* resources of an application, the menu's style and the browser's wake-up,   *)
(* proved on top of the invariants of LoaderSafetyProofs.                     *)
EXTENDS LoaderSafetyProofs

\* The callers of the firmware enqueue applications, never the browser
\* (nfc_app.c:548): a deferred launch of the browser starts nothing.
BrowserNotEnqueued == ApplicationsName \notin EnqueueNames

\* Only applications call loader_enqueue_launch (nfc_app.c:548).
OnlyAppsEnqueue == Enqueuers \subseteq {"app"}

\* A menu that was freed draws with no style.
MenuFreed == thread["menu"] = "none" => style.menu = None

\* Names on their way to the launch queue, and in it.
EnqueuedNamed ==
    /\ \A c \in Callers : callPc[c] = "put" /\ callMsg[c].type = "EnqueueLaunch"
          => callMsg[c].name \in EnqueueNames
    /\ \A i \in 1 .. Len(queue) : queue[i].type = "EnqueueLaunch"
          => queue[i].name \in EnqueueNames
    /\ \A i \in 1 .. Len(launchQueue) : launchQueue[i].name \in EnqueueNames

\* What the browser sends: a launch of a file, which it waits for, or its end.
FromBrowser(m) ==
    \/ m.type = "StartByName" /\ m.name \in FapApps
    \/ m.type = "ApplicationsClosed"

BrowserCalls ==
    /\ callPc["apps"] = "put" => FromBrowser(callMsg["apps"])
    /\ \A i \in 1 .. Len(queue) : queue[i].from = "apps" => FromBrowser(queue[i])
    /\ pc = "before_load" /\ job.from = "apps" => job.type = "StartByName"

\* The browser subscribes before it asks and stays subscribed until it is
\* answered; it waits for the end of a session only between its calls.
BrowserSubscribed ==
    /\ browser.waiting => callPc["apps"] = "idle"
    /\ callPc["apps"] = "wait" => browser.sub
    /\ callPc["apps"] = "put" /\ callMsg["apps"].type = "StartByName" => browser.sub

\* An application inside a loader call is running, and so is one that has
\* launches behind it, or the next of them is being announced.
AppCalls == callPc["app"] # "idle" => thread["app"] = "running"

EnqueuedByApps ==
    /\ \A c \in Callers : callPc[c] = "put" /\ callMsg[c].type = "EnqueueLaunch" => c = "app"
    /\ \A i \in 1 .. Len(queue) : queue[i].type = "EnqueueLaunch" => queue[i].from = "app"

ChainAlive ==
    launchQueue # <<>> =>
       IsAppRunning \/ pc = "crashed" \/ (pc = "before_load" /\ job.type = "Deferred")

\* The inductive invariants: of an application's resources and the menu; of
\* the sessions, when nobody enqueues the browser; and of the launch queue and
\* the browser's wait, when besides only applications enqueue.
ResourceInv == LoaderInv /\ ResourcesMatchApp /\ MenuStyleMapped /\ MenuFreed

SessionInv == LoaderInv /\ EnqueuedNamed /\ SubscribersInStep

ChainInv ==
    /\ SessionInv /\ AppCalls /\ EnqueuedByApps /\ ChainAlive
    /\ BrowserCalls /\ BrowserSubscribed /\ NoLostWakeup

-----------------------------------------------------------------------------
(* Resources and the menu.                                                   *)

\* The steps that leave the record, its insomnia entry, the session and the
\* browser alone.
QuietStep ==
    \/ Query \/ EnqueueLaunch \/ EnqueueOverflow \/ ClearLaunchQueue
    \/ ShowMenu \/ SetMenuStyle \/ WindowClosed \/ JoinMenu \/ JoinApplications
    \/ LoadingCheck \/ Scrub \/ ScrubPut \/ TimerTick
    \/ \E c \in Callers : EnqueueNull(c) \/ Put(c)
    \/ \E t \in Threads : ThreadExit(t)

RecordStep ==
    \/ StartRejected \/ StartApplications \/ StartByName
    \/ AppStarts \/ LaunchFails \/ DeferredLaunchFails
    \/ AppClosedLast \/ AppClosedNext \/ Lock \/ Unlock

RequestStep == ClientRequest \/ ThreadRequest

LEMMA StepKinds ==
  ASSUME [Next]_vars
  PROVE  QuietStep \/ RecordStep \/ RequestStep \/ BrowserWake \/ UNCHANGED vars
  BY DEF Next, UserStep, SystemStep, LoaderStep, Halted, QuietStep, RecordStep, RequestStep

LEMMA QuietFrame ==
  ASSUME QuietStep
  PROVE  UNCHANGED <<app, insomnia, session, browser, holds>>
<1> USE DEF callVars, scrubVars
<1>1. CASE Query \/ EnqueueLaunch \/ EnqueueOverflow \/ ClearLaunchQueue
  BY <1>1 DEF Query, EnqueueLaunch, EnqueueOverflow, ClearLaunchQueue
<1>2. CASE ShowMenu \/ SetMenuStyle \/ WindowClosed \/ JoinMenu \/ JoinApplications
  BY <1>2 DEF ShowMenu, SetMenuStyle, WindowClosed, JoinMenu, JoinApplications
<1>3. CASE LoadingCheck \/ Scrub \/ ScrubPut \/ TimerTick
  BY <1>3 DEF LoadingCheck, Scrub, ScrubPut, TimerTick
<1>4. CASE \E c \in Callers : EnqueueNull(c) \/ Put(c)
  BY <1>4 DEF EnqueueNull, Put
<1>5. CASE \E t \in Threads : ThreadExit(t)
  BY <1>5 DEF ThreadExit
<1> QED BY <1>1, <1>2, <1>3, <1>4, <1>5 DEF QuietStep

LEMMA RequestFrame ==
  ASSUME RequestStep
  PROVE  UNCHANGED <<queue, app, thread, scrubVars, launchQueue, loading, pc, job,
                     insomnia, session, style>>
  BY DEF RequestStep, ClientRequest, ThreadRequest, Request

\* What a launch that failed, or the next deferred one, does to the record.
LEMMA NoAppResources ==
  ASSUME app \in AppRecord, ~IsAppRunning, ResourcesMatchApp, insomnia' = insomnia,
         app'.thread # "APP", app'.args = app.args, app'.fap = app.fap
  PROVE  ResourcesMatchApp'
  BY DEF ResourcesMatchApp, IsAppRunning

LEMMA ResourcesKept ==
  ASSUME ResourceInv, [Next]_vars
  PROVE  ResourcesMatchApp'
<1> USE DEF ResourceInv, LoaderInv, TypeOK
<1>0. /\ app \in AppRecord /\ insomnia \in Int
      /\ pc = "before_load" => app.thread = "NULL" /\ ~IsAppRunning
  BY DEF AppOK, SessionOK, LaunchBracketed, IsAppRunning
<1>1. CASE UNCHANGED <<app, insomnia>>
  BY <1>1 DEF ResourcesMatchApp, IsAppRunning
<1>2. CASE StartRejected \/ StartByName
  BY <1>1, <1>2 DEF StartRejected, StartByName
<1>3. CASE StartApplications
  <2>1. app.thread = "NULL" /\ app' = [app EXCEPT !.path = "set"] /\ insomnia' = insomnia
    BY <1>3 DEF StartApplications
  <2>2. app'.thread = app.thread /\ app'.args = app.args /\ app'.fap = app.fap
    BY <1>0, <2>1 DEF AppRecord
  <2> QED BY <1>0, <2>1, <2>2, NoAppResources DEF IsAppRunning
<1>4. CASE AppStarts
  <2>1. ~IsAppRunning /\ insomnia = 0
    BY <1>0, <1>4 DEF AppStarts, ResourcesMatchApp
  <2>2. /\ app'.thread = "APP" /\ app'.path = "set"
        /\ app'.insomniac <=> job.name \notin InsomniaSafeApps
    BY <1>4 DEF AppStarts
  <2>3. insomnia' = IF job.name \in InsomniaSafeApps THEN 0 ELSE 1
    BY <1>4, <2>1 DEF AppStarts
  <2> QED BY <2>2, <2>3 DEF ResourcesMatchApp, IsAppRunning
<1>5. CASE LaunchFails
  <2>1. /\ ~IsAppRunning /\ app.thread = "NULL" /\ insomnia' = insomnia
        /\ \E b : app' = [app EXCEPT !.rpc = b]
    BY <1>0, <1>5 DEF LaunchFails
  <2>2. app'.thread = app.thread /\ app'.args = app.args /\ app'.fap = app.fap
    BY <1>0, <2>1 DEF AppRecord
  <2> QED BY <1>0, <2>1, <2>2, NoAppResources
<1>6. CASE DeferredLaunchFails
  <2>1. PICK b : b = (job.args = "rpc") OBVIOUS
  <2>2. /\ ~IsAppRunning /\ app.thread = "NULL" /\ insomnia' = insomnia
        /\ LaunchNextDeferred(loading, [app EXCEPT !.rpc = b], thread)
    BY <1>0, <1>6, <2>1 DEF DeferredLaunchFails
  <2>3. \/ app' = [app EXCEPT !.rpc = b]
        \/ app' = [[app EXCEPT !.rpc = b] EXCEPT !.path = "set"]
    BY <2>2 DEF LaunchNextDeferred
  <2>4. app'.thread = app.thread /\ app'.args = app.args /\ app'.fap = app.fap
    BY <1>0, <2>3 DEF AppRecord
  <2> QED BY <1>0, <2>2, <2>4, NoAppResources
<1>7. CASE AppClosedLast \/ AppClosedNext
  <2>1. ReapApp /\ Queued("AppClosed")
    BY <1>7, TakeTyped, TakeHas DEF AppClosedLast, AppClosedNext, ReapApp
  <2>2. IsAppRunning BY <2>1 DEF ClosedOnce
  <2>3. insomnia' = 0 BY <1>0, <2>1, <2>2 DEF ReapApp, ResourcesMatchApp
  <2>4. app' = ClosedApp \/ app' = [ClosedApp EXCEPT !.path = "set"]
    BY <1>7 DEF AppClosedLast, AppClosedNext, LaunchNextDeferred
  <2>5. app'.thread = "NULL" /\ app'.args = FALSE /\ app'.fap = FALSE
    BY <2>4 DEF ClosedApp
  <2> QED BY <2>3, <2>5 DEF ResourcesMatchApp, IsAppRunning
<1>8. CASE Lock \/ Unlock
  <2>1. ~IsAppRunning \/ UNCHANGED <<app, insomnia>>
    <3>1. CASE Lock BY <3>1 DEF Lock, LockFree, IsAppRunning
    <3>2. CASE Unlock
      <4>1. Queued("Unlock") BY <3>2, TakeTyped, TakeHas DEF Unlock
      <4> QED BY <4>1 DEF LockExclusive, IsAppRunning
    <3> QED BY <1>8, <3>1, <3>2
  <2>2. CASE ~IsAppRunning
    <3>1. /\ insomnia' = insomnia
          /\ UNCHANGED app \/ \E x \in {"NULL", "MAGIC"} : app' = [app EXCEPT !.thread = x]
      BY <1>8 DEF Lock, Unlock
    <3>2. app'.thread # "APP" /\ app'.args = app.args /\ app'.fap = app.fap
      BY <1>0, <2>2, <3>1 DEF AppRecord, IsAppRunning
    <3> QED BY <1>0, <2>2, <3>1, <3>2, NoAppResources
  <2> QED BY <1>1, <2>1, <2>2
<1>9. CASE QuietStep \/ RequestStep \/ BrowserWake \/ UNCHANGED vars
  BY <1>1, <1>9, QuietFrame, RequestFrame DEF BrowserWake, vars
<1> QED BY <1>2, <1>3, <1>4, <1>5, <1>6, <1>7, <1>8, <1>9, StepKinds DEF RecordStep

\* The menu's thread and style change in ShowMenu, SetMenuStyle and JoinMenu;
\* a menu that is not freed stays so in the other steps.
MenuQuiet ==
    UNCHANGED style /\ (thread'["menu"] = "none" => thread["menu"] = "none")

LEMMA DeferredMenu ==
  ASSUME NEW th \in ThreadStates, NEW l, NEW a, LaunchNextDeferred(l, a, th)
  PROVE  thread'["menu"] = th["menu"]
  BY DEF LaunchNextDeferred, ApplicationsShown, ThreadStates, Threads

LEMMA MenuQuietSteps ==
  ASSUME TypeOK, [Next]_vars, ~ShowMenu, ~SetMenuStyle, ~JoinMenu
  PROVE  MenuQuiet
<1> USE DEF TypeOK, MenuQuiet
<1>0. /\ thread \in ThreadStates /\ "menu" \in Threads /\ "app" \in Threads
      /\ "apps" \in Threads /\ scrubQueue \in Seq(Threads)
  BY DEF ThreadsOK, Threads
<1>1. CASE StartRejected \/ StartByName \/ LaunchFails \/ Lock \/ Unlock
  BY <1>1 DEF StartRejected, StartByName, LaunchFails, Lock, Unlock
<1>2. CASE StartApplications
  BY <1>0, <1>2 DEF StartApplications, ApplicationsShown, ThreadStates, Threads
<1>3. CASE AppStarts \/ AppClosedLast
  BY <1>0, <1>3 DEF AppStarts, AppClosedLast, ThreadStates
<1>4. CASE DeferredLaunchFails
  BY <1>0, <1>4, DeferredMenu DEF DeferredLaunchFails
<1>5. CASE AppClosedNext
  <2>1. PICK th : th = [thread EXCEPT !["app"] = "none"] OBVIOUS
  <2>2. th \in ThreadStates /\ th["menu"] = thread["menu"]
    BY <1>0, <2>1 DEF ThreadStates
  <2>3. LaunchNextDeferred(DropLoading, ClosedApp, th) /\ UNCHANGED style
    BY <1>5, <2>1 DEF AppClosedNext
  <2> QED BY <2>2, <2>3, DeferredMenu
<1>6. CASE Query \/ EnqueueLaunch \/ EnqueueOverflow \/ ClearLaunchQueue
  BY <1>6 DEF Query, EnqueueLaunch, EnqueueOverflow, ClearLaunchQueue
<1>7. CASE WindowClosed \/ LoadingCheck \/ ScrubPut \/ TimerTick
  BY <1>7 DEF WindowClosed, LoadingCheck, ScrubPut, TimerTick
<1>8. CASE JoinApplications
  BY <1>0, <1>8 DEF JoinApplications, ThreadStates
<1>9. CASE Scrub
  <2>1. Head(scrubQueue) \in Threads BY <1>0, <1>9 DEF Scrub
  <2> QED BY <1>0, <1>9, <2>1 DEF Scrub, ThreadStates
<1>10. CASE \E c \in Callers : EnqueueNull(c) \/ Put(c)
  BY <1>0, <1>10 DEF EnqueueNull, Put, ThreadStates
<1>11. CASE \E t \in Threads : ThreadExit(t)
  BY <1>0, <1>11 DEF ThreadExit, ThreadStates
<1>12. CASE RequestStep \/ BrowserWake \/ UNCHANGED vars
  BY <1>12, RequestFrame DEF BrowserWake, vars
<1> QED
  BY <1>1, <1>2, <1>3, <1>4, <1>5, <1>6, <1>7, <1>8, <1>9, <1>10, <1>11, <1>12, StepKinds
  DEF QuietStep, RecordStep

LEMMA MenuKept ==
  ASSUME ResourceInv, [Next]_vars
  PROVE  MenuStyleMapped' /\ MenuFreed'
<1> USE DEF ResourceInv, LoaderInv, TypeOK
<1>0. thread \in ThreadStates /\ "menu" \in Threads
      /\ style \in [mapped : Styles \cup {None}, menu : Styles \cup {None}]
  BY DEF ThreadsOK, WindowsOK, Threads
<1>1. CASE ShowMenu
  BY <1>0, <1>1 DEF ShowMenu, MenuStyleMapped, MenuFreed, ThreadStates
<1>2. CASE SetMenuStyle
  BY <1>0, <1>2 DEF SetMenuStyle, MenuStyleAfter, MenuStyleMapped, MenuFreed
<1>3. CASE JoinMenu
  BY <1>0, <1>3 DEF JoinMenu, MenuStyleMapped, MenuFreed
<1>4. CASE ~ShowMenu /\ ~SetMenuStyle /\ ~JoinMenu
  BY <1>4, MenuQuietSteps DEF MenuQuiet, MenuStyleMapped, MenuFreed
<1> QED BY <1>1, <1>2, <1>3, <1>4

LEMMA ResourceInvariant == Spec => []ResourceInv
<1>1. Init => ResourceInv
  BY InitSafe DEF Init, ResourceInv, ResourcesMatchApp, MenuStyleMapped, MenuFreed,
     IsAppRunning
<1>2. ResourceInv /\ [Next]_vars => ResourceInv'
  BY NextSafe, ResourcesKept, MenuKept DEF ResourceInv
<1> QED BY <1>1, <1>2, PTL DEF Spec

\* What an application owns is there exactly while it is recorded: the assert
\* in loader_start_internal_app holds, its launch path is readable and its
\* insomnia entry is taken back (loader_do_app_closed).
THEOREM LoaderResourcesMatchApp == Spec => []ResourcesMatchApp
<1>1. ResourceInv => ResourcesMatchApp BY DEF ResourceInv
<1> QED BY <1>1, ResourceInvariant, PTL

\* The menu never draws with a style that loader_do_set_menu_style unmapped.
THEOREM LoaderMenuStyleMapped == Spec => []MenuStyleMapped
<1>1. ResourceInv => MenuStyleMapped BY DEF ResourceInv
<1> QED BY <1>1, ResourceInvariant, PTL

-----------------------------------------------------------------------------
(* How messages, calls and launches move.                                    *)

\* A message a caller may send.
Asked(c, m) ==
    \/ c \in Clients /\ m \in ClientMessages(c)
    \/ c \in Threads /\ m \in ThreadMessages(c)
    \/ m \in EnqueueMessages(c)

\* A message in the queue was there before, or a blocked caller or the kernel
\* put it there.
LEMMA QueueMoves ==
  ASSUME LoaderInv, [Next]_vars, NEW i \in 1 .. Len(queue')
  PROVE  \/ \E j \in 1 .. Len(queue) : queue'[i] = queue[j]
         \/ \E c \in Callers : callPc[c] = "put" /\ queue'[i] = callMsg[c]
         \/ queue'[i] \in {AppClosedMsg, LoadingCheckMsg}
<1> USE DEF LoaderInv, TypeOK
<1>0. QueueOK /\ queue \in Seq(Message) /\ Len(queue) \in Nat BY DEF QueueOK
<1>1. CASE UNCHANGED queue BY <1>1
<1>2. CASE \E S : Take(S)
  <2> PICK S : Take(S) BY <1>2
  <2>1. /\ Len(queue') = Len(queue) - 1 /\ \A k \in 1 .. Len(queue') : queue'[k] = queue[k + 1]
    BY <1>0, TakeIndex
  <2> QED BY <1>0, <2>1
<1>3. CASE \E c \in Callers : Put(c)
  <2> PICK c \in Callers : Put(c) BY <1>3
  <2>1. callMsg[c] \in Message /\ callPc[c] = "put" /\ queue' = Append(queue, callMsg[c])
    BY DEF Put, CallsOK
  <2>2. PICK m \in Message : m = callMsg[c] BY <2>1
  <2>3. queue' = Append(queue, m) BY <2>1, <2>2
  <2>4. /\ Len(queue') = Len(queue) + 1 /\ queue'[Len(queue) + 1] = m
        /\ \A k \in 1 .. Len(queue) : queue'[k] = queue[k]
    BY <1>0, <2>3, AppendIndex
  <2> QED BY <1>0, <2>1, <2>2, <2>4
<1>4. CASE ScrubPut \/ TimerTick
  <2>1. PICK m \in {AppClosedMsg, LoadingCheckMsg} : UNCHANGED queue \/ queue' = Append(queue, m)
    BY <1>4 DEF ScrubPut, TimerTick
  <2>2. CASE queue' = Append(queue, m)
    <3>1. m \in Message BY KernelReportsTyped
    <3>2. /\ Len(queue') = Len(queue) + 1 /\ queue'[Len(queue) + 1] = m
          /\ \A k \in 1 .. Len(queue) : queue'[k] = queue[k]
      BY <1>0, <2>2, <3>1, AppendIndex
    <3> QED BY <1>0, <2>1, <3>2
  <2> QED BY <1>1, <2>1, <2>2
<1>5. CASE LoaderStep
  <2>1. UNCHANGED queue \/ \E S : Take(S)
    BY <1>5 DEF LoaderStep, StartRejected, StartApplications, StartByName, AppStarts, LaunchFails,
       DeferredLaunchFails, AppClosedLast, AppClosedNext, ReapApp, Lock, Unlock, Query,
       EnqueueLaunch, EnqueueOverflow, ClearLaunchQueue, ShowMenu, SetMenuStyle, WindowClosed,
       JoinMenu, JoinApplications, LoadingCheck
  <2> QED BY <1>1, <1>2, <2>1
<1>6. CASE (\E c \in Callers : EnqueueNull(c)) \/ (\E t \in Threads : ThreadExit(t)) \/ Scrub
           \/ BrowserWake \/ UNCHANGED vars
  BY <1>1, <1>6 DEF EnqueueNull, ThreadExit, Scrub, BrowserWake, vars
<1>7. CASE RequestStep BY <1>1, <1>7, RequestFrame
<1> QED
  BY <1>3, <1>4, <1>5, <1>6, <1>7 DEF Next, UserStep, SystemStep, RequestStep, Halted

\* A call of c stays where it is, ends, waits for its answer or begins.
CallMoves(c) ==
    \/ callPc'[c] = callPc[c] /\ callMsg'[c] = callMsg[c]
    \/ callPc[c] # "idle" /\ callPc'[c] = "idle"
    \/ callPc[c] = "put" /\ callPc'[c] = "wait" /\ callMsg[c].type \in SyncTypes
    \/ /\ callPc[c] = "idle" /\ callPc'[c] = "put"
       /\ \E m : Asked(c, m) /\ Request(c, m) /\ callMsg'[c] = m

LEMMA RequestMoves ==
  ASSUME LoaderInv, RequestStep, NEW c \in Callers
  PROVE  CallMoves(c)
<1>0. callPc \in [Callers -> {"idle", "put", "wait"}] /\ DOMAIN callMsg = Callers
  BY DEF LoaderInv, TypeOK, CallsOK
<1>a. PICK d \in Callers : \E m : Asked(d, m) /\ Request(d, m)
  BY DEF RequestStep, ClientRequest, ThreadRequest, Asked, Callers
<1>1. PICK m : Asked(d, m) /\ Request(d, m)
  BY <1>a
<1>2. /\ callPc[d] = "idle" /\ callPc' = [callPc EXCEPT ![d] = "put"]
      /\ callMsg' = [callMsg EXCEPT ![d] = m]
  BY <1>1 DEF Request
<1>3. CASE c = d
  <2>1. callPc'[c] = "put" /\ callMsg'[c] = m BY <1>0, <1>2, <1>3
  <2> QED BY <1>1, <1>2, <1>3, <2>1 DEF CallMoves
<1>4. CASE c # d BY <1>0, <1>2, <1>4 DEF CallMoves
<1> QED BY <1>3, <1>4

LEMMA AnswerMoves ==
  ASSUME LoaderInv, NEW c \in Callers, NEW d \in Callers, callPc[d] = "wait",
         callPc' = [callPc EXCEPT ![d] = "idle"], UNCHANGED callMsg
  PROVE  CallMoves(c)
  BY DEF LoaderInv, TypeOK, CallsOK, CallMoves

\* The loader answers a caller that waits, or nobody.
LEMMA LoaderAnswers ==
  ASSUME LoaderInv, LoaderStep
  PROVE  /\ UNCHANGED callMsg
         /\ \/ UNCHANGED callPc
            \/ \E d \in Callers : callPc[d] = "wait" /\ callPc' = [callPc EXCEPT ![d] = "idle"]
<1> USE DEF LoaderInv, TypeOK
<1>1. UNCHANGED callMsg
  BY DEF LoaderStep, StartRejected, StartApplications, StartByName, AppStarts, LaunchFails,
     DeferredLaunchFails, AppClosedLast, AppClosedNext, ReapApp, Lock, Unlock, Query,
     EnqueueLaunch, EnqueueOverflow, ClearLaunchQueue, ShowMenu, SetMenuStyle, WindowClosed,
     JoinMenu, JoinApplications, LoadingCheck, callVars
<1>2. ASSUME queue # <<>>, Head(queue) \in Message, Head(queue).type \in SyncTypes
      PROVE  Head(queue).from \in Callers /\ callPc[Head(queue).from] = "wait"
  <2>1. Head(queue).from \in Callers BY <1>2, MessageFields
  <2>2. Head(queue) = queue[1] /\ 1 \in 1 .. Len(queue) BY <1>2 DEF QueueOK
  <2> QED BY <1>2, <2>1, <2>2 DEF ReplyAwaited
<1>3. CASE Lock \/ Query \/ EnqueueLaunch \/ ClearLaunchQueue
  <2>1. PICK S : Take(S) /\ S \subseteq SyncTypes /\ Unblock(Head(queue).from)
    BY <1>3 DEF Lock, Query, EnqueueLaunch, ClearLaunchQueue, SyncTypes
  <2>2. queue # <<>> /\ Head(queue) \in Message /\ Head(queue).type \in SyncTypes
    BY <2>1, TakeTyped DEF Take
  <2> QED BY <1>1, <1>2, <2>1, <2>2 DEF Unblock
<1>4. CASE StartRejected \/ StartApplications
  <2>1. PICK ok, b : Take({"StartByName", "StartDetached"}) /\ AnswerLaunch(Head(queue), ok, b)
    BY <1>4 DEF StartRejected, StartApplications
  <2>2. queue # <<>> /\ Head(queue) \in Message BY <2>1, TakeTyped DEF Take
  <2> QED BY <1>1, <1>2, <2>1, <2>2 DEF AnswerLaunch, SyncTypes
<1>5. CASE AppStarts \/ LaunchFails
  <2>1. PICK ok, b : pc = "before_load" /\ AnswerLaunch(job, ok, b)
    BY <1>5 DEF AppStarts, LaunchFails
  <2>2. job.type = "StartByName" => job.from \in Callers /\ callPc[job.from] = "wait"
    BY <2>1 DEF ReplyAwaited, LaunchOK, Launch, DeferredLaunch
  <2> QED BY <1>1, <2>1, <2>2 DEF AnswerLaunch
<1>6. CASE StartByName \/ DeferredLaunchFails \/ AppClosedLast \/ AppClosedNext \/ Unlock
  BY <1>1, <1>6 DEF StartByName, DeferredLaunchFails, AppClosedLast, AppClosedNext, Unlock, callVars
<1>7. CASE EnqueueOverflow \/ ShowMenu \/ SetMenuStyle \/ WindowClosed \/ JoinMenu
           \/ JoinApplications \/ LoadingCheck
  BY <1>1, <1>7 DEF EnqueueOverflow, ShowMenu, SetMenuStyle, WindowClosed, JoinMenu,
     JoinApplications, LoadingCheck, callVars
<1> QED BY <1>3, <1>4, <1>5, <1>6, <1>7 DEF LoaderStep

LEMMA CallsMove ==
  ASSUME LoaderInv, [Next]_vars, NEW c \in Callers
  PROVE  CallMoves(c)
<1>0. callPc \in [Callers -> {"idle", "put", "wait"}] /\ DOMAIN callMsg = Callers
  BY DEF LoaderInv, TypeOK, CallsOK
<1>1. CASE UNCHANGED callVars BY <1>1 DEF callVars, CallMoves
<1>2. CASE RequestStep BY <1>2, RequestMoves
<1>3. CASE \E d \in Callers : Put(d)
  <2> PICK d \in Callers : Put(d) BY <1>3
  <2>1. /\ callPc[d] = "put" /\ callMsg' = [callMsg EXCEPT ![d] = NoMsg]
        /\ callPc' = [callPc EXCEPT ![d] = IF callMsg[d].type \in SyncTypes THEN "wait" ELSE "idle"]
    BY DEF Put
  <2> QED BY <1>0, <2>1 DEF CallMoves
<1>4. CASE LoaderStep
  BY <1>1, <1>4, LoaderAnswers, AnswerMoves DEF callVars
<1>5. CASE (\E d \in Callers : EnqueueNull(d)) \/ (\E t \in Threads : ThreadExit(t)) \/ Scrub
           \/ ScrubPut \/ TimerTick \/ BrowserWake \/ UNCHANGED vars
  BY <1>1, <1>5 DEF EnqueueNull, ThreadExit, Scrub, ScrubPut, TimerTick, BrowserWake, vars, callVars
<1> QED
  BY <1>2, <1>3, <1>4, <1>5 DEF Next, UserStep, SystemStep, RequestStep, Halted

-----------------------------------------------------------------------------
(* Sessions, when nobody enqueues the browser.                               *)

\* The launch queue loses its head, is cleared, or gets the name of the
\* request that is served.
LEMMA LaunchQueueMoves ==
  ASSUME LoaderInv, [Next]_vars, NEW i \in 1 .. Len(launchQueue')
  PROVE  \/ \E j \in 1 .. Len(launchQueue) : launchQueue'[i] = launchQueue[j]
         \/ /\ queue # <<>> /\ Head(queue).type = "EnqueueLaunch"
            /\ launchQueue'[i].name = Head(queue).name
<1> USE DEF LoaderInv, TypeOK
<1>0. launchQueue \in Seq(DeferredLaunch) /\ Len(launchQueue) \in Nat /\ QueueOK BY DEF LaunchOK
<1>1. CASE UNCHANGED launchQueue BY <1>1
<1>2. CASE AppClosedNext \/ DeferredLaunchFails
  <2>1. launchQueue # <<>> /\ launchQueue' = Tail(launchQueue)
    BY <1>2 DEF AppClosedNext, DeferredLaunchFails, LaunchNextDeferred, QueuePop
  <2>2. /\ Len(launchQueue') = Len(launchQueue) - 1
        /\ \A k \in 1 .. Len(launchQueue) - 1 : launchQueue'[k] = launchQueue[k + 1]
    BY <1>0, <2>1, TailIndex
  <2> QED BY <1>0, <2>2
<1>3. CASE ClearLaunchQueue
  <2>1. launchQueue' = <<>> BY <1>3 DEF ClearLaunchQueue
  <2> QED BY <2>1
<1>4. CASE EnqueueLaunch
  <2>1. /\ Take({"EnqueueLaunch"})
        /\ launchQueue' = Append(launchQueue, Deferred(Head(queue).name, Head(queue).args))
    BY <1>4 DEF EnqueueLaunch
  <2>2. queue # <<>> /\ Head(queue) \in Message /\ Head(queue).type = "EnqueueLaunch"
    BY <1>0, <2>1, TakeTyped DEF Take
  <2>3. PICK d : d = Deferred(Head(queue).name, Head(queue).args) OBVIOUS
  <2>4. d \in DeferredLaunch /\ d.name = Head(queue).name
    BY <2>2, <2>3, MessageFields DEF Deferred, DeferredLaunch
  <2>5. /\ Len(launchQueue') = Len(launchQueue) + 1 /\ launchQueue'[Len(launchQueue) + 1] = d
        /\ \A k \in 1 .. Len(launchQueue) : launchQueue'[k] = launchQueue[k]
    BY <1>0, <2>1, <2>3, <2>4, AppendIndex
  <2> QED BY <1>0, <2>2, <2>4, <2>5
<1>5. CASE StartRejected \/ StartApplications \/ StartByName \/ AppStarts \/ LaunchFails
           \/ AppClosedLast \/ Lock \/ Unlock
  BY <1>1, <1>5 DEF StartRejected, StartApplications, StartByName, AppStarts, LaunchFails,
     AppClosedLast, Lock, Unlock
<1>6. CASE Query \/ EnqueueOverflow \/ ShowMenu \/ SetMenuStyle \/ WindowClosed \/ JoinMenu
           \/ JoinApplications \/ LoadingCheck
  BY <1>1, <1>6 DEF Query, EnqueueOverflow, ShowMenu, SetMenuStyle, WindowClosed, JoinMenu,
     JoinApplications, LoadingCheck
<1>7. CASE (\E c \in Callers : EnqueueNull(c) \/ Put(c)) \/ (\E t \in Threads : ThreadExit(t))
           \/ Scrub \/ ScrubPut \/ TimerTick \/ BrowserWake \/ UNCHANGED vars
  BY <1>1, <1>7 DEF EnqueueNull, Put, ThreadExit, Scrub, ScrubPut, TimerTick, BrowserWake, vars
<1>8. CASE RequestStep BY <1>1, <1>8, RequestFrame
<1> QED BY <1>2, <1>3, <1>4, <1>5, <1>6, <1>7, <1>8, StepKinds DEF QuietStep, RecordStep

LEMMA AskedNamed ==
  ASSUME NEW c \in Callers, NEW m, Asked(c, m), m.type = "EnqueueLaunch"
  PROVE  m.name \in EnqueueNames /\ c \in Enqueuers
<1>1. CASE c \in Clients /\ m \in ClientMessages(c)
  BY <1>1 DEF ClientMessages, Msg
<1>2. CASE c \in Threads /\ m \in ThreadMessages(c)
  BY <1>2 DEF ThreadMessages, Msg, Threads
<1>3. CASE m \in EnqueueMessages(c)
  BY <1>3 DEF EnqueueMessages, Msg
<1> QED BY <1>1, <1>2, <1>3 DEF Asked

LEMMA NamedKept ==
  ASSUME LoaderInv, EnqueuedNamed, [Next]_vars
  PROVE  EnqueuedNamed'
<1>1. ASSUME NEW c \in Callers, callPc'[c] = "put", callMsg'[c].type = "EnqueueLaunch"
      PROVE  callMsg'[c].name \in EnqueueNames
  BY <1>1, CallsMove, AskedNamed DEF CallMoves, EnqueuedNamed
<1>2. ASSUME NEW i \in 1 .. Len(queue'), queue'[i].type = "EnqueueLaunch"
      PROVE  queue'[i].name \in EnqueueNames
  <2>1. AppClosedMsg.type = "AppClosed" /\ LoadingCheckMsg.type = "LoadingCheck"
    BY DEF AppClosedMsg, LoadingCheckMsg, Msg
  <2> QED BY <1>2, <2>1, QueueMoves DEF EnqueuedNamed
<1>3. ASSUME NEW i \in 1 .. Len(launchQueue')
      PROVE  launchQueue'[i].name \in EnqueueNames
  <2>1. queue # <<>> => Head(queue) = queue[1] /\ 1 \in 1 .. Len(queue)
    BY DEF LoaderInv, TypeOK, QueueOK
  <2> QED BY <1>3, <2>1, LaunchQueueMoves DEF EnqueuedNamed
<1> QED BY <1>1, <1>2, <1>3 DEF EnqueuedNamed

\* A deferred launch is announced: the head of the launch queue is no browser.
LEMMA DeferredAnnounced ==
  ASSUME BrowserNotEnqueued, LoaderInv, EnqueuedNamed, NEW l, NEW a, NEW th,
         LaunchNextDeferred(l, a, th)
  PROVE  /\ pc' = "before_load" /\ session' = "open" /\ app' = a /\ thread' = th
         /\ job' = Head(launchQueue) /\ Head(launchQueue) \in DeferredLaunch
<1>1. launchQueue \in Seq(DeferredLaunch) /\ launchQueue # <<>>
  BY DEF LoaderInv, TypeOK, LaunchOK, LaunchNextDeferred
<1>2. Head(launchQueue) = launchQueue[1] /\ 1 \in 1 .. Len(launchQueue)
      /\ Head(launchQueue) \in DeferredLaunch
  BY <1>1
<1>3. Head(launchQueue).name # ApplicationsName
  BY <1>2 DEF EnqueuedNamed, BrowserNotEnqueued
<1> QED BY <1>2, <1>3 DEF LaunchNextDeferred, PublishBeforeLoad

\* Between messages, and while the loader joins a window's thread.
AtRest == pc \in {"idle", "join_menu", "join_apps"}

LEMMA QuietPc ==
  ASSUME QuietStep
  PROVE  pc' = pc \/ (AtRest /\ AtRest') \/ pc' = "crashed"
<1> USE DEF AtRest
<1>1. CASE Query \/ EnqueueLaunch \/ EnqueueOverflow \/ ClearLaunchQueue
  BY <1>1 DEF Query, EnqueueLaunch, EnqueueOverflow, ClearLaunchQueue
<1>2. CASE ShowMenu \/ SetMenuStyle \/ WindowClosed \/ JoinMenu \/ JoinApplications
  BY <1>2 DEF ShowMenu, SetMenuStyle, WindowClosed, JoinMenu, JoinApplications, Take
<1>3. CASE LoadingCheck \/ Scrub \/ ScrubPut \/ TimerTick
  BY <1>3 DEF LoadingCheck, Scrub, ScrubPut, TimerTick
<1>4. CASE \E c \in Callers : EnqueueNull(c) \/ Put(c)
  BY <1>4 DEF EnqueueNull, Put
<1>5. CASE \E t \in Threads : ThreadExit(t)
  BY <1>5 DEF ThreadExit
<1> QED BY <1>1, <1>2, <1>3, <1>4, <1>5 DEF QuietStep

LEMMA SubscribersKept ==
  ASSUME BrowserNotEnqueued, SessionInv, [Next]_vars
  PROVE  SubscribersInStep'
<1> USE DEF SessionInv, LoaderInv, TypeOK, SubscribersInStep
<1>0. app \in AppRecord BY DEF AppOK
<1>1. CASE QuietStep
  BY <1>1, QuietFrame, QuietPc DEF IsAppRunning, AtRest
<1>2. CASE RequestStep \/ BrowserWake \/ UNCHANGED vars
  BY <1>2, RequestFrame DEF BrowserWake, vars, IsAppRunning
<1>3. CASE StartRejected
  BY <1>3 DEF StartRejected, EmitQueueEmpty, IsAppRunning
<1>4. CASE StartApplications
  BY <1>0, <1>4 DEF StartApplications, IsAppRunning, AppRecord
<1>5. CASE StartByName
  BY <1>5 DEF StartByName, PublishBeforeLoad
<1>6. CASE AppStarts
  BY <1>6 DEF AppStarts, LaunchBracketed, IsAppRunning
<1>7. CASE LaunchFails
  <2>1. app.thread = "NULL" /\ session' = "closed" BY <1>7 DEF LaunchFails, LaunchBracketed, EmitQueueEmpty
  <2>2. app'.thread = "NULL" BY <1>0, <1>7, <2>1 DEF LaunchFails, AppRecord
  <2> QED BY <2>1, <2>2 DEF IsAppRunning
<1>8. CASE DeferredLaunchFails \/ AppClosedNext
  <2>1. pc' = "before_load" BY <1>8, DeferredAnnounced DEF DeferredLaunchFails, AppClosedNext
  <2> QED BY <2>1
<1>9. CASE AppClosedLast
  BY <1>9 DEF AppClosedLast, ClosedApp, EmitQueueEmpty, IsAppRunning
<1>10. CASE Lock
  BY <1>0, <1>10 DEF Lock, LockFree, IsAppRunning, AppRecord
<1>11. CASE Unlock
  <2>1. Queued("Unlock") BY <1>11, TakeTyped, TakeHas DEF Unlock
  <2>2. app.thread = "MAGIC" BY <2>1 DEF LockExclusive
  <2> QED BY <1>0, <1>11, <2>2 DEF Unlock, IsAppRunning, AppRecord
<1> QED
  BY <1>1, <1>2, <1>3, <1>4, <1>5, <1>6, <1>7, <1>8, <1>9, <1>10, <1>11, StepKinds DEF RecordStep

LEMMA SessionInvariant ==
  ASSUME BrowserNotEnqueued
  PROVE  Spec => []SessionInv
<1>1. Init => SessionInv
  BY InitSafe DEF Init, SessionInv, EnqueuedNamed, SubscribersInStep, IsAppRunning
<1>2. SessionInv /\ [Next]_vars => SessionInv'
  BY NextSafe, NamedKept, SubscribersKept DEF SessionInv
<1> QED BY <1>1, <1>2, PTL DEF Spec

\* Between messages desktop and power believe an application runs exactly when
\* one does, through failed launches and chains of deferred ones
\* (loader_do_emit_queue_empty_event), as long as nobody enqueues the browser.
THEOREM LoaderSubscribersInStep ==
  ASSUME BrowserNotEnqueued
  PROVE  Spec => []SubscribersInStep
<1>1. SessionInv => SubscribersInStep BY DEF SessionInv
<1> QED BY <1>1, SessionInvariant, PTL

-----------------------------------------------------------------------------
(* The launch queue and the browser, when besides only applications enqueue. *)

\* A running application goes on until it exits; only a launch starts one.
LEMMA AppThreadMoves ==
  ASSUME LoaderInv, [Next]_vars, thread["app"] = "running", ~ThreadExit("app")
  PROVE  thread'["app"] = "running"
<1> USE DEF LoaderInv, TypeOK
<1>0. /\ thread \in ThreadStates /\ "app" \in Threads /\ "menu" \in Threads
      /\ "apps" \in Threads /\ scrubQueue \in Seq(Threads) /\ app.thread = "APP"
  BY DEF ThreadsOK, Threads, ClosedOnce, IsAppRunning
<1>1. CASE UNCHANGED thread BY <1>1
<1>2. CASE AppStarts BY <1>0, <1>2 DEF AppStarts, ThreadStates
<1>3. CASE StartApplications \/ DeferredLaunchFails
  BY <1>0, <1>3 DEF StartApplications, DeferredLaunchFails, LaunchBracketed
<1>4. CASE AppClosedLast \/ AppClosedNext
  <2>1. Queued("AppClosed")
    BY <1>4, TakeTyped, TakeHas DEF AppClosedLast, AppClosedNext, ReapApp
  <2> QED BY <2>1 DEF ClosedOnce
<1>5. CASE ShowMenu \/ JoinMenu \/ JoinApplications
  BY <1>0, <1>5 DEF ShowMenu, JoinMenu, JoinApplications, ThreadStates
<1>6. CASE Scrub
  <2>1. scrubQueue # <<>> /\ Head(scrubQueue) = scrubQueue[1] /\ 1 \in 1 .. Len(scrubQueue)
        /\ Head(scrubQueue) \in Threads
    BY <1>0, <1>6 DEF Scrub
  <2>2. Head(scrubQueue) # "app" BY <2>1 DEF ClosedOnce, AppInScrubQueue
  <2> QED BY <1>0, <1>6, <2>1, <2>2 DEF Scrub, ThreadStates
<1>7. CASE \E c \in Callers : Put(c)
  <2> PICK c \in Callers : Put(c) BY <1>7
  <2>1. thread'["app"] = thread["app"] \/ thread'["app"] = "exiting"
    BY <1>0 DEF Put, ThreadStates
  <2>2. thread'["app"] # "exiting" BY NextSafe DEF ClosedOnce
  <2> QED BY <2>1, <2>2
<1>8. CASE \E t \in Threads : ThreadExit(t)
  BY <1>0, <1>8 DEF ThreadExit, ThreadStates
<1>9. CASE StartRejected \/ StartByName \/ LaunchFails \/ Lock \/ Unlock
  BY <1>1, <1>9 DEF StartRejected, StartByName, LaunchFails, Lock, Unlock
<1>10. CASE Query \/ EnqueueLaunch \/ EnqueueOverflow \/ ClearLaunchQueue \/ SetMenuStyle
            \/ WindowClosed \/ LoadingCheck
  BY <1>1, <1>10 DEF Query, EnqueueLaunch, EnqueueOverflow, ClearLaunchQueue, SetMenuStyle,
     WindowClosed, LoadingCheck
<1>11. CASE (\E c \in Callers : EnqueueNull(c)) \/ ScrubPut \/ TimerTick \/ BrowserWake
            \/ UNCHANGED vars
  BY <1>1, <1>11 DEF EnqueueNull, ScrubPut, TimerTick, BrowserWake, vars
<1>12. CASE RequestStep BY <1>1, <1>12, RequestFrame
<1> QED
  BY <1>2, <1>3, <1>4, <1>5, <1>6, <1>7, <1>8, <1>9, <1>10, <1>11, <1>12, StepKinds
  DEF QuietStep, RecordStep

LEMMA AppCallsKept ==
  ASSUME ChainInv, [Next]_vars
  PROVE  AppCalls'
<1> USE DEF ChainInv, SessionInv
<1> SUFFICES ASSUME callPc'["app"] # "idle" PROVE thread'["app"] = "running" BY DEF AppCalls
<1>0. "app" \in Callers /\ "app" \in Threads BY DEF Callers, Threads
<1>1. ~ThreadExit("app") BY DEF ThreadExit, callVars
<1>2. CASE callPc["app"] # "idle" BY <1>1, <1>2, AppThreadMoves DEF AppCalls
<1>3. CASE callPc["app"] = "idle"
  <2>1. PICK m : Request("app", m) BY <1>0, <1>3, CallsMove DEF CallMoves
  <2>2. thread["app"] = "running" BY <1>0, <2>1 DEF Request
  <2> QED BY <1>1, <2>2, AppThreadMoves
<1> QED BY <1>2, <1>3

LEMMA ByAppsKept ==
  ASSUME OnlyAppsEnqueue, ChainInv, [Next]_vars
  PROVE  EnqueuedByApps'
<1> USE DEF ChainInv, SessionInv
<1>1. ASSUME NEW c \in Callers, callPc'[c] = "put", callMsg'[c].type = "EnqueueLaunch"
      PROVE  c = "app"
  BY <1>1, CallsMove, AskedNamed DEF CallMoves, EnqueuedByApps, OnlyAppsEnqueue
<1>2. ASSUME NEW i \in 1 .. Len(queue'), queue'[i].type = "EnqueueLaunch"
      PROVE  queue'[i].from = "app"
  <2>1. AppClosedMsg.type = "AppClosed" /\ LoadingCheckMsg.type = "LoadingCheck"
    BY DEF AppClosedMsg, LoadingCheckMsg, Msg
  <2>2. \A c \in Callers : callPc[c] = "put" => callMsg[c].from = c
    BY DEF LoaderInv, OwnMessages
  <2> QED BY <1>2, <2>1, <2>2, QueueMoves DEF EnqueuedByApps
<1> QED BY <1>1, <1>2 DEF EnqueuedByApps

\* The application that enqueues is running.
LEMMA EnqueuerRuns ==
  ASSUME ChainInv, EnqueueLaunch
  PROVE  IsAppRunning
<1> USE DEF ChainInv, SessionInv, LoaderInv, TypeOK
<1>1. Take({"EnqueueLaunch"}) BY DEF EnqueueLaunch
<1>2. Head(queue).type = "EnqueueLaunch" /\ Head(queue) = queue[1] /\ 1 \in 1 .. Len(queue)
  BY <1>1, TakeTyped, TakeIndex
<1>3. queue[1].from = "app" /\ callPc["app"] = "wait"
  BY <1>2 DEF EnqueuedByApps, ReplyAwaited, SyncTypes
<1>4. thread["app"] = "running" BY <1>3 DEF AppCalls
<1> QED BY <1>4 DEF ClosedOnce

LEMMA ChainKept ==
  ASSUME BrowserNotEnqueued, ChainInv, [Next]_vars
  PROVE  ChainAlive'
<1> USE DEF ChainInv, SessionInv, LoaderInv, TypeOK
<1>0. app \in AppRecord BY DEF AppOK
<1>1. CASE EnqueueLaunch
  <2>1. UNCHANGED app BY <1>1, QuietFrame DEF QuietStep
  <2> QED BY <1>1, <2>1, EnqueuerRuns DEF ChainAlive, IsAppRunning
<1>2. CASE QuietStep /\ ~EnqueueLaunch
  <2>1. UNCHANGED app /\ (pc' = pc \/ (AtRest /\ AtRest') \/ pc' = "crashed")
    BY <1>2, QuietFrame, QuietPc
  <2>2. UNCHANGED <<launchQueue, job>> \/ launchQueue' = <<>>
    <3>1. CASE Query \/ EnqueueOverflow \/ ClearLaunchQueue \/ ShowMenu \/ SetMenuStyle \/ WindowClosed
               \/ JoinMenu \/ JoinApplications \/ LoadingCheck
      BY <3>1 DEF Query, EnqueueOverflow, ClearLaunchQueue, ShowMenu, SetMenuStyle, WindowClosed,
         JoinMenu, JoinApplications, LoadingCheck
    <3>2. CASE (\E c \in Callers : EnqueueNull(c) \/ Put(c)) \/ (\E t \in Threads : ThreadExit(t))
               \/ Scrub \/ ScrubPut \/ TimerTick
      BY <3>2 DEF EnqueueNull, Put, ThreadExit, Scrub, ScrubPut, TimerTick
    <3> QED BY <1>2, <3>1, <3>2 DEF QuietStep
  <2> QED BY <2>1, <2>2 DEF ChainAlive, IsAppRunning, AtRest
<1>3. CASE RequestStep \/ BrowserWake \/ UNCHANGED vars
  BY <1>3, RequestFrame DEF BrowserWake, vars, ChainAlive, IsAppRunning
<1>4. CASE StartRejected
  BY <1>4 DEF StartRejected, ChainAlive, IsAppRunning
<1>5. CASE StartApplications \/ StartByName
  <2>1. pc = "idle" /\ app.thread = "NULL" /\ UNCHANGED launchQueue
    BY <1>5 DEF StartApplications, StartByName, Take
  <2> QED BY <2>1 DEF ChainAlive, IsAppRunning
<1>6. CASE AppStarts
  BY <1>6 DEF AppStarts, ChainAlive, IsAppRunning
<1>7. CASE LaunchFails
  <2>1. pc = "before_load" /\ app.thread = "NULL" /\ UNCHANGED launchQueue /\ LaunchIsLast
    BY <1>7 DEF LaunchFails, LaunchBracketed
  <2> QED BY <2>1 DEF ChainAlive, IsAppRunning, LaunchIsLast
<1>8. CASE DeferredLaunchFails \/ AppClosedNext
  <2>1. pc' = "before_load" /\ job'.type = "Deferred"
    BY <1>8, DeferredAnnounced DEF DeferredLaunchFails, AppClosedNext, DeferredLaunch
  <2> QED BY <2>1 DEF ChainAlive
<1>9. CASE AppClosedLast
  BY <1>9 DEF AppClosedLast, ChainAlive
<1>10. CASE Lock
  <2>1. pc = "idle" /\ UNCHANGED <<pc, launchQueue>> BY <1>10 DEF Lock, Take
  <2>2. IsAppRunning => IsAppRunning' BY <1>10 DEF Lock, LockFree, IsAppRunning
  <2> QED BY <2>1, <2>2 DEF ChainAlive
<1>11. CASE Unlock
  <2>1. Queued("Unlock") BY <1>11, TakeTyped, TakeHas DEF Unlock
  <2>2. app.thread = "MAGIC" BY <2>1 DEF LockExclusive
  <2>3. pc = "idle" /\ UNCHANGED <<pc, launchQueue>> BY <1>11 DEF Unlock, Take
  <2> QED BY <2>2, <2>3 DEF ChainAlive, IsAppRunning
<1> QED
  BY <1>1, <1>2, <1>3, <1>4, <1>5, <1>6, <1>7, <1>8, <1>9, <1>10, <1>11, StepKinds DEF RecordStep

\* What the browser may ask for, and who asks for a launch.
LEMMA BrowserAsks ==
  ASSUME NEW m, Asked("apps", m)
  PROVE  FromBrowser(m)
<1>1. "apps" \notin Clients /\ "apps" \notin Enqueuers BY ClientsAssumption DEF Threads
<1>2. m \in ThreadMessages("apps") BY <1>1 DEF Asked, EnqueueMessages
<1> QED BY <1>2 DEF ThreadMessages, Msg, FromBrowser

\* A launch that is announced was being announced, was at the head of the
\* queue, or is the next deferred one.
LEMMA JobMoves ==
  ASSUME BrowserNotEnqueued, LoaderInv, EnqueuedNamed, [Next]_vars, pc' = "before_load"
  PROVE  \/ pc = "before_load" /\ job' = job
         \/ StartByName /\ job' = Head(queue)
         \/ job' \in DeferredLaunch
<1> USE DEF LoaderInv, TypeOK
<1>1. CASE UNCHANGED <<pc, job>> BY <1>1
<1>2. CASE StartByName BY <1>2 DEF StartByName, PublishBeforeLoad
<1>3. CASE DeferredLaunchFails \/ AppClosedNext
  BY <1>3, DeferredAnnounced DEF DeferredLaunchFails, AppClosedNext
<1>4. CASE StartRejected \/ StartApplications \/ AppStarts \/ LaunchFails \/ AppClosedLast
           \/ Lock \/ Unlock
  BY <1>1, <1>4 DEF StartRejected, StartApplications, AppStarts, LaunchFails, AppClosedLast,
     Lock, Unlock
<1>5. CASE Query \/ EnqueueLaunch \/ EnqueueOverflow \/ ClearLaunchQueue \/ ShowMenu
           \/ SetMenuStyle \/ WindowClosed \/ JoinMenu \/ JoinApplications \/ LoadingCheck
  BY <1>1, <1>5 DEF Query, EnqueueLaunch, EnqueueOverflow, ClearLaunchQueue, ShowMenu,
     SetMenuStyle, WindowClosed, JoinMenu, JoinApplications, LoadingCheck
<1>6. CASE (\E c \in Callers : EnqueueNull(c) \/ Put(c)) \/ (\E t \in Threads : ThreadExit(t))
           \/ Scrub \/ ScrubPut \/ TimerTick \/ BrowserWake \/ UNCHANGED vars
  BY <1>1, <1>6 DEF EnqueueNull, Put, ThreadExit, Scrub, ScrubPut, TimerTick, BrowserWake, vars
<1>7. CASE RequestStep BY <1>1, <1>7, RequestFrame
<1> QED BY <1>2, <1>3, <1>4, <1>5, <1>6, <1>7, StepKinds DEF QuietStep, RecordStep

LEMMA BrowserCallsKept ==
  ASSUME BrowserNotEnqueued, ChainInv, [Next]_vars
  PROVE  BrowserCalls'
<1> USE DEF ChainInv, SessionInv
<1>0. "apps" \in Callers /\ None # "apps" BY NamesAssumption DEF Callers, Threads
<1>1. callPc'["apps"] = "put" => FromBrowser(callMsg'["apps"])
  BY <1>0, CallsMove, BrowserAsks DEF CallMoves, BrowserCalls
<1>2. ASSUME NEW i \in 1 .. Len(queue'), queue'[i].from = "apps"
      PROVE  FromBrowser(queue'[i])
  <2>1. AppClosedMsg.from = None /\ LoadingCheckMsg.from = None
    BY DEF AppClosedMsg, LoadingCheckMsg, Msg
  <2>2. \A c \in Callers : callPc[c] = "put" => callMsg[c].from = c
    BY DEF LoaderInv, OwnMessages
  <2> QED BY <1>0, <1>2, <2>1, <2>2, QueueMoves DEF BrowserCalls
<1>3. ASSUME pc' = "before_load", job'.from = "apps" PROVE job'.type = "StartByName"
  <2>1. CASE pc = "before_load" /\ job' = job BY <1>3, <2>1 DEF BrowserCalls
  <2>2. CASE StartByName /\ job' = Head(queue)
    <3>1. /\ Head(queue).type \in {"StartByName", "StartDetached"} /\ Head(queue) = queue[1]
          /\ 1 \in 1 .. Len(queue)
      BY <2>2, TakeTyped, TakeIndex DEF StartByName, LoaderInv, TypeOK
    <3> QED BY <1>3, <2>2, <3>1 DEF BrowserCalls, FromBrowser
  <2>3. CASE job' \in DeferredLaunch BY <1>0, <1>3, <2>3 DEF DeferredLaunch
  <2> QED BY <1>3, <2>1, <2>2, <2>3, JobMoves
<1> QED BY <1>1, <1>2, <1>3 DEF BrowserCalls

\* What the event that ends a session changes in the browser.
LEMMA NotifiedFields ==
  ASSUME browser \in BrowserRecord, NEW th
  PROVE  /\ BrowserNotified(th) \in BrowserRecord
         /\ BrowserNotified(th).sub = browser.sub
         /\ BrowserNotified(th).waiting = browser.waiting
         /\ BrowserNotified(th).flag <=> browser.flag \/ (browser.sub /\ th = "NULL")
<1>1. PICK f \in BOOLEAN : f = (browser.flag \/ (browser.sub /\ th = "NULL"))
  BY DEF BrowserRecord
<1>2. BrowserNotified(th) = [browser EXCEPT !.flag = f] BY <1>1 DEF BrowserNotified
<1>3. PICK b : b = BrowserNotified(th) OBVIOUS
<1>4. b \in BrowserRecord /\ b.sub = browser.sub /\ b.waiting = browser.waiting /\ b.flag = f
  BY <1>2, <1>3 DEF BrowserRecord
<1> QED BY <1>1, <1>3, <1>4

\* The answer to a launch: the browser's own one ends its call, another leaves
\* that call alone.
LEMMA AnswerBrowser ==
  ASSUME LoaderInv, NEW j, NEW ok \in BOOLEAN, NEW b \in BrowserRecord, AnswerLaunch(j, ok, b),
         j.type = "StartByName" => j.from \in Callers
  PROVE  /\ j.from # "apps" => browser' = b /\ callPc'["apps"] = callPc["apps"]
         /\ j.from = "apps" /\ ok => browser'.waiting /\ browser'.sub = b.sub /\ browser'.flag = b.flag
         /\ j.from = "apps" /\ ~ok => ~browser'.waiting
         /\ j.from = "apps" /\ j.type = "StartByName" => callPc'["apps"] = "idle"
<1>0. callPc \in [Callers -> {"idle", "put", "wait"}] /\ "apps" \in Callers
  BY DEF LoaderInv, TypeOK, CallsOK, Callers, Threads
<1>1. j.from # "apps" => browser' = b /\ callPc'["apps"] = callPc["apps"]
  BY <1>0 DEF AnswerLaunch
<1>2. j.from = "apps" /\ j.type = "StartByName" => callPc'["apps"] = "idle"
  BY <1>0 DEF AnswerLaunch
<1>3. j.from = "apps" /\ ok => browser'.waiting /\ browser'.sub = b.sub /\ browser'.flag = b.flag
  <2> SUFFICES ASSUME j.from = "apps", ok
               PROVE  browser'.waiting /\ browser'.sub = b.sub /\ browser'.flag = b.flag
    OBVIOUS
  <2>1. browser' = [b EXCEPT !.waiting = TRUE] BY DEF AnswerLaunch
  <2> QED BY <2>1 DEF BrowserRecord
<1>4. j.from = "apps" /\ ~ok => ~browser'.waiting
  BY DEF AnswerLaunch
<1> QED BY <1>1, <1>2, <1>3, <1>4

LEMMA SubscribedFrame ==
  ASSUME ChainInv, [Next]_vars, browser'.waiting = browser.waiting, browser.sub => browser'.sub
  PROVE  BrowserSubscribed'
<1> USE DEF ChainInv, SessionInv
<1>0. browser \in BrowserRecord /\ "apps" \in Callers
  BY DEF LoaderInv, TypeOK, WindowsOK, Callers, Threads
<1>1. CASE callPc'["apps"] = callPc["apps"] /\ callMsg'["apps"] = callMsg["apps"]
  BY <1>1 DEF BrowserSubscribed
<1>2. CASE callPc["apps"] # "idle" /\ callPc'["apps"] = "idle"
  BY <1>2 DEF BrowserSubscribed
<1>3. CASE callPc["apps"] = "put" /\ callPc'["apps"] = "wait" /\ callMsg["apps"].type \in SyncTypes
  <2>1. callMsg["apps"].type = "StartByName" BY <1>3 DEF BrowserCalls, FromBrowser, SyncTypes
  <2> QED BY <1>3, <2>1 DEF BrowserSubscribed
<1>4. CASE callPc'["apps"] = "put" /\ \E m : Request("apps", m) /\ callMsg'["apps"] = m
  <2>1. PICK m : Request("apps", m) /\ callMsg'["apps"] = m BY <1>4
  <2>2. ~browser.waiting BY <2>1 DEF Request
  <2>3. m.type = "StartByName" => browser'.sub
    <3>1. m.type = "StartByName" => browser' = [browser EXCEPT !.sub = TRUE] BY <2>1 DEF Request
    <3> QED BY <1>0, <3>1 DEF BrowserRecord
  <2> QED BY <1>4, <2>1, <2>2, <2>3 DEF BrowserSubscribed
<1> QED BY <1>0, <1>1, <1>2, <1>3, <1>4, CallsMove DEF CallMoves

\* The launch that is answered: of the queue's head, or the announced one.
LEMMA AnsweredLaunch ==
  ASSUME ChainInv, NEW j,
         \/ Take({"StartByName", "StartDetached"}) /\ j = Head(queue)
         \/ pc = "before_load" /\ j = job
  PROVE  /\ j.type = "StartByName" => j.from \in Callers
         /\ j.from = "apps" => j.type = "StartByName" /\ callPc["apps"] = "wait"
         /\ j.from = "apps" /\ j = Head(queue) /\ pc # "before_load" => j.name # ApplicationsName
<1> USE DEF ChainInv, SessionInv, LoaderInv, TypeOK
<1>1. CASE Take({"StartByName", "StartDetached"}) /\ j = Head(queue)
  <2>1. j \in Message /\ j.type \in {"StartByName", "StartDetached"} BY <1>1, TakeTyped
  <2>2. j = queue[1] /\ 1 \in 1 .. Len(queue) BY <1>1, TakeIndex
  <2>3. j.from \in Callers BY <2>1, MessageFields
  <2>4. j.from = "apps" => j.type = "StartByName" /\ j.name \in FapApps
    BY <2>1, <2>2 DEF BrowserCalls, FromBrowser
  <2>5. j.type = "StartByName" => callPc[j.from] = "wait" BY <2>2 DEF ReplyAwaited, SyncTypes
  <2>6. \A n \in FapApps : n # ApplicationsName BY NamesAssumption
  <2> QED BY <2>3, <2>4, <2>5, <2>6
<1>2. CASE pc = "before_load" /\ j = job
  <2>1. j \in Launch BY <1>2 DEF LaunchOK
  <2>2. j.type = "StartByName" => j.from \in Callers /\ callPc[j.from] = "wait"
    BY <1>2, <2>1 DEF Launch, DeferredLaunch, ReplyAwaited
  <2>3. j.from = "apps" => j.type = "StartByName" BY <1>2 DEF BrowserCalls
  <2> QED BY <1>2, <2>2, <2>3
<1> QED BY <1>1, <1>2

LEMMA BrowserKept ==
  ASSUME BrowserNotEnqueued, OnlyAppsEnqueue, ChainInv, [Next]_vars
  PROVE  BrowserSubscribed' /\ NoLostWakeup'
<1> USE DEF ChainInv, SessionInv, LoaderInv, TypeOK
<1>0. browser \in BrowserRecord /\ app \in AppRecord BY DEF WindowsOK, AppOK
<1>1. CASE QuietStep
  <2>1. UNCHANGED <<app, browser>> BY <1>1, QuietFrame
  <2>2. pc = "before_load" => pc' = "before_load" \/ IsAppRunning
    <3>1. CASE \E c \in Callers : EnqueueNull(c)
      <4>1. thread["app"] = "running"
        BY <3>1 DEF EnqueueNull, OnlyAppsEnqueue, Threads
      <4> QED BY <4>1 DEF ClosedOnce
    <3>2. CASE EnqueueOverflow BY <3>2 DEF EnqueueOverflow, Take
    <3>3. CASE Query \/ EnqueueLaunch \/ ClearLaunchQueue \/ ShowMenu \/ SetMenuStyle
               \/ WindowClosed \/ JoinMenu \/ JoinApplications \/ LoadingCheck
      BY <3>3 DEF Query, EnqueueLaunch, ClearLaunchQueue, ShowMenu, SetMenuStyle, WindowClosed,
         JoinMenu, JoinApplications, LoadingCheck, Take
    <3>4. CASE Scrub \/ ScrubPut \/ TimerTick \/ (\E c \in Callers : Put(c))
               \/ (\E t \in Threads : ThreadExit(t))
      BY <3>4 DEF Scrub, ScrubPut, TimerTick, Put, ThreadExit
    <3> QED BY <1>1, <3>1, <3>2, <3>3, <3>4 DEF QuietStep
  <2>3. BrowserSubscribed' BY <2>1, SubscribedFrame
  <2>4. NoLostWakeup' BY <2>1, <2>2 DEF NoLostWakeup, IsAppRunning
  <2> QED BY <2>3, <2>4
<1>2. CASE RequestStep
  <2>1. UNCHANGED <<app, pc>> BY <1>2, RequestFrame
  <2>2. browser' = browser \/ browser' = [browser EXCEPT !.sub = TRUE]
    BY <1>2 DEF RequestStep, ClientRequest, ThreadRequest, Request
  <2>3. /\ browser'.waiting = browser.waiting /\ browser'.flag = browser.flag
        /\ browser.sub => browser'.sub
    BY <1>0, <2>2 DEF BrowserRecord
  <2>4. BrowserSubscribed' BY <2>3, SubscribedFrame
  <2>5. NoLostWakeup' BY <2>1, <2>3 DEF NoLostWakeup, IsAppRunning
  <2> QED BY <2>4, <2>5
<1>3. CASE BrowserWake
  <2>1. browser.waiting /\ ~browser'.waiting /\ UNCHANGED callPc BY <1>3 DEF BrowserWake, callVars
  <2> QED BY <2>1 DEF BrowserSubscribed, NoLostWakeup
<1>4. CASE UNCHANGED vars
  <2>1. BrowserSubscribed' BY <1>4, SubscribedFrame DEF vars
  <2>2. NoLostWakeup' BY <1>4 DEF NoLostWakeup, IsAppRunning, vars
  <2> QED BY <2>1, <2>2
<1>5. CASE StartRejected
  <2>1. PICK j : j = Head(queue) OBVIOUS
  <2>2. PICK b \in BrowserRecord : b = BrowserNotified(app.thread) BY <1>0, NotifiedFields
  <2>3. /\ pc = "idle" /\ UNCHANGED <<app, pc>> /\ AnswerLaunch(j, FALSE, b)
        /\ Take({"StartByName", "StartDetached"})
    BY <1>5, <2>1, <2>2 DEF StartRejected, Take
  <2>4. b.sub = browser.sub /\ b.waiting = browser.waiting /\ (browser.flag => b.flag)
    BY <1>0, <2>2, NotifiedFields
  <2>5. CASE j.from = "apps"
    BY <2>1, <2>3, <2>5, AnsweredLaunch, AnswerBrowser DEF BrowserSubscribed, NoLostWakeup
  <2>6. CASE j.from # "apps"
    <3>1. browser' = b BY <2>1, <2>3, <2>6, AnsweredLaunch, AnswerBrowser
    <3>2. BrowserSubscribed' BY <2>4, <3>1, SubscribedFrame
    <3>3. NoLostWakeup' BY <2>3, <2>4, <3>1 DEF NoLostWakeup, IsAppRunning
    <3> QED BY <3>2, <3>3
  <2> QED BY <2>5, <2>6
<1>6. CASE StartApplications
  <2>1. PICK j : j = Head(queue) OBVIOUS
  <2>2. /\ pc = "idle" /\ app.thread = "NULL" /\ AnswerLaunch(j, TRUE, browser)
        /\ Take({"StartByName", "StartDetached"}) /\ j.name = ApplicationsName
    BY <1>6, <2>1 DEF StartApplications, Take
  <2>3. j.from # "apps" BY <2>1, <2>2, AnsweredLaunch
  <2>4. browser' = browser BY <1>0, <2>1, <2>2, <2>3, AnsweredLaunch, AnswerBrowser
  <2>5. BrowserSubscribed' BY <2>4, SubscribedFrame
  <2>6. NoLostWakeup' BY <2>2, <2>4 DEF NoLostWakeup, IsAppRunning
  <2> QED BY <2>5, <2>6
<1>7. CASE StartByName \/ DeferredLaunchFails \/ AppClosedNext
  <2>1. pc' = "before_load" /\ UNCHANGED browser
    BY <1>7, DeferredAnnounced DEF StartByName, PublishBeforeLoad, DeferredLaunchFails, AppClosedNext
  <2>2. BrowserSubscribed' BY <2>1, SubscribedFrame
  <2>3. NoLostWakeup' BY <2>1 DEF NoLostWakeup
  <2> QED BY <2>2, <2>3
<1>8. CASE AppStarts
  <2>1. PICK j : j = job OBVIOUS
  <2>2. pc = "before_load" /\ app'.thread = "APP" /\ AnswerLaunch(j, TRUE, browser)
    BY <1>8, <2>1 DEF AppStarts
  <2>3. CASE j.from = "apps"
    <3>1. callPc["apps"] = "wait" /\ callPc'["apps"] = "idle"
          /\ browser'.sub = browser.sub
      BY <1>0, <2>1, <2>2, <2>3, AnsweredLaunch, AnswerBrowser
    <3> QED BY <2>2, <3>1 DEF BrowserSubscribed, NoLostWakeup, IsAppRunning
  <2>4. CASE j.from # "apps"
    <3>1. browser' = browser BY <1>0, <2>1, <2>2, <2>4, AnsweredLaunch, AnswerBrowser
    <3>2. BrowserSubscribed' BY <3>1, SubscribedFrame
    <3>3. NoLostWakeup' BY <2>2, <3>1 DEF NoLostWakeup, IsAppRunning
    <3> QED BY <3>2, <3>3
  <2> QED BY <2>3, <2>4
<1>9. CASE LaunchFails
  <2>1. PICK j : j = job OBVIOUS
  <2>2. PICK b \in BrowserRecord : b = BrowserNotified("NULL") BY <1>0, NotifiedFields
  <2>3. pc = "before_load" /\ AnswerLaunch(j, FALSE, b)
    BY <1>9, <2>1, <2>2 DEF LaunchFails, LaunchBracketed
  <2>4. /\ b.sub = browser.sub /\ b.waiting = browser.waiting
        /\ b.flag <=> browser.flag \/ browser.sub
    BY <1>0, <2>2, NotifiedFields
  <2>5. CASE j.from = "apps"
    BY <2>1, <2>3, <2>5, AnsweredLaunch, AnswerBrowser DEF BrowserSubscribed, NoLostWakeup
  <2>6. CASE j.from # "apps"
    <3>1. browser' = b BY <2>1, <2>3, <2>6, AnsweredLaunch, AnswerBrowser
    <3>2. BrowserSubscribed' BY <2>4, <3>1, SubscribedFrame
    <3>3. NoLostWakeup' BY <2>4, <3>1 DEF NoLostWakeup
    <3> QED BY <3>2, <3>3
  <2> QED BY <2>5, <2>6
<1>10. CASE AppClosedLast
  <2>1. browser' = BrowserNotified("NULL") BY <1>10 DEF AppClosedLast
  <2>2. /\ browser'.sub = browser.sub /\ browser'.waiting = browser.waiting
        /\ browser'.flag <=> browser.flag \/ browser.sub
    BY <1>0, <2>1, NotifiedFields
  <2>3. BrowserSubscribed' BY <2>2, SubscribedFrame
  <2>4. NoLostWakeup' BY <2>2 DEF NoLostWakeup
  <2> QED BY <2>3, <2>4
<1>11. CASE Lock \/ Unlock
  <2>1. pc = "idle" /\ UNCHANGED browser BY <1>11 DEF Lock, Unlock, Take
  <2>2. IsAppRunning => IsAppRunning'
    <3>1. CASE Lock BY <3>1 DEF Lock, LockFree, IsAppRunning
    <3>2. CASE Unlock
      <4>1. Queued("Unlock") BY <3>2, TakeTyped, TakeHas DEF Unlock
      <4> QED BY <4>1 DEF LockExclusive, IsAppRunning
    <3> QED BY <1>11, <3>1, <3>2
  <2>3. BrowserSubscribed' BY <2>1, SubscribedFrame
  <2>4. NoLostWakeup' BY <2>1, <2>2 DEF NoLostWakeup
  <2> QED BY <2>3, <2>4
<1> QED
  BY <1>1, <1>2, <1>3, <1>4, <1>5, <1>6, <1>7, <1>8, <1>9, <1>10, <1>11, StepKinds DEF RecordStep

LEMMA ChainInvariant ==
  ASSUME BrowserNotEnqueued, OnlyAppsEnqueue
  PROVE  Spec => []ChainInv
<1>1. Init => ChainInv
  <2> SUFFICES ASSUME Init PROVE ChainInv OBVIOUS
  <2>1. SessionInv BY InitSafe DEF Init, SessionInv, EnqueuedNamed, SubscribersInStep, IsAppRunning
  <2>2. AppCalls /\ EnqueuedByApps /\ ChainAlive
    BY DEF Init, AppCalls, EnqueuedByApps, ChainAlive, Callers, Threads
  <2>3. BrowserCalls /\ BrowserSubscribed /\ NoLostWakeup
    BY DEF Init, BrowserCalls, BrowserSubscribed, NoLostWakeup, Callers, Threads
  <2> QED BY <2>1, <2>2, <2>3 DEF ChainInv
<1>2. ChainInv /\ [Next]_vars => ChainInv'
  <2> SUFFICES ASSUME ChainInv, [Next]_vars PROVE ChainInv' OBVIOUS
  <2>1. SessionInv' BY NextSafe, NamedKept, SubscribersKept DEF SessionInv, ChainInv
  <2> QED BY <2>1, AppCallsKept, ByAppsKept, ChainKept, BrowserCallsKept, BrowserKept DEF ChainInv
<1> QED BY <1>1, <1>2, PTL DEF Spec

\* The Applications browser never waits for a wake-up that was already spent
\* (loader_applications.c), as long as only applications enqueue and nobody
\* enqueues the browser.
THEOREM LoaderNoLostWakeup ==
  ASSUME BrowserNotEnqueued, OnlyAppsEnqueue
  PROVE  Spec => []NoLostWakeup
<1>1. ChainInv => NoLostWakeup BY DEF ChainInv
<1> QED BY <1>1, ChainInvariant, PTL

\* NoMoreAppsInQueue is published only with the launch queue empty, under the
\* same conditions: a direct launch that fails leaves no deferred one behind.
THEOREM LoaderNoMoreAppsMeansNone ==
  ASSUME BrowserNotEnqueued, OnlyAppsEnqueue
  PROVE  Spec => NoMoreAppsMeansNone
<1>1. ASSUME ChainInv, [Next]_vars, session = "open", session' = "closed"
      PROVE  launchQueue' = <<>>
  <2> USE DEF ChainInv, SessionInv, LoaderInv, TypeOK
  <2>1. CASE QuietStep \/ RequestStep \/ BrowserWake \/ UNCHANGED vars
    BY <1>1, <2>1, QuietFrame, RequestFrame DEF BrowserWake, vars
  <2>2. CASE StartRejected BY <1>1, <2>2 DEF StartRejected, EmitQueueEmpty
  <2>3. CASE StartApplications \/ AppStarts \/ Lock \/ Unlock
    BY <1>1, <2>3 DEF StartApplications, AppStarts, Lock, Unlock
  <2>4. CASE StartByName BY <1>1, <2>4 DEF StartByName, PublishBeforeLoad
  <2>5. CASE DeferredLaunchFails \/ AppClosedNext
    BY <1>1, <2>5, DeferredAnnounced DEF DeferredLaunchFails, AppClosedNext
  <2>6. CASE LaunchFails
    <3>1. pc = "before_load" /\ app.thread = "NULL" /\ UNCHANGED launchQueue /\ LaunchIsLast
      BY <1>1, <2>6 DEF LaunchFails, LaunchBracketed
    <3> QED BY <1>1, <3>1 DEF ChainAlive, IsAppRunning, LaunchIsLast
  <2>7. CASE AppClosedLast BY <2>7 DEF AppClosedLast
  <2> QED BY <1>1, <2>1, <2>2, <2>3, <2>4, <2>5, <2>6, <2>7, StepKinds DEF RecordStep
<1>2. ChainInv /\ [Next]_vars => [session = "open" /\ session' = "closed" => launchQueue' = <<>>]_vars
  BY <1>1
<1> QED BY <1>2, ChainInvariant, PTL DEF Spec, NoMoreAppsMeansNone
=============================================================================
