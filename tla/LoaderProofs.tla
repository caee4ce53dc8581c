---------------------------- MODULE LoaderProofs ----------------------------
(* Proofs about the loader service, for every set of clients, applications   *)
(* and styles, every queue depth and every launch queue size.                *)
EXTENDS Loader, TLAPS

\* Each kind of message the API builds is a message of the queue.
LEMMA RequestTyped ==
  ASSUME NEW c \in Callers,
         NEW m, \/ c \in Clients /\ m \in ClientMessages(c)
                \/ c \in Threads /\ m \in ThreadMessages(c)
                \/ m \in EnqueueMessages(c)
  PROVE  m \in Message
<1> USE ClientsAssumption, NamesAssumption
<1>1. CASE c \in Clients /\ m \in ClientMessages(c)
  BY <1>1 DEF ClientMessages, Msg, Message, LaunchRequest, LockRequest, PlainRequest,
              MenuRequest, AppNames, Args
<1>2. CASE c \in Threads /\ m \in ThreadMessages(c)
  BY <1>2 DEF ThreadMessages, Msg, Message, LaunchRequest, PlainRequest, WindowReport,
              AppNames, Args, Threads
<1>3. CASE m \in EnqueueMessages(c)
  BY <1>3 DEF EnqueueMessages, Msg, Message, LaunchRequest, PlainRequest, AppNames, Args
<1> QED BY <1>1, <1>2, <1>3

LEMMA InitTyped == Init => TypeOK
<1> SUFFICES ASSUME Init PROVE TypeOK OBVIOUS
<1> USE SizesAssumption, NamesAssumption
<1>1. QueueOK   BY DEF Init, QueueOK
<1>2. CallsOK   BY DEF Init, CallsOK, Callers
<1>3. AppOK     BY DEF Init, AppOK, AppRecord
<1>4. ThreadsOK BY DEF Init, ThreadsOK, ThreadStates, Threads
<1>5. LaunchOK  BY DEF Init, LaunchOK
<1>6. LoadingOK BY DEF Init, LoadingOK, LoadingRecord
<1>7. SessionOK BY DEF Init, SessionOK
<1>8. WindowsOK BY DEF Init, WindowsOK, BrowserRecord
<1> QED BY <1>1, <1>2, <1>3, <1>4, <1>5, <1>6, <1>7, <1>8 DEF TypeOK

\* What the handlers rely on about the fields of each kind of message.
LEMMA MessageFields ==
  ASSUME NEW m \in Message
  PROVE  /\ m.type \in {"StartByName", "StartDetached", "EnqueueLaunch"}
              => m.from \in Callers /\ m.name \in AppNames /\ m.args \in Args
         /\ m.type \in {"StartByName", "StartDetached"} => m \in Launch
         /\ m.type \in {"Lock", "Unlock"} => m.from \in Clients
         /\ m.type \in SyncTypes => m.from \in Callers
         /\ m.type = "SetMenuStyle" => m.name \in Styles \cup {None}
<1>1. CASE m \in LaunchRequest
  BY <1>1 DEF LaunchRequest, Launch, SyncTypes
<1>2. CASE m \in LockRequest
  BY <1>2 DEF LockRequest, Callers, SyncTypes
<1>3. CASE m \in PlainRequest
  BY <1>3 DEF PlainRequest
<1>4. CASE m \in MenuRequest
  BY <1>4 DEF MenuRequest, Callers
<1>5. CASE m \in WindowReport
  BY <1>5 DEF WindowReport, SyncTypes
<1>6. CASE m \in KernelReport
  BY <1>6 DEF KernelReport, SyncTypes
<1> QED BY <1>1, <1>2, <1>3, <1>4, <1>5, <1>6 DEF Message

\* Taking a message from the queue, and putting one into it.
LEMMA TakeTyped ==
  ASSUME QueueOK, NEW t, Take(t)
  PROVE  Head(queue) \in Message /\ Head(queue).type \in t /\ QueueOK'
  BY SizesAssumption DEF QueueOK, Take

LEMMA PutTyped ==
  ASSUME QueueOK, NEW m \in Message, Len(queue) < QueueDepth,
         queue' = Append(queue, m)
  PROVE  QueueOK'
  BY SizesAssumption DEF QueueOK

\* The part of the type invariant over the variables a step leaves alone.
LEMMA Frame ==
  ASSUME TypeOK
  PROVE  /\ UNCHANGED queue => QueueOK'
         /\ UNCHANGED <<callPc, callMsg, holds>> => CallsOK'
         /\ UNCHANGED app => AppOK'
         /\ UNCHANGED <<thread, scrubQueue, scrubPc>> => ThreadsOK'
         /\ UNCHANGED <<launchQueue, pc, job>> => LaunchOK'
         /\ UNCHANGED loading => LoadingOK'
         /\ UNCHANGED <<insomnia, session>> => SessionOK'
         /\ UNCHANGED <<style, browser>> => WindowsOK'
<1> USE DEF TypeOK
<1>1. UNCHANGED queue => QueueOK' BY DEF QueueOK
<1>2. UNCHANGED <<callPc, callMsg, holds>> => CallsOK' BY DEF CallsOK
<1>3. UNCHANGED app => AppOK' BY DEF AppOK
<1>4. UNCHANGED <<thread, scrubQueue, scrubPc>> => ThreadsOK' BY DEF ThreadsOK
<1>5. UNCHANGED <<launchQueue, pc, job>> => LaunchOK' BY DEF LaunchOK
<1>6. UNCHANGED loading => LoadingOK' BY DEF LoadingOK
<1>7. UNCHANGED <<insomnia, session>> => SessionOK' BY DEF SessionOK
<1>8. UNCHANGED <<style, browser>> => WindowsOK' BY DEF WindowsOK
<1> QED BY <1>1, <1>2, <1>3, <1>4, <1>5, <1>6, <1>7, <1>8

\* A caller that is unblocked, or the caller of a launch that is answered.
LEMMA UnblockTyped ==
  ASSUME CallsOK, NEW c \in Callers, Unblock(c), UNCHANGED callMsg,
         holds' \subseteq Clients
  PROVE  CallsOK'
  BY DEF CallsOK, Unblock

LEMMA AnswerTyped ==
  ASSUME CallsOK, WindowsOK, NEW j \in Launch \cup LaunchRequest, NEW ok, NEW th,
         AnswerLaunch(j, ok, BrowserNotified(th)) \/ AnswerLaunch(j, ok, browser),
         UNCHANGED <<callMsg, holds, style>>
  PROVE  CallsOK' /\ WindowsOK'
<1>1. CallsOK'
  BY DEF CallsOK, AnswerLaunch, Launch, LaunchRequest
<1>2. browser \in BrowserRecord /\ BrowserNotified(th) \in BrowserRecord
  BY DEF BrowserNotified, WindowsOK, BrowserRecord
<1>3. \A b \in BrowserRecord : [b EXCEPT !.waiting = TRUE] \in BrowserRecord
  BY DEF BrowserRecord
<1>4. [sub |-> FALSE, flag |-> FALSE, waiting |-> FALSE] \in BrowserRecord
  BY DEF BrowserRecord
<1>5. WindowsOK'
  BY <1>2, <1>3, <1>4 DEF WindowsOK, AnswerLaunch
<1> QED BY <1>1, <1>5

\* The values the helpers of the animation and of the session take.
LEMMA HelpersTyped ==
  ASSUME TypeOK
  PROVE  /\ DropLoading \in LoadingRecord
         /\ \A h \in BOOLEAN : HideLoading(h) \in LoadingRecord
         /\ \A l \in LoadingRecord : ShowLoading(l) \in LoadingRecord
         /\ \A th : EmitQueueEmpty(th) \in {"open", "closed"}
         /\ \A th : BrowserNotified(th) \in BrowserRecord
<1>1. DropLoading \in LoadingRecord
  <2>1. \A d \in Nat, v \in BOOLEAN :
          [depth |-> d, held |-> FALSE, view |-> v, age |-> 0] \in LoadingRecord
    BY SizesAssumption DEF LoadingRecord
  <2>2. (loading.depth > 0) \in BOOLEAN
    OBVIOUS
  <2>3. loading \in LoadingRecord /\ loading.depth \in Nat
    BY DEF TypeOK, LoadingOK, LoadingRecord
  <2> QED BY <2>1, <2>2, <2>3 DEF DropLoading
<1>2. \A h \in BOOLEAN : HideLoading(h) \in LoadingRecord
  BY SizesAssumption DEF HideLoading, LoadingRecord
<1>3. \A l \in LoadingRecord : ShowLoading(l) \in LoadingRecord
  BY DEF ShowLoading, LoadingRecord
<1>4. \A th : EmitQueueEmpty(th) \in {"open", "closed"}
  BY DEF TypeOK, SessionOK, EmitQueueEmpty
<1>5. \A th : BrowserNotified(th) \in BrowserRecord
  BY DEF TypeOK, WindowsOK, BrowserNotified, BrowserRecord
<1> QED BY <1>1, <1>2, <1>3, <1>4, <1>5

\* A deferred launch taken from the queue, whatever the animation, the
\* application record and the threads were set to before it.
LEMMA DeferredTyped ==
  ASSUME TypeOK, NEW l \in LoadingRecord, NEW a \in AppRecord, NEW th \in ThreadStates,
         LaunchNextDeferred(l, a, th), UNCHANGED <<scrubQueue, scrubPc>>, insomnia' \in Int
  PROVE  AppOK' /\ ThreadsOK' /\ LaunchOK' /\ LoadingOK' /\ SessionOK'
<1> USE DEF TypeOK
<1>1. Head(launchQueue) \in DeferredLaunch /\ QueuePop \in Seq(DeferredLaunch)
      /\ Len(QueuePop) <= LaunchQueueMax
  BY SizesAssumption DEF LaunchNextDeferred, QueuePop, LaunchOK
<1>2. AppOK'
  BY DEF LaunchNextDeferred, AppOK, AppRecord
<1>3. ThreadsOK'
  BY DEF LaunchNextDeferred, ThreadsOK, ThreadStates, ApplicationsShown, Threads
<1>4. LaunchOK'
  BY <1>1 DEF LaunchNextDeferred, PublishBeforeLoad, LaunchOK, DeferredLaunch, Launch
<1>5. LoadingOK'
  BY HelpersTyped DEF LaunchNextDeferred, LoadingOK
<1>6. SessionOK'
  BY DEF LaunchNextDeferred, PublishBeforeLoad, SessionOK
<1> QED BY <1>2, <1>3, <1>4, <1>5, <1>6

LEMMA LoaderStepTyped == TypeOK /\ LoaderStep => TypeOK'
<1> SUFFICES ASSUME TypeOK, LoaderStep PROVE TypeOK' OBVIOUS
<1> USE DEF TypeOK
<1>1. CASE StartRejected
  <2>1. QueueOK' BY <1>1, TakeTyped DEF StartRejected
  <2>2. Head(queue) \in Launch
    BY <1>1, TakeTyped, MessageFields DEF StartRejected
  <2>3. CallsOK' /\ WindowsOK'
    BY <1>1, <2>2, AnswerTyped DEF StartRejected
  <2>4. SessionOK'
    BY <1>1, HelpersTyped DEF StartRejected, SessionOK
  <2> QED BY <1>1, <2>1, <2>3, <2>4, Frame DEF StartRejected, callVars, scrubVars
<1>2. CASE StartApplications
  <2>1. QueueOK' BY <1>2, TakeTyped DEF StartApplications
  <2>2. Head(queue) \in Launch
    BY <1>2, TakeTyped, MessageFields DEF StartApplications
  <2>3. CallsOK' /\ WindowsOK'
    BY <1>2, <2>2, AnswerTyped DEF StartApplications
  <2>4. AppOK'
    BY <1>2 DEF StartApplications, AppOK, AppRecord
  <2>5. ThreadsOK'
    BY <1>2 DEF StartApplications, ThreadsOK, ThreadStates, ApplicationsShown, Threads,
       scrubVars
  <2> QED BY <1>2, <2>1, <2>3, <2>4, <2>5, Frame DEF StartApplications, callVars, scrubVars
<1>3. CASE StartByName
  <2>1. QueueOK' BY <1>3, TakeTyped DEF StartByName
  <2>2. Head(queue) \in Launch
    BY <1>3, TakeTyped, MessageFields DEF StartByName
  <2>3. LaunchOK'
    BY <1>3, <2>2 DEF StartByName, PublishBeforeLoad, LaunchOK
  <2>4. SessionOK'
    BY <1>3 DEF StartByName, PublishBeforeLoad, SessionOK
  <2> QED BY <1>3, <2>1, <2>3, <2>4, Frame DEF StartByName, callVars, scrubVars
<1>4. CASE AppStarts
  <2>1. job \in Launch
    BY <1>4 DEF AppStarts, LaunchOK
  <2>2. CallsOK' /\ WindowsOK'
    BY <1>4, <2>1, AnswerTyped DEF AppStarts
  <2>3. AppOK'
    BY <1>4 DEF AppStarts, AppOK, AppRecord
  <2>4. ThreadsOK'
    BY <1>4 DEF AppStarts, ThreadsOK, ThreadStates, Threads, scrubVars
  <2>5. LaunchOK'
    BY <1>4 DEF AppStarts, LaunchOK
  <2>6. LoadingOK'
    BY <1>4, HelpersTyped DEF AppStarts, LoadingOK
  <2>7. SessionOK'
    BY <1>4 DEF AppStarts, SessionOK
  <2> QED BY <1>4, <2>2, <2>3, <2>4, <2>5, <2>6, <2>7, Frame DEF AppStarts, callVars, scrubVars
<1>5. CASE LaunchFails
  <2>1. job \in Launch
    BY <1>5 DEF LaunchFails, LaunchOK
  <2>2. CallsOK' /\ WindowsOK'
    BY <1>5, <2>1, AnswerTyped DEF LaunchFails
  <2>3. AppOK'
    BY <1>5 DEF LaunchFails, AppOK, AppRecord
  <2>4. LaunchOK'
    BY <1>5 DEF LaunchFails, LaunchOK
  <2>5. LoadingOK'
    BY <1>5, HelpersTyped DEF LaunchFails, LoadingOK
  <2>6. SessionOK'
    BY <1>5, HelpersTyped DEF LaunchFails, SessionOK
  <2> QED BY <1>5, <2>2, <2>3, <2>4, <2>5, <2>6, Frame DEF LaunchFails, callVars, scrubVars
<1>6. CASE DeferredLaunchFails
  <2>1. [app EXCEPT !.rpc = (job.args = "rpc")] \in AppRecord
    BY <1>6 DEF DeferredLaunchFails, AppOK, AppRecord
  <2>2. AppOK' /\ ThreadsOK' /\ LaunchOK' /\ LoadingOK' /\ SessionOK'
    BY <1>6, <2>1, DeferredTyped DEF DeferredLaunchFails, LoadingOK, ThreadsOK, SessionOK,
       scrubVars
  <2> QED BY <1>6, <2>2, Frame DEF DeferredLaunchFails, callVars, scrubVars
<1>7. CASE AppClosedLast
  <2>1. QueueOK' BY <1>7, TakeTyped DEF AppClosedLast, ReapApp
  <2>2. AppOK'
    BY <1>7 DEF AppClosedLast, ClosedApp, AppOK, AppRecord
  <2>3. ThreadsOK'
    BY <1>7 DEF AppClosedLast, ThreadsOK, ThreadStates, Threads, scrubVars
  <2>4. LoadingOK'
    BY <1>7, HelpersTyped DEF AppClosedLast, LoadingOK
  <2>5. SessionOK'
    BY <1>7, HelpersTyped DEF AppClosedLast, ReapApp, SessionOK
  <2>6. WindowsOK'
    BY <1>7, HelpersTyped DEF AppClosedLast, WindowsOK
  <2> QED BY <1>7, <2>1, <2>2, <2>3, <2>4, <2>5, <2>6, Frame DEF AppClosedLast, callVars,
          scrubVars
<1>8. CASE AppClosedNext
  <2>1. QueueOK' BY <1>8, TakeTyped DEF AppClosedNext, ReapApp
  <2>2. ClosedApp \in AppRecord
    BY DEF ClosedApp, AppOK, AppRecord
  <2>3. [thread EXCEPT !["app"] = "none"] \in ThreadStates
    BY DEF ThreadsOK, ThreadStates, Threads
  <2>4. insomnia' \in Int
    BY <1>8 DEF AppClosedNext, ReapApp, SessionOK
  <2>5. AppOK' /\ ThreadsOK' /\ LaunchOK' /\ LoadingOK' /\ SessionOK'
    BY <1>8, <2>2, <2>3, <2>4, HelpersTyped, DeferredTyped DEF AppClosedNext, scrubVars
  <2> QED BY <1>8, <2>1, <2>5, Frame DEF AppClosedNext, callVars, scrubVars
<1>9. CASE Lock
  <2>1. QueueOK' BY <1>9, TakeTyped DEF Lock
  <2>2. Head(queue).from \in Clients
    BY <1>9, TakeTyped, MessageFields DEF Lock
  <2>3. CallsOK'
    BY <1>9, <2>2, UnblockTyped DEF Lock, CallsOK, Callers
  <2>4. AppOK'
    BY <1>9 DEF Lock, AppOK, AppRecord
  <2> QED BY <1>9, <2>1, <2>3, <2>4, Frame DEF Lock, callVars, scrubVars
<1>10. CASE Unlock
  <2>1. QueueOK' BY <1>10, TakeTyped DEF Unlock
  <2>2. AppOK'
    BY <1>10 DEF Unlock, AppOK, AppRecord
  <2> QED BY <1>10, <2>1, <2>2, Frame DEF Unlock, callVars, scrubVars
<1>11. CASE Query
  <2>1. QueueOK' BY <1>11, TakeTyped DEF Query
  <2>2. Head(queue).from \in Callers
    BY <1>11, TakeTyped, MessageFields DEF Query, SyncTypes
  <2>3. CallsOK'
    BY <1>11, <2>2, UnblockTyped DEF Query, CallsOK
  <2> QED BY <1>11, <2>1, <2>3, Frame DEF Query, callVars, scrubVars
<1>12. CASE EnqueueLaunch
  <2>1. QueueOK' BY <1>12, TakeTyped DEF EnqueueLaunch
  <2>2. Head(queue).from \in Callers
    BY <1>12, TakeTyped, MessageFields DEF EnqueueLaunch, SyncTypes
  <2>3. CallsOK'
    BY <1>12, <2>2, UnblockTyped DEF EnqueueLaunch, CallsOK
  <2>4. Deferred(Head(queue).name, Head(queue).args) \in DeferredLaunch
    BY <1>12, TakeTyped, MessageFields DEF EnqueueLaunch, Deferred, DeferredLaunch
  <2>5. LaunchOK'
    BY <1>12, <2>4, SizesAssumption DEF EnqueueLaunch, LaunchQueueFull, LaunchOK
  <2> QED BY <1>12, <2>1, <2>3, <2>5, Frame DEF EnqueueLaunch, callVars, scrubVars
<1>13. CASE EnqueueOverflow
  <2>1. QueueOK' BY <1>13, TakeTyped DEF EnqueueOverflow
  <2>2. LaunchOK'
    BY <1>13 DEF EnqueueOverflow, LaunchOK
  <2> QED BY <1>13, <2>1, <2>2, Frame DEF EnqueueOverflow, callVars, scrubVars
<1>14. CASE ClearLaunchQueue
  <2>1. QueueOK' BY <1>14, TakeTyped DEF ClearLaunchQueue
  <2>2. Head(queue).from \in Callers
    BY <1>14, TakeTyped, MessageFields DEF ClearLaunchQueue, SyncTypes
  <2>3. CallsOK'
    BY <1>14, <2>2, UnblockTyped DEF ClearLaunchQueue, CallsOK
  <2>4. LaunchOK'
    BY <1>14, SizesAssumption DEF ClearLaunchQueue, LaunchOK
  <2> QED BY <1>14, <2>1, <2>3, <2>4, Frame DEF ClearLaunchQueue, callVars, scrubVars
<1>15. CASE ShowMenu
  <2>1. QueueOK' BY <1>15, TakeTyped DEF ShowMenu
  <2>2. ThreadsOK'
    BY <1>15 DEF ShowMenu, ThreadsOK, ThreadStates, Threads, scrubVars
  <2>3. WindowsOK'
    BY <1>15 DEF ShowMenu, WindowsOK
  <2> QED BY <1>15, <2>1, <2>2, <2>3, Frame DEF ShowMenu, callVars, scrubVars
<1>16. CASE SetMenuStyle
  <2>1. QueueOK' BY <1>16, TakeTyped DEF SetMenuStyle
  <2>2. Head(queue).name \in Styles \cup {None}
    BY <1>16, TakeTyped, MessageFields DEF SetMenuStyle
  <2>3. WindowsOK'
    BY <1>16, <2>2 DEF SetMenuStyle, MenuStyleAfter, WindowsOK
  <2> QED BY <1>16, <2>1, <2>3, Frame DEF SetMenuStyle, callVars, scrubVars
<1>17. CASE WindowClosed
  <2>1. QueueOK' BY <1>17, TakeTyped DEF WindowClosed
  <2>2. LaunchOK'
    BY <1>17 DEF WindowClosed, LaunchOK
  <2> QED BY <1>17, <2>1, <2>2, Frame DEF WindowClosed, callVars, scrubVars
<1>18. CASE JoinMenu
  <2>1. ThreadsOK'
    BY <1>18 DEF JoinMenu, ThreadsOK, ThreadStates, Threads, scrubVars
  <2>2. LaunchOK'
    BY <1>18 DEF JoinMenu, LaunchOK
  <2>3. WindowsOK'
    BY <1>18 DEF JoinMenu, WindowsOK
  <2> QED BY <1>18, <2>1, <2>2, <2>3, Frame DEF JoinMenu, callVars, scrubVars
<1>19. CASE JoinApplications
  <2>1. ThreadsOK'
    BY <1>19 DEF JoinApplications, ThreadsOK, ThreadStates, Threads, scrubVars
  <2>2. LaunchOK'
    BY <1>19 DEF JoinApplications, LaunchOK
  <2> QED BY <1>19, <2>1, <2>2, Frame DEF JoinApplications, callVars, scrubVars
<1>20. CASE LoadingCheck
  <2>1. QueueOK' BY <1>20, TakeTyped DEF LoadingCheck
  <2>2. LoadingOK'
    BY <1>20, HelpersTyped DEF LoadingCheck, LoadingOK
  <2> QED BY <1>20, <2>1, <2>2, Frame DEF LoadingCheck, callVars, scrubVars
<1> QED BY <1>1, <1>2, <1>3, <1>4, <1>5, <1>6, <1>7, <1>8, <1>9, <1>10, <1>11, <1>12, <1>13,
       <1>14, <1>15, <1>16, <1>17, <1>18, <1>19, <1>20 DEF LoaderStep

LEMMA OtherStepTyped ==
  ASSUME TypeOK, Scrub \/ ScrubPut \/ TimerTick \/ BrowserWake
  PROVE  TypeOK'
<1> USE DEF TypeOK
<1>1. CASE Scrub
  <2>1. ThreadsOK'
    BY <1>1 DEF Scrub, ThreadsOK, ThreadStates, Threads
  <2> QED BY <1>1, <2>1, Frame DEF Scrub, callVars, scrubVars
<1>2. CASE ScrubPut
  <2>1. AppClosedMsg \in Message
    BY DEF AppClosedMsg, Msg, Message, KernelReport
  <2>2. QueueOK'
    BY <1>2, <2>1, PutTyped DEF ScrubPut
  <2>3. ThreadsOK'
    BY <1>2 DEF ScrubPut, ThreadsOK
  <2> QED BY <1>2, <2>2, <2>3, Frame DEF ScrubPut, callVars, scrubVars
<1>3. CASE TimerTick
  <2>1. LoadingCheckMsg \in Message
    BY DEF LoadingCheckMsg, Msg, Message, KernelReport
  <2>2. QueueOK'
    BY <1>3, <2>1, PutTyped, Frame DEF TimerTick
  <2>3. LoadingOK'
    BY <1>3, SizesAssumption DEF TimerTick, LoadingOK, LoadingRecord
  <2> QED BY <1>3, <2>2, <2>3, Frame DEF TimerTick, callVars, scrubVars
<1>4. CASE BrowserWake
  <2>1. WindowsOK'
    BY <1>4 DEF BrowserWake, WindowsOK, BrowserRecord
  <2> QED BY <1>4, <2>1, Frame DEF BrowserWake, callVars, scrubVars
<1> QED BY <1>1, <1>2, <1>3, <1>4

\* One step of a caller, of any thread it may be.
LEMMA CallerStepTyped ==
  ASSUME TypeOK, NEW c \in Callers,
         \/ \E m \in Message : Request(c, m)
         \/ EnqueueNull(c)
         \/ Put(c)
         \/ c \in Threads /\ ThreadExit(c)
  PROVE  TypeOK'
<1> USE DEF TypeOK
<1>1. CASE \E m \in Message : Request(c, m)
  <2> PICK m \in Message : Request(c, m) BY <1>1
  <2>1. CallsOK' BY DEF Request, CallsOK
  <2>2. WindowsOK' BY DEF Request, WindowsOK, BrowserRecord
  <2> QED BY <2>1, <2>2, Frame DEF Request, scrubVars
<1>2. CASE EnqueueNull(c)
  <2>1. LaunchOK' BY <1>2 DEF EnqueueNull, LaunchOK
  <2> QED BY <1>2, <2>1, Frame DEF EnqueueNull, callVars, scrubVars
<1>3. CASE Put(c)
  <2>1. callMsg[c] \in Message BY <1>3 DEF Put, CallsOK
  <2>2. QueueOK' BY <1>3, <2>1, PutTyped DEF Put
  <2>3. CallsOK' BY <1>3 DEF Put, CallsOK
  <2>4. ThreadsOK' BY <1>3 DEF Put, ThreadsOK, ThreadStates, scrubVars
  <2> QED BY <1>3, <2>2, <2>3, <2>4, Frame DEF Put, scrubVars
<1>4. CASE c \in Threads /\ ThreadExit(c)
  <2>1. ThreadsOK' BY <1>4 DEF ThreadExit, ThreadsOK, ThreadStates
  <2> QED BY <1>4, <2>1, Frame DEF ThreadExit, callVars
<1> QED BY <1>1, <1>2, <1>3, <1>4

LEMMA NextTyped == TypeOK /\ [Next]_vars => TypeOK'
<1> SUFFICES ASSUME TypeOK, [Next]_vars PROVE TypeOK' OBVIOUS
<1>1. CASE ClientRequest
  BY <1>1, RequestTyped, CallerStepTyped DEF ClientRequest, Callers
<1>2. CASE ThreadRequest
  BY <1>2, RequestTyped, CallerStepTyped DEF ThreadRequest, Callers
<1>3. CASE \E c \in Callers : EnqueueNull(c) \/ Put(c)
  BY <1>3, CallerStepTyped
<1>4. CASE \E t \in Threads : ThreadExit(t)
  BY <1>4, CallerStepTyped DEF Callers
<1>5. CASE LoaderStep
  BY <1>5, LoaderStepTyped
<1>6. CASE Scrub \/ ScrubPut \/ TimerTick \/ BrowserWake
  BY <1>6, OtherStepTyped
<1>7. CASE UNCHANGED vars
  BY <1>7, Frame DEF vars, TypeOK
<1> QED BY <1>1, <1>2, <1>3, <1>4, <1>5, <1>6, <1>7 DEF Next, UserStep, SystemStep, Halted

\* Type correctness of the loader, whatever its clients do.
THEOREM LoaderTyped == Spec => []TypeOK
<1>1. Init => TypeOK BY InitTyped
<1>2. TypeOK /\ [Next]_vars => TypeOK' BY NextTyped
<1> QED BY <1>1, <1>2, PTL DEF Spec
=============================================================================
