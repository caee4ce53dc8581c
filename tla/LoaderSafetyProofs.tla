------------------------- MODULE LoaderSafetyProofs -------------------------
(* The safety invariants of the loader service, proved together for every    *)
(* set of clients, applications and styles and every size of its queues.     *)
EXTENDS LoaderProofs

\* The inductive invariant. LockExclusive needs ReplyAwaited, for an answer
\* that found its caller blocked in put would lose that caller's unlock;
\* ReplyAwaited and ClosedOnce need OwnMessages; LoadingAccounted needs the
\* brackets of a launch to be open only when it is deferred.
LoaderInv ==
    /\ TypeOK
    /\ ClosedOnce
    /\ LockExclusive
    /\ ReplyAwaited
    /\ OwnMessages
    /\ LaunchBracketed
    /\ DirectUnbracketed
    /\ LoadingAccounted
    /\ DepthBounded

-----------------------------------------------------------------------------
(* The queue: what taking and putting do to the messages of one type.        *)

LEMMA TailIndex ==
  ASSUME NEW T, NEW s \in Seq(T), s # <<>>
  PROVE  /\ Len(Tail(s)) = Len(s) - 1
         /\ \A i \in 1 .. Len(s) - 1 : Tail(s)[i] = s[i + 1]
         /\ Len(s) \in Nat \ {0}
         /\ Head(s) = s[1]
  OBVIOUS

LEMMA AppendIndex ==
  ASSUME NEW T, NEW s \in Seq(T), NEW e \in T
  PROVE  /\ Len(Append(s, e)) = Len(s) + 1
         /\ \A i \in 1 .. Len(s) : Append(s, e)[i] = s[i]
         /\ Append(s, e)[Len(s) + 1] = e
         /\ Len(s) \in Nat
  OBVIOUS

LEMMA TakeIndex ==
  ASSUME QueueOK, NEW S, Take(S)
  PROVE  /\ Len(queue') = Len(queue) - 1
         /\ \A i \in 1 .. Len(queue') : queue'[i] = queue[i + 1]
         /\ Len(queue) \in Nat \ {0}
         /\ Head(queue) = queue[1]
  BY TailIndex DEF QueueOK, Take

LEMMA TakeHas ==
  ASSUME QueueOK, NEW S, Take(S), NEW t
  PROVE  /\ t # Head(queue).type => (Queued(t)' <=> Queued(t))
         /\ t = Head(queue).type => Queued(t)
         /\ t = Head(queue).type /\ QueuedOnce(t) => ~Queued(t)'
         /\ QueuedOnce(t) => QueuedOnce(t)'
<1> DEFINE n == Len(queue)
<1>1. n \in Nat \ {0} /\ Len(queue') = n - 1 /\ Head(queue) = queue[1]
      /\ \A i \in 1 .. n - 1 : queue'[i] = queue[i + 1]
  BY TakeIndex
<1>2. t # Head(queue).type => (Queued(t)' <=> Queued(t))
  <2>1. Queued(t)' => Queued(t)
    BY <1>1 DEF Queued
  <2>2. ASSUME t # Head(queue).type, NEW i \in 1 .. n, queue[i].type = t
        PROVE  Queued(t)'
    <3>1. i - 1 \in 1 .. n - 1 /\ queue'[i - 1] = queue[i] BY <1>1, <2>2
    <3> QED BY <1>1, <2>2, <3>1 DEF Queued
  <2> QED BY <2>1, <2>2 DEF Queued
<1>3. t = Head(queue).type => Queued(t)
  BY <1>1 DEF Queued
<1>4. t = Head(queue).type /\ QueuedOnce(t) => ~Queued(t)'
  <2> SUFFICES ASSUME t = Head(queue).type, QueuedOnce(t), NEW i \in 1 .. n - 1,
                      queue'[i].type = t
               PROVE  FALSE
    BY <1>1 DEF Queued
  <2> QED BY <1>1 DEF QueuedOnce
<1>5. QueuedOnce(t) => QueuedOnce(t)'
  <2> SUFFICES ASSUME QueuedOnce(t), NEW i \in 1 .. n - 1, NEW j \in 1 .. n - 1,
                      queue'[i].type = t, queue'[j].type = t
               PROVE  i = j
    BY <1>1 DEF QueuedOnce
  <2>1. queue[i + 1].type = t /\ queue[j + 1].type = t BY <1>1
  <2> QED BY <1>1, <2>1 DEF QueuedOnce
<1> QED BY <1>2, <1>3, <1>4, <1>5

LEMMA PutHas ==
  ASSUME QueueOK, NEW m \in Message, queue' = Append(queue, m), NEW t
  PROVE  /\ t # m.type => (Queued(t)' <=> Queued(t)) /\ (QueuedOnce(t) => QueuedOnce(t)')
         /\ t = m.type => Queued(t)' /\ (~Queued(t) => QueuedOnce(t)')
<1> DEFINE n == Len(queue)
<1>1. n \in Nat /\ Len(queue') = n + 1 /\ queue'[n + 1] = m
      /\ \A i \in 1 .. n : queue'[i] = queue[i]
  BY AppendIndex DEF QueueOK
<1>2. t # m.type => (Queued(t)' <=> Queued(t))
  BY <1>1 DEF Queued
<1>3. t # m.type /\ QueuedOnce(t) => QueuedOnce(t)'
  BY <1>1 DEF QueuedOnce
<1>4. t = m.type => Queued(t)'
  BY <1>1 DEF Queued
<1>5. t = m.type /\ ~Queued(t) => QueuedOnce(t)'
  BY <1>1 DEF Queued, QueuedOnce
<1> QED BY <1>2, <1>3, <1>4, <1>5

-----------------------------------------------------------------------------
(* What a step has to leave alone for each invariant to go on holding.       *)

\* The reports that count, AppClosed and Unlock, are as many as before.
QueueQuiet ==
    \A t \in {"AppClosed", "Unlock"} :
       (Queued(t)' <=> Queued(t)) /\ (QueuedOnce(t) => QueuedOnce(t)')

LEMMA QuietSteps ==
  ASSUME QueueOK
  PROVE  /\ UNCHANGED queue => QueueQuiet
         /\ \A S : Take(S) /\ S \cap {"AppClosed", "Unlock"} = {} => QueueQuiet
         /\ \A m \in Message : queue' = Append(queue, m)
              /\ m.type \notin {"AppClosed", "Unlock"} => QueueQuiet
<1>1. UNCHANGED queue => QueueQuiet
  BY DEF QueueQuiet, Queued, QueuedOnce
<1>2. ASSUME NEW S, Take(S), S \cap {"AppClosed", "Unlock"} = {} PROVE QueueQuiet
  <2>1. Head(queue).type \in S BY <1>2 DEF Take
  <2> QED BY <1>2, <2>1, TakeHas DEF QueueQuiet
<1>3. ASSUME NEW m \in Message, queue' = Append(queue, m),
             m.type \notin {"AppClosed", "Unlock"}
      PROVE  QueueQuiet
  BY <1>3, PutHas DEF QueueQuiet
<1> QED BY <1>1, <1>2, <1>3

LEMMA ClosedFrame ==
  ASSUME ClosedOnce, QueueQuiet, app'.thread = "APP" <=> app.thread = "APP",
         thread'["app"] = thread["app"], UNCHANGED scrubVars
  PROVE  ClosedOnce'
  BY DEF ClosedOnce, QueueQuiet, IsAppRunning, AppInScrubQueue, AppInScrubQueueOnce, scrubVars

LEMMA LockFrame ==
  ASSUME LockExclusive, QueueQuiet, app'.thread = "MAGIC" <=> app.thread = "MAGIC",
         UNCHANGED <<holds, Unlocking>>
  PROVE  LockExclusive'
  BY DEF LockExclusive, QueueQuiet

\* A caller that was blocked on an answer goes on; no unlock is lost by it.
LEMMA UnlockingFrame ==
  ASSUME UNCHANGED callMsg,
         \/ UNCHANGED callPc
         \/ \E c \in Callers : callPc[c] = "wait" /\ callPc' = [callPc EXCEPT ![c] = "idle"],
         CallsOK
  PROVE  UNCHANGED Unlocking
  BY DEF Unlocking, CallsOK

\* The messages left after one is taken.
LEMMA ReplyShifted ==
  ASSUME QueueOK, ReplyAwaited, UNCHANGED callPc, NEW S, Take(S)
  PROVE  /\ \A i \in 1 .. Len(queue') :
              queue'[i].type \in SyncTypes => callPc'[queue'[i].from] = "wait"
         /\ \A i, j \in 1 .. Len(queue') :
              queue'[i].type \in SyncTypes /\ queue'[j].type \in SyncTypes
                /\ queue'[i].from = queue'[j].from => i = j
<1>1. /\ Len(queue') = Len(queue) - 1 /\ Len(queue) \in Nat
      /\ \A i \in 1 .. Len(queue') : i + 1 \in 1 .. Len(queue) /\ queue'[i] = queue[i + 1]
  BY TakeIndex
<1>2. \A i \in 1 .. Len(queue') :
        queue'[i].type \in SyncTypes => callPc'[queue'[i].from] = "wait"
  BY <1>1 DEF ReplyAwaited
<1>3. \A i, j \in 1 .. Len(queue') :
        queue'[i].type \in SyncTypes /\ queue'[j].type \in SyncTypes
          /\ queue'[i].from = queue'[j].from => i = j
  BY <1>1 DEF ReplyAwaited
<1> QED BY <1>2, <1>3

\* Neither the calls nor the launch under way change.
LEMMA ReplyFrame ==
  ASSUME QueueOK, ReplyAwaited, UNCHANGED callPc,
         UNCHANGED <<pc, job>> \/ pc' # "before_load",
         \/ UNCHANGED queue
         \/ \E S : Take(S)
         \/ \E m \in Message : m.type \notin SyncTypes /\ queue' = Append(queue, m)
  PROVE  ReplyAwaited'
<1>1. CASE UNCHANGED queue
  BY <1>1 DEF ReplyAwaited
<1>2. CASE \E S : Take(S)
  <2> PICK S : Take(S) BY <1>2
  <2>1. pc' # "before_load" BY DEF Take
  <2> QED BY <2>1, ReplyShifted DEF ReplyAwaited
<1>3. CASE \E m \in Message : m.type \notin SyncTypes /\ queue' = Append(queue, m)
  <2> PICK m \in Message : m.type \notin SyncTypes /\ queue' = Append(queue, m) BY <1>3
  <2>1. /\ Len(queue) \in Nat /\ Len(queue') = Len(queue) + 1
        /\ queue'[Len(queue) + 1] = m
        /\ \A i \in 1 .. Len(queue) : queue'[i] = queue[i]
    BY AppendIndex DEF QueueOK
  <2> QED BY <2>1 DEF ReplyAwaited
<1> QED BY <1>1, <1>2, <1>3

\* The handler of a synchronous request answers it.
LEMMA ReplyTaken ==
  ASSUME QueueOK, CallsOK, ReplyAwaited, NEW S, Take(S),
         Head(queue).type \in SyncTypes, Unblock(Head(queue).from),
         UNCHANGED <<pc, job>>
  PROVE  ReplyAwaited' /\ callPc[Head(queue).from] = "wait"
<1> DEFINE n == Len(queue)  c == Head(queue).from
<1>1. n \in Nat \ {0} /\ Len(queue') = n - 1 /\ Head(queue) = queue[1]
      /\ \A i \in 1 .. n - 1 : i + 1 \in 1 .. n /\ i + 1 # 1 /\ queue'[i] = queue[i + 1]
  BY TakeIndex
<1>2. callPc[c] = "wait" /\ 1 \in 1 .. n
  BY <1>1 DEF ReplyAwaited
<1>3. \A i \in 1 .. n - 1 : queue'[i].type \in SyncTypes => queue'[i].from # c
  BY <1>1, <1>2 DEF ReplyAwaited
<1>4. \A d : d # c => callPc'[d] = callPc[d]
  BY DEF Unblock, CallsOK
<1>5. pc' # "before_load" BY DEF Take
<1>6. \A i \in 1 .. n - 1 : queue'[i].type \in SyncTypes => callPc'[queue'[i].from] = "wait"
  <2> SUFFICES ASSUME NEW i \in 1 .. n - 1, queue'[i].type \in SyncTypes
               PROVE  callPc'[queue'[i].from] = "wait"
    OBVIOUS
  <2>1. queue'[i] = queue[i + 1] /\ i + 1 \in 1 .. n BY <1>1
  <2>2. callPc[queue'[i].from] = "wait" BY <2>1 DEF ReplyAwaited
  <2> QED BY <1>3, <1>4, <2>2
<1>7. \A i, j \in 1 .. n - 1 :
        queue'[i].type \in SyncTypes /\ queue'[j].type \in SyncTypes
          /\ queue'[i].from = queue'[j].from => i = j
  BY <1>1 DEF ReplyAwaited
<1> QED BY <1>1, <1>2, <1>5, <1>6, <1>7 DEF ReplyAwaited

\* The launch a caller waits for is announced, and answered.
LEMMA ReplyAnnounced ==
  ASSUME QueueOK, ReplyAwaited, NEW S, Take(S), UNCHANGED callPc, job' = Head(queue)
  PROVE  ReplyAwaited'
<1> DEFINE n == Len(queue)
<1>1. n \in Nat \ {0} /\ Len(queue') = n - 1 /\ Head(queue) = queue[1] /\ 1 \in 1 .. n
      /\ \A i \in 1 .. n - 1 : i + 1 \in 1 .. n /\ i + 1 # 1 /\ queue'[i] = queue[i + 1]
  BY TakeIndex
<1> QED BY <1>1 DEF ReplyAwaited, SyncTypes

LEMMA ReplyAnswered ==
  ASSUME CallsOK, ReplyAwaited, NEW ok, NEW b, AnswerLaunch(job, ok, b),
         pc = "before_load", pc' = "idle", UNCHANGED queue
  PROVE  ReplyAwaited'
<1>1. CASE job.type = "StartByName"
  <2>1. \A d : d # job.from => callPc'[d] = callPc[d]
    BY <1>1 DEF AnswerLaunch, CallsOK
  <2> QED BY <1>1, <2>1 DEF ReplyAwaited
<1>2. CASE job.type # "StartByName"
  BY <1>2 DEF ReplyAwaited, AnswerLaunch
<1> QED BY <1>1, <1>2

\* A caller that is not waiting moves, and what it puts is its own.
LEMMA ReplyCaller ==
  ASSUME QueueOK, CallsOK, ReplyAwaited, NEW c \in Callers, callPc[c] # "wait",
         NEW x, callPc' = [callPc EXCEPT ![c] = x], UNCHANGED <<pc, job>>,
         NEW m \in Message, m.type \in SyncTypes => m.from = c,
         \/ UNCHANGED queue
         \/ queue' = Append(queue, m) /\ (m.type \in SyncTypes => x = "wait")
  PROVE  ReplyAwaited'
<1> USE SizesAssumption
<1>1. \A d : d # c => callPc'[d] = callPc[d]
  BY DEF CallsOK
<1>2. \A i \in 1 .. Len(queue) : queue[i].type \in SyncTypes => queue[i].from # c
  BY DEF ReplyAwaited
<1>3. pc = "before_load" /\ job.type = "StartByName" => job.from # c
  BY DEF ReplyAwaited
<1>4. CASE UNCHANGED queue
  BY <1>1, <1>2, <1>3, <1>4 DEF ReplyAwaited
<1>5. CASE queue' = Append(queue, m) /\ (m.type \in SyncTypes => x = "wait")
  <2>1. /\ Len(queue) \in Nat /\ Len(queue') = Len(queue) + 1
        /\ queue'[Len(queue) + 1] = m
        /\ \A i \in 1 .. Len(queue) : queue'[i] = queue[i]
    BY <1>5, AppendIndex DEF QueueOK
  <2>2. callPc'[c] = x BY DEF CallsOK
  <2>3. \A i \in 1 .. Len(queue') :
          queue'[i].type \in SyncTypes =>
            /\ callPc'[queue'[i].from] = "wait"
            /\ queue'[i].from = c => i = Len(queue) + 1
            /\ i \in 1 .. Len(queue) \/ i = Len(queue) + 1
    <3> SUFFICES ASSUME NEW i \in 1 .. Len(queue'), queue'[i].type \in SyncTypes
                 PROVE  /\ callPc'[queue'[i].from] = "wait"
                        /\ queue'[i].from = c => i = Len(queue) + 1
                        /\ i \in 1 .. Len(queue) \/ i = Len(queue) + 1
      OBVIOUS
    <3>1. CASE i \in 1 .. Len(queue)
      <4>1. queue'[i] = queue[i] /\ queue[i].from # c BY <1>2, <2>1, <3>1
      <4>2. callPc[queue[i].from] = "wait" BY <3>1, <4>1 DEF ReplyAwaited
      <4> QED BY <1>1, <3>1, <4>1, <4>2
    <3>2. CASE i = Len(queue) + 1
      BY <1>5, <2>1, <2>2, <3>2
    <3> QED BY <2>1, <3>1, <3>2
  <2>4. \A i, j \in 1 .. Len(queue') :
          queue'[i].type \in SyncTypes /\ queue'[j].type \in SyncTypes
            /\ queue'[i].from = queue'[j].from => i = j
    BY <2>1, <2>3 DEF ReplyAwaited
  <2>5. pc' = "before_load" /\ job'.type = "StartByName" =>
          /\ callPc'[job'.from] = "wait"
          /\ \A i \in 1 .. Len(queue') :
               queue'[i].type \in SyncTypes => queue'[i].from # job'.from
    <3> SUFFICES ASSUME pc' = "before_load", job'.type = "StartByName"
                 PROVE  /\ callPc'[job'.from] = "wait"
                        /\ \A i \in 1 .. Len(queue') :
                             queue'[i].type \in SyncTypes => queue'[i].from # job'.from
      OBVIOUS
    <3>1. callPc[job.from] = "wait" /\ job.from # c BY <1>3 DEF ReplyAwaited
    <3>2. callPc'[job'.from] = "wait" BY <1>1, <3>1
    <3>3. ASSUME NEW i \in 1 .. Len(queue'), queue'[i].type \in SyncTypes
          PROVE  queue'[i].from # job'.from
      <4>1. CASE i \in 1 .. Len(queue)
        BY <2>1, <3>3, <4>1 DEF ReplyAwaited
      <4>2. CASE i = Len(queue) + 1
        BY <2>1, <3>1, <3>3, <4>2
      <4> QED BY <2>1, <4>1, <4>2
    <3> QED BY <3>2, <3>3
  <2> QED BY <2>3, <2>4, <2>5 DEF ReplyAwaited
<1> QED BY <1>4, <1>5

\* The scrub thread's queue: a thread leaves it, a thread enters it.
LEMMA ScrubTaken ==
  ASSUME ThreadsOK, scrubQueue # <<>>, scrubQueue' = Tail(scrubQueue)
  PROVE  /\ Head(scrubQueue) # "app" => (AppInScrubQueue' <=> AppInScrubQueue)
         /\ Head(scrubQueue) = "app" => AppInScrubQueue
         /\ Head(scrubQueue) = "app" /\ AppInScrubQueueOnce => ~AppInScrubQueue'
         /\ AppInScrubQueueOnce => AppInScrubQueueOnce'
<1> DEFINE n == Len(scrubQueue)
<1>1. n \in Nat \ {0} /\ Len(scrubQueue') = n - 1 /\ Head(scrubQueue) = scrubQueue[1]
      /\ \A i \in 1 .. n - 1 : scrubQueue'[i] = scrubQueue[i + 1]
  BY TailIndex DEF ThreadsOK
<1>2. AppInScrubQueue' => AppInScrubQueue
  BY <1>1 DEF AppInScrubQueue
<1>3. ASSUME Head(scrubQueue) # "app", NEW i \in 1 .. n, scrubQueue[i] = "app"
      PROVE  AppInScrubQueue'
  <2>1. i - 1 \in 1 .. n - 1 /\ scrubQueue'[i - 1] = scrubQueue[i] BY <1>1, <1>3
  <2> QED BY <1>1, <1>3, <2>1 DEF AppInScrubQueue
<1>4. Head(scrubQueue) = "app" => AppInScrubQueue
  BY <1>1 DEF AppInScrubQueue
<1>5. Head(scrubQueue) = "app" /\ AppInScrubQueueOnce => ~AppInScrubQueue'
  <2> SUFFICES ASSUME Head(scrubQueue) = "app", AppInScrubQueueOnce,
                      NEW i \in 1 .. n - 1, scrubQueue'[i] = "app"
               PROVE  FALSE
    BY <1>1 DEF AppInScrubQueue
  <2> QED BY <1>1 DEF AppInScrubQueueOnce
<1>6. AppInScrubQueueOnce => AppInScrubQueueOnce'
  <2> SUFFICES ASSUME AppInScrubQueueOnce, NEW i \in 1 .. n - 1, NEW j \in 1 .. n - 1,
                      scrubQueue'[i] = "app", scrubQueue'[j] = "app"
               PROVE  i = j
    BY <1>1 DEF AppInScrubQueueOnce
  <2>1. scrubQueue[i + 1] = "app" /\ scrubQueue[j + 1] = "app" BY <1>1
  <2> QED BY <1>1, <2>1 DEF AppInScrubQueueOnce
<1> QED BY <1>2, <1>3, <1>4, <1>5, <1>6 DEF AppInScrubQueue

LEMMA ScrubAdded ==
  ASSUME ThreadsOK, NEW t \in Threads, scrubQueue' = Append(scrubQueue, t)
  PROVE  /\ t # "app" => (AppInScrubQueue' <=> AppInScrubQueue)
                         /\ (AppInScrubQueueOnce => AppInScrubQueueOnce')
         /\ t = "app" => AppInScrubQueue' /\ (~AppInScrubQueue => AppInScrubQueueOnce')
<1> DEFINE n == Len(scrubQueue)
<1>1. n \in Nat /\ Len(scrubQueue') = n + 1 /\ scrubQueue'[n + 1] = t
      /\ \A i \in 1 .. n : scrubQueue'[i] = scrubQueue[i]
  BY AppendIndex DEF ThreadsOK
<1>2. t # "app" => (AppInScrubQueue' <=> AppInScrubQueue)
  BY <1>1 DEF AppInScrubQueue
<1>3. t # "app" /\ AppInScrubQueueOnce => AppInScrubQueueOnce'
  BY <1>1 DEF AppInScrubQueueOnce
<1>4. t = "app" => AppInScrubQueue'
  BY <1>1 DEF AppInScrubQueue
<1>5. t = "app" /\ ~AppInScrubQueue => AppInScrubQueueOnce'
  BY <1>1 DEF AppInScrubQueue, AppInScrubQueueOnce
<1> QED BY <1>2, <1>3, <1>4, <1>5

\* The parts of the invariant a step keeps by leaving their variables alone.
LEMMA SafeFrame ==
  ASSUME LoaderInv
  PROVE  /\ QueueQuiet /\ app'.thread = app.thread /\ thread'["app"] = thread["app"]
              /\ UNCHANGED scrubVars => ClosedOnce'
         /\ QueueQuiet /\ app'.thread = app.thread /\ UNCHANGED <<holds, Unlocking>>
              => LockExclusive'
         /\ UNCHANGED <<callPc, callMsg>> => OwnMessages' /\ UNCHANGED Unlocking
         /\ pc' # "before_load" => LaunchBracketed' /\ DirectUnbracketed'
         /\ UNCHANGED <<pc, job, loading, session>> /\ app'.thread = app.thread
              => LaunchBracketed' /\ DirectUnbracketed'
         /\ UNCHANGED loading /\ app'.thread = app.thread /\ app'.rpc = app.rpc
              /\ (UNCHANGED pc \/ pc = "idle") => LoadingAccounted'
         /\ UNCHANGED <<loading, launchQueue>> => DepthBounded'
<1> USE DEF LoaderInv
<1>1. QueueQuiet /\ app'.thread = app.thread /\ thread'["app"] = thread["app"]
        /\ UNCHANGED scrubVars => ClosedOnce'
  BY ClosedFrame
<1>2. QueueQuiet /\ app'.thread = app.thread /\ UNCHANGED <<holds, Unlocking>>
        => LockExclusive'
  BY LockFrame
<1>3. UNCHANGED <<callPc, callMsg>> => OwnMessages' /\ UNCHANGED Unlocking
  BY DEF OwnMessages, Unlocking
<1>4. /\ pc' # "before_load" => LaunchBracketed' /\ DirectUnbracketed'
      /\ UNCHANGED <<pc, job, loading, session>> /\ app'.thread = app.thread
              => LaunchBracketed' /\ DirectUnbracketed'
  BY DEF LaunchBracketed, DirectUnbracketed
<1>5. UNCHANGED loading /\ app'.thread = app.thread /\ app'.rpc = app.rpc
        /\ (UNCHANGED pc \/ pc = "idle") => LoadingAccounted'
  BY DEF LoadingAccounted, IsAppRunning
<1>6. UNCHANGED <<loading, launchQueue>> => DepthBounded'
  BY DEF DepthBounded
<1> QED BY <1>1, <1>2, <1>3, <1>4, <1>5, <1>6

\* An answered caller was waiting: its answer loses no unlock and no message.
LEMMA AnswerSafe ==
  ASSUME LoaderInv, UNCHANGED callMsg, NEW j, NEW ok, NEW b, AnswerLaunch(j, ok, b),
         j.type = "StartByName" => j.from \in Callers /\ callPc[j.from] = "wait"
  PROVE  UNCHANGED Unlocking /\ OwnMessages'
<1> USE DEF LoaderInv, TypeOK
<1>1. \/ UNCHANGED callPc
      \/ \E c \in Callers : callPc[c] = "wait" /\ callPc' = [callPc EXCEPT ![c] = "idle"]
  BY DEF AnswerLaunch
<1>2. UNCHANGED Unlocking BY <1>1, UnlockingFrame
<1>3. OwnMessages' BY <1>1 DEF OwnMessages, CallsOK
<1> QED BY <1>2, <1>3

LEMMA UnblockSafe ==
  ASSUME LoaderInv, UNCHANGED callMsg, NEW c \in Callers, callPc[c] = "wait", Unblock(c)
  PROVE  UNCHANGED Unlocking /\ OwnMessages'
<1> USE DEF LoaderInv, TypeOK
<1>1. UNCHANGED Unlocking BY UnlockingFrame DEF Unblock
<1>2. OwnMessages' BY DEF OwnMessages, CallsOK, Unblock
<1> QED BY <1>1, <1>2

\* The handler of a direct launch answers at once.
LEMMA ReplyAnsweredNow ==
  ASSUME LoaderInv, NEW ok, NEW b, NEW S, Take(S), AnswerLaunch(Head(queue), ok, b),
         Head(queue).type # "StartByName" \/ Head(queue).from \in Callers,
         UNCHANGED <<pc, job>>
  PROVE  ReplyAwaited'
<1> USE DEF LoaderInv, TypeOK
<1>1. CASE Head(queue).type = "StartByName"
  <2>1. Unblock(Head(queue).from) /\ Head(queue).type \in SyncTypes
    BY <1>1 DEF AnswerLaunch, Unblock, SyncTypes
  <2> QED BY <2>1, ReplyTaken
<1>2. CASE Head(queue).type # "StartByName"
  BY <1>2, ReplyFrame DEF AnswerLaunch
<1> QED BY <1>1, <1>2

\* Dropping a hold outside every bracket takes the view down.
LEMMA DropSafe ==
  ASSUME LoaderInv
  PROVE  /\ DropLoading.depth = loading.depth /\ DropLoading.held = FALSE
         /\ loading' = DropLoading /\ UNCHANGED launchQueue => DepthBounded'
         /\ loading' = DropLoading /\ loading.depth = 0 => LoadingAccounted'
<1> USE DEF LoaderInv, TypeOK
<1>1. DropLoading.depth = loading.depth
  BY DEF DropLoading
<1>2. DropLoading.held = FALSE
  BY DEF DropLoading, LoadingOK, LoadingRecord
<1>3. loading.depth = 0 => ~DropLoading.view
  <2>1. (loading.depth > 0) \in BOOLEAN /\ loading.depth \in Nat
    BY DEF LoadingOK, LoadingRecord
  <2>2. loading.depth = 0 => ~(loading.depth > 0) BY <2>1
  <2> QED BY <2>2 DEF DropLoading, LoadingAccounted
<1> QED BY <1>1, <1>2, <1>3 DEF DepthBounded, LoadingAccounted

\* The next deferred launch, from a state with no application and no hold.
LEMMA DeferredSafe ==
  ASSUME LoaderInv, NEW l \in LoadingRecord, NEW a \in AppRecord, NEW th \in ThreadStates,
         LaunchNextDeferred(l, a, th), l.depth = loading.depth, l.held = FALSE,
         a.thread = "NULL", LaunchOK', pc = "before_load" => session = "open"
  PROVE  /\ app'.thread = "NULL" /\ thread'["app"] = th["app"]
         /\ LaunchBracketed' /\ DirectUnbracketed' /\ LoadingAccounted' /\ DepthBounded'
<1> USE DEF LoaderInv, TypeOK
<1>1. app'.thread = "NULL"
  BY DEF LaunchNextDeferred, AppRecord
<1>2. thread'["app"] = th["app"]
  BY DEF LaunchNextDeferred, ApplicationsShown, ThreadStates, Threads
<1>3. /\ Head(launchQueue).type = "Deferred" /\ Len(launchQueue) \in Nat
      /\ Len(launchQueue') = Len(launchQueue) - 1
  <2>1. launchQueue # <<>> /\ launchQueue' = Tail(launchQueue)
    BY DEF LaunchNextDeferred, QueuePop
  <2>2. launchQueue \in Seq(DeferredLaunch) BY DEF LaunchOK
  <2>3. Head(launchQueue) \in DeferredLaunch BY <2>1, <2>2
  <2> QED BY <2>1, <2>2, <2>3, TailIndex DEF DeferredLaunch
<1>4. LaunchBracketed' /\ DirectUnbracketed'
  BY <1>1, <1>3 DEF LaunchNextDeferred, PublishBeforeLoad, LaunchBracketed, DirectUnbracketed
<1>5. LoadingAccounted'
  BY <1>1 DEF LaunchNextDeferred, PublishBeforeLoad, LoadingAccounted, ShowLoading,
     HideLoading, LoadingRecord, IsAppRunning
<1>6. DepthBounded'
  BY <1>3, SizesAssumption DEF LaunchNextDeferred, ShowLoading, HideLoading, DepthBounded,
     LaunchOK, LoadingOK, LoadingRecord
<1> QED BY <1>1, <1>2, <1>4, <1>5, <1>6

LEMMA ReplyDeferred ==
  ASSUME LoaderInv, NEW l, NEW a, NEW th, LaunchNextDeferred(l, a, th), UNCHANGED callPc,
         UNCHANGED queue \/ \E S : Take(S)
  PROVE  ReplyAwaited'
<1> USE DEF LoaderInv, TypeOK
<1>1. Head(launchQueue).type = "Deferred"
  <2>1. launchQueue # <<>> BY DEF LaunchNextDeferred
  <2>2. Head(launchQueue) \in DeferredLaunch BY <2>1 DEF LaunchOK
  <2> QED BY <2>2 DEF DeferredLaunch
<1>2. pc' = "before_load" => job'.type # "StartByName"
  BY <1>1 DEF LaunchNextDeferred, PublishBeforeLoad
<1>3. CASE UNCHANGED queue
  BY <1>2, <1>3 DEF ReplyAwaited
<1>4. CASE \E S : Take(S)
  <2> PICK S : Take(S) BY <1>4
  <2> QED BY <1>2, ReplyShifted DEF ReplyAwaited
<1> QED BY <1>3, <1>4

LEMMA LoaderStepSafe == LoaderInv /\ LoaderStep => LoaderInv'
<1> SUFFICES ASSUME LoaderInv, LoaderStep PROVE LoaderInv' OBVIOUS
<1>0. TypeOK /\ TypeOK' BY LoaderStepTyped DEF LoaderInv
<1> USE DEF LoaderInv, TypeOK
<1>1. CASE StartRejected
  <2>1. QueueQuiet
    BY <1>1, QuietSteps DEF StartRejected
  <2>2. Head(queue) \in Message /\ (Head(queue).type = "StartByName" =>
          Head(queue).from \in Callers /\ callPc[Head(queue).from] = "wait")
    BY <1>1, TakeTyped, MessageFields, TakeIndex DEF StartRejected, ReplyAwaited, SyncTypes
  <2>3. UNCHANGED Unlocking /\ OwnMessages'
    BY <1>1, <2>2, AnswerSafe DEF StartRejected
  <2>4. ReplyAwaited'
    BY <1>1, <2>2, ReplyAnsweredNow DEF StartRejected
  <2>5. pc' # "before_load"
    BY <1>1 DEF StartRejected, Take
  <2> QED BY <1>0, <1>1, <2>1, <2>2, <2>3, <2>4, <2>5, SafeFrame DEF StartRejected, callVars,
     scrubVars
<1>2. CASE StartApplications
  <2>1. QueueQuiet
    BY <1>2, QuietSteps DEF StartApplications
  <2>2. Head(queue) \in Message /\ (Head(queue).type = "StartByName" =>
          Head(queue).from \in Callers /\ callPc[Head(queue).from] = "wait")
    BY <1>2, TakeTyped, MessageFields, TakeIndex DEF StartApplications, ReplyAwaited, SyncTypes
  <2>3. UNCHANGED Unlocking /\ OwnMessages'
    BY <1>2, <2>2, AnswerSafe DEF StartApplications
  <2>4. ReplyAwaited'
    BY <1>2, <2>2, ReplyAnsweredNow DEF StartApplications
  <2>5. app'.thread = app.thread /\ app'.rpc = app.rpc /\ thread'["app"] = thread["app"]
    BY <1>2 DEF StartApplications, AppOK, AppRecord, ThreadsOK, ThreadStates,
       ApplicationsShown, Threads
  <2> QED BY <1>0, <1>2, <2>1, <2>2, <2>3, <2>4, <2>5, SafeFrame DEF StartApplications,
     callVars, scrubVars
<1>3. CASE StartByName
  <2>1. QueueQuiet
    BY <1>3, QuietSteps DEF StartByName
  <2>2. ReplyAwaited'
    BY <1>3, ReplyAnnounced DEF StartByName, PublishBeforeLoad, callVars
  <2>3. Head(queue).type # "Deferred"
    BY <1>3, TakeTyped DEF StartByName
  <2>4. LaunchBracketed' /\ DirectUnbracketed'
    BY <1>3, <2>3 DEF StartByName, PublishBeforeLoad, LaunchBracketed, DirectUnbracketed,
       LoadingAccounted, Take
  <2>5. pc = "idle"
    BY <1>3 DEF StartByName, Take
  <2> QED BY <1>0, <1>3, <2>1, <2>2, <2>3, <2>4, <2>5, SafeFrame DEF StartByName, callVars,
     scrubVars
<1>4. CASE AppStarts
  <2>1. QueueQuiet
    BY <1>4, QuietSteps DEF AppStarts
  <2>2. job.type = "StartByName" => job.from \in Callers /\ callPc[job.from] = "wait"
    BY <1>4 DEF AppStarts, ReplyAwaited, LaunchOK, Launch, DeferredLaunch, CallsOK
  <2>3. UNCHANGED Unlocking /\ OwnMessages'
    BY <1>4, <2>2, AnswerSafe DEF AppStarts
  <2>4. ReplyAwaited'
    BY <1>4, ReplyAnswered DEF AppStarts
  <2>5. app.thread = "NULL" /\ app'.thread = "APP" /\ (app'.rpc <=> job.args = "rpc")
    BY <1>4 DEF AppStarts, LaunchBracketed
  <2>6. thread'["app"] = "running"
    BY <1>4 DEF AppStarts, ThreadsOK, ThreadStates, Threads
  <2>7. ClosedOnce'
    BY <1>4, <2>1, <2>5, <2>6 DEF AppStarts, ClosedOnce, QueueQuiet, IsAppRunning,
       AppInScrubQueue,
       AppInScrubQueueOnce, scrubVars
  <2>8. LockExclusive'
    BY <1>4, <2>1, <2>3, <2>5, LockFrame DEF AppStarts
  <2>9. \E h \in BOOLEAN : (h => ~app'.rpc) /\ loading' = HideLoading(h)
    BY <1>4, <2>5 DEF AppStarts
  <2>10. LoadingAccounted'
    BY <2>5, <2>9 DEF LoadingAccounted, HideLoading, IsAppRunning
  <2>11. DepthBounded'
    BY <1>4 DEF AppStarts, HideLoading, DepthBounded, LaunchOK
  <2> QED BY <1>0, <1>4, <2>1, <2>2, <2>3, <2>4, <2>5, <2>6, <2>7, <2>8, <2>9, <2>10, <2>11,
     SafeFrame DEF AppStarts, callVars, scrubVars
<1>5. CASE LaunchFails
  <2>1. QueueQuiet
    BY <1>5, QuietSteps DEF LaunchFails
  <2>2. job.type = "StartByName" => job.from \in Callers /\ callPc[job.from] = "wait"
    BY <1>5 DEF LaunchFails, ReplyAwaited, LaunchOK, Launch, DeferredLaunch, CallsOK
  <2>3. UNCHANGED Unlocking /\ OwnMessages'
    BY <1>5, <2>2, AnswerSafe DEF LaunchFails
  <2>4. ReplyAwaited'
    BY <1>5, ReplyAnswered DEF LaunchFails
  <2>5. app.thread = "NULL" /\ app'.thread = "NULL"
    BY <1>5 DEF LaunchFails, LaunchBracketed, AppOK, AppRecord
  <2>6. LoadingAccounted'
    BY <1>5, <2>5 DEF LaunchFails, LoadingAccounted, HideLoading, IsAppRunning, DirectUnbracketed
  <2>7. DepthBounded'
    BY <1>5 DEF LaunchFails, HideLoading, DepthBounded, LaunchOK, LoadingOK, LoadingRecord
  <2> QED BY <1>0, <1>5, <2>1, <2>2, <2>3, <2>4, <2>5, <2>6, <2>7, SafeFrame DEF LaunchFails,
     callVars, scrubVars
<1>6. CASE DeferredLaunchFails
  <2>1. QueueQuiet
    BY <1>6, QuietSteps DEF DeferredLaunchFails
  <2>2. app.thread = "NULL" /\ [app EXCEPT !.rpc = (job.args = "rpc")].thread = "NULL"
    BY <1>6 DEF DeferredLaunchFails, LaunchBracketed, AppOK, AppRecord
  <2>3. ~IsAppRunning /\ loading.held = FALSE
    BY <1>6, <2>2 DEF DeferredLaunchFails, LoadingAccounted, IsAppRunning, LoadingOK,
       LoadingRecord
  <2>4. /\ app'.thread = "NULL" /\ thread'["app"] = thread["app"]
        /\ LaunchBracketed' /\ DirectUnbracketed' /\ LoadingAccounted' /\ DepthBounded'
    BY <1>0, <1>6, <2>2, <2>3, DeferredSafe DEF DeferredLaunchFails, LoadingOK, ThreadsOK,
       AppOK, AppRecord,
       LaunchBracketed
  <2>5. ReplyAwaited'
    BY <1>6, ReplyDeferred DEF DeferredLaunchFails, callVars
  <2> QED BY <1>0, <1>6, <2>1, <2>2, <2>3, <2>4, <2>5, SafeFrame DEF DeferredLaunchFails,
     callVars, scrubVars
<1>7. CASE AppClosedLast
  <2>1. Take({"AppClosed"}) /\ Head(queue).type = "AppClosed"
    BY <1>7 DEF AppClosedLast, ReapApp, Take
  <2>2. app.thread = "APP" /\ ~Queued("AppClosed")' /\ QueuedOnce("AppClosed")'
        /\ (Queued("Unlock")' <=> Queued("Unlock"))
        /\ (QueuedOnce("Unlock") => QueuedOnce("Unlock")')
        /\ thread["app"] = "stopped" /\ scrubPc # "callback"
    BY <2>1, TakeHas DEF ClosedOnce, IsAppRunning
  <2>3. app'.thread = "NULL" /\ thread'["app"] = "none"
    BY <1>7 DEF AppClosedLast, ClosedApp, ThreadsOK, ThreadStates, Threads
  <2>4. ClosedOnce'
    BY <1>7, <2>2, <2>3 DEF AppClosedLast, ClosedOnce, IsAppRunning, AppInScrubQueue,
       AppInScrubQueueOnce,
       scrubVars
  <2>5. LockExclusive'
    BY <1>7, <2>2, <2>3, SafeFrame DEF AppClosedLast, LockExclusive, callVars
  <2>6. ReplyAwaited'
    BY <1>7, <2>1, ReplyFrame DEF AppClosedLast, callVars
  <2>7. pc = "idle" /\ loading.depth = 0
    BY <1>7 DEF AppClosedLast, ReapApp, Take, LoadingAccounted
  <2>8. LoadingAccounted' /\ DepthBounded'
    BY <1>7, <2>3, <2>7, DropSafe DEF AppClosedLast
  <2> QED BY <1>0, <1>7, <2>1, <2>2, <2>3, <2>4, <2>5, <2>6, <2>7, <2>8,
     SafeFrame DEF AppClosedLast, callVars, scrubVars
<1>8. CASE AppClosedNext
  <2>1. Take({"AppClosed"}) /\ Head(queue).type = "AppClosed"
    BY <1>8 DEF AppClosedNext, ReapApp, Take
  <2>2. app.thread = "APP" /\ ~Queued("AppClosed")' /\ QueuedOnce("AppClosed")'
        /\ (Queued("Unlock")' <=> Queued("Unlock"))
        /\ (QueuedOnce("Unlock") => QueuedOnce("Unlock")')
        /\ thread["app"] = "stopped" /\ scrubPc # "callback"
    BY <2>1, TakeHas DEF ClosedOnce, IsAppRunning
  <2>3. pc = "idle" /\ loading.depth = 0
    BY <1>8 DEF AppClosedNext, ReapApp, Take, LoadingAccounted
  <2>4. /\ ClosedApp \in AppRecord /\ ClosedApp.thread = "NULL"
        /\ DropLoading \in LoadingRecord /\ DropLoading.depth = 0 /\ DropLoading.held = FALSE
    BY <2>3, HelpersTyped, DropSafe DEF ClosedApp, AppOK, AppRecord
  <2>5. /\ [thread EXCEPT !["app"] = "none"] \in ThreadStates
        /\ [thread EXCEPT !["app"] = "none"]["app"] = "none"
    BY DEF ThreadsOK, ThreadStates, Threads
  <2>6. /\ app'.thread = "NULL" /\ thread'["app"] = "none"
        /\ LaunchBracketed' /\ DirectUnbracketed' /\ LoadingAccounted' /\ DepthBounded'
    BY <1>0, <1>8, <2>3, <2>4, <2>5, DeferredSafe DEF AppClosedNext
  <2>7. ClosedOnce'
    BY <1>8, <2>2, <2>6 DEF AppClosedNext, ClosedOnce, IsAppRunning, AppInScrubQueue,
       AppInScrubQueueOnce,
       scrubVars
  <2>8. LockExclusive'
    BY <1>8, <2>2, <2>6, SafeFrame DEF AppClosedNext, LockExclusive, callVars
  <2>9. ReplyAwaited'
    BY <1>8, <2>1, ReplyDeferred DEF AppClosedNext, callVars
  <2> QED BY <1>0, <1>8, <2>1, <2>2, <2>3, <2>4, <2>5, <2>6, <2>7, <2>8, <2>9,
     SafeFrame DEF AppClosedNext, callVars, scrubVars
<1>9. CASE Lock
  <2>1. QueueQuiet
    BY <1>9, QuietSteps DEF Lock
  <2>2. Head(queue).from \in Callers /\ Head(queue).type \in SyncTypes
    BY <1>9, TakeTyped, MessageFields DEF Lock, SyncTypes
  <2>3. ReplyAwaited' /\ callPc[Head(queue).from] = "wait"
    BY <1>9, <2>2, ReplyTaken DEF Lock
  <2>4. UNCHANGED Unlocking /\ OwnMessages'
    BY <1>9, <2>2, <2>3, UnblockSafe DEF Lock
  <2>5. /\ app'.thread = "APP" <=> app.thread = "APP"
        /\ app'.rpc = app.rpc
    BY <1>9 DEF Lock, LockFree, AppOK, AppRecord
  <2>6. ClosedOnce'
    BY <1>9, <2>1, <2>5, ClosedFrame DEF Lock
  <2>7. LockExclusive'
    BY <1>9, <2>1, <2>4 DEF Lock, LockFree, LockExclusive, QueueQuiet, AppOK, AppRecord
  <2>8. pc' # "before_load" /\ pc = "idle"
    BY <1>9 DEF Lock, Take
  <2>9. LoadingAccounted'
    BY <1>9, <2>5 DEF Lock, LoadingAccounted, IsAppRunning
  <2> QED BY <1>0, <1>9, <2>1, <2>2, <2>3, <2>4, <2>5, <2>6, <2>7, <2>8, <2>9,
     SafeFrame DEF Lock, callVars, scrubVars
<1>10. CASE Unlock
  <2>1. Take({"Unlock"}) /\ Head(queue).type = "Unlock"
    BY <1>10 DEF Unlock, Take
  <2>2. /\ app.thread = "MAGIC" /\ ~Queued("Unlock")' /\ QueuedOnce("Unlock")'
        /\ (Queued("AppClosed")' <=> Queued("AppClosed"))
        /\ (QueuedOnce("AppClosed") => QueuedOnce("AppClosed")')
        /\ holds = {} /\ Unlocking = {}
    BY <2>1, TakeHas DEF LockExclusive
  <2>3. app'.thread = "NULL" /\ app'.rpc = app.rpc
    BY <1>10 DEF Unlock, AppOK, AppRecord
  <2>4. ClosedOnce'
    BY <1>10, <2>2, <2>3 DEF Unlock, ClosedOnce, IsAppRunning, AppInScrubQueue,
       AppInScrubQueueOnce,
       scrubVars
  <2>5. LockExclusive'
    BY <1>10, <2>2, <2>3, SafeFrame DEF Unlock, LockExclusive, callVars
  <2>6. ReplyAwaited'
    BY <1>10, <2>1, ReplyFrame DEF Unlock, callVars
  <2>7. pc' # "before_load"
    BY <1>10 DEF Unlock, Take
  <2>8. LoadingAccounted'
    BY <1>10, <2>2, <2>3 DEF Unlock, LoadingAccounted, IsAppRunning
  <2> QED BY <1>0, <1>10, <2>1, <2>2, <2>3, <2>4, <2>5, <2>6, <2>7, <2>8, SafeFrame DEF Unlock,
     callVars, scrubVars
<1>11. CASE Query
  <2>1. QueueQuiet
    BY <1>11, QuietSteps DEF Query
  <2>2. Head(queue).from \in Callers /\ Head(queue).type \in SyncTypes
    BY <1>11, TakeTyped, MessageFields DEF Query, SyncTypes
  <2>3. ReplyAwaited' /\ callPc[Head(queue).from] = "wait"
    BY <1>11, <2>2, ReplyTaken DEF Query
  <2>4. UNCHANGED Unlocking /\ OwnMessages'
    BY <1>11, <2>2, <2>3, UnblockSafe DEF Query
  <2> QED BY <1>0, <1>11, <2>1, <2>2, <2>3, <2>4, SafeFrame DEF Query, callVars, scrubVars
<1>12. CASE EnqueueLaunch
  <2>1. QueueQuiet
    BY <1>12, QuietSteps DEF EnqueueLaunch
  <2>2. Head(queue).from \in Callers /\ Head(queue).type \in SyncTypes
    BY <1>12, TakeTyped, MessageFields DEF EnqueueLaunch, SyncTypes
  <2>3. ReplyAwaited' /\ callPc[Head(queue).from] = "wait"
    BY <1>12, <2>2, ReplyTaken DEF EnqueueLaunch
  <2>4. UNCHANGED Unlocking /\ OwnMessages'
    BY <1>12, <2>2, <2>3, UnblockSafe DEF EnqueueLaunch
  <2>5. loading.depth = 0
    BY <1>12 DEF EnqueueLaunch, Take, LoadingAccounted
  <2>6. Len(launchQueue') = Len(launchQueue) + 1 /\ Len(launchQueue) \in Nat
    BY <1>12 DEF EnqueueLaunch, LaunchOK
  <2>7. DepthBounded'
    BY <1>12, <2>5, <2>6, SizesAssumption DEF EnqueueLaunch, LaunchQueueFull, DepthBounded
  <2> QED BY <1>0, <1>12, <2>1, <2>2, <2>3, <2>4, <2>5, <2>6, <2>7,
     SafeFrame DEF EnqueueLaunch, callVars, scrubVars
<1>13. CASE ClearLaunchQueue
  <2>1. QueueQuiet
    BY <1>13, QuietSteps DEF ClearLaunchQueue
  <2>2. Head(queue).from \in Callers /\ Head(queue).type \in SyncTypes
    BY <1>13, TakeTyped, MessageFields DEF ClearLaunchQueue, SyncTypes
  <2>3. ReplyAwaited' /\ callPc[Head(queue).from] = "wait"
    BY <1>13, <2>2, ReplyTaken DEF ClearLaunchQueue
  <2>4. UNCHANGED Unlocking /\ OwnMessages'
    BY <1>13, <2>2, <2>3, UnblockSafe DEF ClearLaunchQueue
  <2>5. DepthBounded'
    BY <1>13, SizesAssumption DEF ClearLaunchQueue, Take, LoadingAccounted, DepthBounded
  <2> QED BY <1>0, <1>13, <2>1, <2>2, <2>3, <2>4, <2>5, SafeFrame DEF ClearLaunchQueue,
     callVars, scrubVars
<1>14. CASE EnqueueOverflow
  <2>1. QueueQuiet
    BY <1>14, QuietSteps DEF EnqueueOverflow
  <2>2. ReplyAwaited'
    BY <1>14, ReplyFrame DEF EnqueueOverflow, callVars
  <2>3. pc = "idle"
    BY <1>14 DEF EnqueueOverflow, Take
  <2> QED BY <1>0, <1>14, <2>1, <2>2, <2>3, SafeFrame DEF EnqueueOverflow, callVars, scrubVars
<1>15. CASE ShowMenu
  <2>1. QueueQuiet
    BY <1>15, QuietSteps DEF ShowMenu
  <2>2. ReplyAwaited'
    BY <1>15, ReplyFrame DEF ShowMenu, callVars
  <2>3. thread'["app"] = thread["app"]
    BY <1>15 DEF ShowMenu, ThreadsOK, ThreadStates, Threads
  <2> QED BY <1>0, <1>15, <2>1, <2>2, <2>3, SafeFrame DEF ShowMenu, callVars, scrubVars
<1>16. CASE SetMenuStyle
  <2>1. QueueQuiet
    BY <1>16, QuietSteps DEF SetMenuStyle
  <2>2. ReplyAwaited'
    BY <1>16, ReplyFrame DEF SetMenuStyle, callVars
  <2> QED BY <1>0, <1>16, <2>1, <2>2, SafeFrame DEF SetMenuStyle, callVars, scrubVars
<1>17. CASE WindowClosed
  <2>1. QueueQuiet
    BY <1>17, QuietSteps DEF WindowClosed
  <2>2. ReplyAwaited'
    BY <1>17, ReplyFrame DEF WindowClosed, callVars
  <2>3. pc = "idle"
    BY <1>17 DEF WindowClosed, Take
  <2> QED BY <1>0, <1>17, <2>1, <2>2, <2>3, SafeFrame DEF WindowClosed, callVars, scrubVars
<1>18. CASE JoinMenu
  <2>1. QueueQuiet
    BY <1>18, QuietSteps DEF JoinMenu
  <2>2. ReplyAwaited'
    BY <1>18, ReplyFrame DEF JoinMenu, callVars
  <2>3. thread'["app"] = thread["app"]
    BY <1>18 DEF JoinMenu, ThreadsOK, ThreadStates, Threads
  <2>4. LoadingAccounted'
    BY <1>18 DEF JoinMenu, LoadingAccounted, IsAppRunning
  <2> QED BY <1>0, <1>18, <2>1, <2>2, <2>3, <2>4, SafeFrame DEF JoinMenu, callVars, scrubVars
<1>19. CASE JoinApplications
  <2>1. QueueQuiet
    BY <1>19, QuietSteps DEF JoinApplications
  <2>2. ReplyAwaited'
    BY <1>19, ReplyFrame DEF JoinApplications, callVars
  <2>3. thread'["app"] = thread["app"]
    BY <1>19 DEF JoinApplications, ThreadsOK, ThreadStates, Threads
  <2>4. LoadingAccounted'
    BY <1>19 DEF JoinApplications, LoadingAccounted, IsAppRunning
  <2> QED BY <1>0, <1>19, <2>1, <2>2, <2>3, <2>4, SafeFrame DEF JoinApplications, callVars,
     scrubVars
<1>20. CASE LoadingCheck
  <2>1. QueueQuiet
    BY <1>20, QuietSteps DEF LoadingCheck
  <2>2. ReplyAwaited'
    BY <1>20, ReplyFrame DEF LoadingCheck, callVars
  <2>3. pc = "idle" /\ loading.depth = 0 /\ pc' # "before_load"
    BY <1>20 DEF LoadingCheck, Take, LoadingAccounted
  <2>4. LoadingAccounted' /\ DepthBounded'
    BY <1>20, <2>3, DropSafe, SafeFrame DEF LoadingCheck
  <2> QED BY <1>0, <1>20, <2>1, <2>2, <2>3, <2>4, SafeFrame DEF LoadingCheck, callVars, scrubVars
<1> QED BY <1>1, <1>2, <1>3, <1>4, <1>5, <1>6, <1>7, <1>8, <1>9, <1>10, <1>11, <1>12, <1>13,
   <1>14, <1>15, <1>16, <1>17, <1>18, <1>19, <1>20 DEF LoaderStep

-----------------------------------------------------------------------------
(* The other threads.                                                        *)

LEMMA KernelReportsTyped ==
  AppClosedMsg \in Message /\ LoadingCheckMsg \in Message
  BY DEF AppClosedMsg, LoadingCheckMsg, Msg, Message, KernelReport

LEMMA OtherStepSafe == LoaderInv /\ (Scrub \/ ScrubPut \/ TimerTick \/ BrowserWake) => LoaderInv'
<1> SUFFICES ASSUME LoaderInv, Scrub \/ ScrubPut \/ TimerTick \/ BrowserWake PROVE LoaderInv'
  OBVIOUS
<1>0. TypeOK /\ TypeOK' BY OtherStepTyped DEF LoaderInv
<1> USE DEF LoaderInv, TypeOK
<1>1. CASE Scrub
  <2>1. QueueQuiet BY <1>1, QuietSteps DEF Scrub
  <2>2. ReplyAwaited' BY <1>1, ReplyFrame DEF Scrub, callVars
  <2>3. Head(scrubQueue) \in Threads BY <1>1 DEF Scrub, ThreadsOK
  <2>4. thread' = [thread EXCEPT ![Head(scrubQueue)] = "stopped"] BY <1>1 DEF Scrub
  <2>5. ClosedOnce'
    <3>1. CASE Head(scrubQueue) = "app"
      <4>1. thread'["app"] = "stopped" /\ scrubPc' = "callback"
        BY <1>1, <2>4, <3>1 DEF Scrub, ThreadsOK, ThreadStates, Threads
      <4>2. AppInScrubQueue /\ ~AppInScrubQueue' /\ AppInScrubQueueOnce'
        BY <1>1, <3>1, ScrubTaken DEF Scrub, ClosedOnce
      <4> QED BY <1>1, <2>1, <4>1, <4>2 DEF Scrub, ClosedOnce, QueueQuiet, IsAppRunning
    <3>2. CASE Head(scrubQueue) # "app"
      <4>1. thread'["app"] = thread["app"] /\ scrubPc' = "idle" /\ scrubPc = "idle"
        BY <1>1, <2>4, <3>2 DEF Scrub, ThreadsOK, ThreadStates, Threads
      <4>2. (AppInScrubQueue <=> AppInScrubQueue') /\ AppInScrubQueueOnce'
        BY <1>1, <3>2, ScrubTaken DEF Scrub, ClosedOnce
      <4> QED BY <1>1, <2>1, <4>1, <4>2 DEF Scrub, ClosedOnce, QueueQuiet, IsAppRunning
    <3> QED BY <3>1, <3>2
  <2> QED BY <1>0, <1>1, <2>1, <2>2, <2>5, SafeFrame DEF Scrub, callVars
<1>2. CASE ScrubPut
  <2>1. queue' = Append(queue, AppClosedMsg) /\ AppClosedMsg \in Message
        /\ AppClosedMsg.type = "AppClosed"
    BY <1>2, KernelReportsTyped DEF ScrubPut, AppClosedMsg, Msg
  <2>2. Queued("AppClosed")' /\ QueuedOnce("AppClosed")'
        /\ (Queued("Unlock")' <=> Queued("Unlock"))
        /\ (QueuedOnce("Unlock") => QueuedOnce("Unlock")')
    BY <1>2, <2>1, PutHas DEF ScrubPut, ClosedOnce
  <2>3. ClosedOnce'
    BY <1>2, <2>2 DEF ScrubPut, ClosedOnce, IsAppRunning, AppInScrubQueue, AppInScrubQueueOnce
  <2>4. LockExclusive'
    BY <1>2, <2>2, SafeFrame DEF ScrubPut, LockExclusive, callVars
  <2>5. ReplyAwaited'
    BY <1>2, <2>1, ReplyFrame DEF ScrubPut, callVars, SyncTypes
  <2> QED BY <1>0, <1>2, <2>3, <2>4, <2>5, SafeFrame DEF ScrubPut, callVars
<1>3. CASE TimerTick
  <2>1. LoadingCheckMsg \in Message /\ LoadingCheckMsg.type = "LoadingCheck"
    BY KernelReportsTyped DEF LoadingCheckMsg, Msg
  <2>2. UNCHANGED queue \/ queue' = Append(queue, LoadingCheckMsg)
    BY <1>3 DEF TimerTick
  <2>3. QueueQuiet BY <2>1, <2>2, QuietSteps
  <2>4. ReplyAwaited'
    BY <1>3, <2>1, <2>2, ReplyFrame DEF TimerTick, callVars, SyncTypes
  <2>5. loading'.depth = loading.depth /\ loading'.held = loading.held
        /\ loading'.view = loading.view
    BY <1>3 DEF TimerTick, LoadingOK, LoadingRecord
  <2>6. LoadingAccounted' /\ DirectUnbracketed' /\ LaunchBracketed' /\ DepthBounded'
    BY <1>3, <2>5 DEF TimerTick, LoadingAccounted, DirectUnbracketed, LaunchBracketed,
       DepthBounded, IsAppRunning
  <2> QED BY <1>0, <1>3, <2>3, <2>4, <2>6, SafeFrame DEF TimerTick, callVars, scrubVars
<1>4. CASE BrowserWake
  <2>1. QueueQuiet BY <1>4, QuietSteps DEF BrowserWake
  <2>2. ReplyAwaited' BY <1>4, ReplyFrame DEF BrowserWake, callVars
  <2> QED BY <1>0, <1>4, <2>1, <2>2, SafeFrame DEF BrowserWake, callVars, scrubVars
<1> QED BY <1>1, <1>2, <1>3, <1>4

\* A caller's message is its own, and only the holder of the lock unlocks.
OwnRequest(c, m) ==
    /\ m \in Message
    /\ m.from = c
    /\ m.type \notin {"AppClosed", "LoadingCheck"}
    /\ m.type = "Unlock" => c \in holds

LEMMA RequestOwn ==
  ASSUME NEW c \in Callers,
         NEW m, \/ c \in Clients /\ m \in ClientMessages(c)
                \/ c \in Threads /\ m \in ThreadMessages(c)
                \/ m \in EnqueueMessages(c)
  PROVE  OwnRequest(c, m)
<1>0. m \in Message BY RequestTyped
<1>1. CASE c \in Clients /\ m \in ClientMessages(c)
  BY <1>0, <1>1 DEF ClientMessages, Msg, OwnRequest
<1>2. CASE c \in Threads /\ m \in ThreadMessages(c)
  BY <1>0, <1>2 DEF ThreadMessages, Msg, Threads, OwnRequest
<1>3. CASE m \in EnqueueMessages(c)
  BY <1>0, <1>3 DEF EnqueueMessages, Msg, OwnRequest
<1> QED BY <1>1, <1>2, <1>3

LEMMA RequestSafe ==
  ASSUME LoaderInv, NEW c \in Callers, NEW m, OwnRequest(c, m), Request(c, m)
  PROVE  LoaderInv'
<1>0. TypeOK /\ TypeOK' BY CallerStepTyped DEF LoaderInv, OwnRequest
<1> USE DEF LoaderInv, TypeOK
<1>1. QueueQuiet BY QuietSteps DEF Request
<1>2. /\ callPc' = [callPc EXCEPT ![c] = "put"] /\ callPc[c] = "idle"
      /\ callMsg' = [callMsg EXCEPT ![c] = m]
      /\ callPc \in [Callers -> {"idle", "put", "wait"}]
      /\ callMsg \in [Callers -> Message \cup {NoMsg}]
  BY DEF Request, CallsOK
<1>3. ReplyAwaited'
  BY <1>2, ReplyCaller DEF OwnRequest, Request
<1>4. OwnMessages'
  BY <1>2 DEF OwnMessages, OwnRequest
<1>5. c \notin Unlocking
  BY <1>2 DEF Unlocking
<1>6. LockExclusive'
  <2>1. CASE m.type = "Unlock"
    <3>1. c \in holds /\ holds' = {} /\ Unlocking = {}
      BY <2>1 DEF OwnRequest, Request, LockExclusive
    <3>2. Unlocking' = {c}
      BY <1>2, <2>1, <3>1 DEF Unlocking
    <3> QED BY <1>1, <3>1, <3>2 DEF Request, LockExclusive, QueueQuiet
  <2>2. CASE m.type # "Unlock"
    <3>1. UNCHANGED <<holds, Unlocking>>
      BY <1>2, <1>5, <2>2 DEF Request, Unlocking
    <3> QED BY <1>1, <3>1, LockFrame DEF Request
  <2> QED BY <2>1, <2>2
<1> QED BY <1>0, <1>1, <1>3, <1>4, <1>6, SafeFrame DEF Request, scrubVars

LEMMA PutSafe ==
  ASSUME LoaderInv, NEW c \in Callers, Put(c)
  PROVE  LoaderInv'
<1>0. TypeOK /\ TypeOK' BY CallerStepTyped DEF LoaderInv
<1> USE DEF LoaderInv, TypeOK
<1> DEFINE m == callMsg[c]
<1>1. /\ m \in Message /\ m.from = c /\ m.type \notin {"AppClosed", "LoadingCheck"}
      /\ callPc[c] = "put" /\ queue' = Append(queue, m)
  BY DEF Put, CallsOK, OwnMessages
<1>2. /\ callPc' = [callPc EXCEPT ![c] = IF m.type \in SyncTypes THEN "wait" ELSE "idle"]
      /\ callMsg' = [callMsg EXCEPT ![c] = NoMsg]
      /\ callPc \in [Callers -> {"idle", "put", "wait"}]
      /\ callMsg \in [Callers -> Message \cup {NoMsg}]
  BY DEF Put, CallsOK
<1>3. ReplyAwaited'
  <2> HIDE DEF m
  <2> QED BY <1>1, <1>2, ReplyCaller DEF Put
<1>4. OwnMessages'
  BY <1>2 DEF OwnMessages
<1>5. thread'["app"] = thread["app"]
  <2>1. m.type \in {"MenuClosed", "ApplicationsClosed"} => c # "app"
    BY <1>1 DEF Message, LaunchRequest, LockRequest, PlainRequest, MenuRequest, WindowReport,
       KernelReport
  <2> QED BY <2>1 DEF Put, ThreadsOK, ThreadStates
<1>6. /\ Queued("AppClosed")' <=> Queued("AppClosed")
      /\ QueuedOnce("AppClosed") => QueuedOnce("AppClosed")'
  BY <1>1, PutHas
<1>7. ClosedOnce'
  BY <1>5, <1>6 DEF Put, ClosedOnce, IsAppRunning, AppInScrubQueue, AppInScrubQueueOnce, scrubVars
<1>8. Unlocking' = Unlocking \ {c}
  BY <1>2 DEF Unlocking
<1>9. LockExclusive'
  <2>1. CASE m.type = "Unlock"
    <3>1. c \in Unlocking BY <1>1, <2>1 DEF Unlocking
    <3>2. holds = {} /\ ~Queued("Unlock") /\ Unlocking' = {}
      BY <1>8, <3>1 DEF LockExclusive
    <3>3. Queued("Unlock")' /\ QueuedOnce("Unlock")' BY <1>1, <2>1, <3>2, PutHas
    <3> QED BY <3>1, <3>2, <3>3 DEF Put, LockExclusive
  <2>2. CASE m.type # "Unlock"
    <3>1. c \notin Unlocking BY <2>2 DEF Unlocking
    <3>2. QueueQuiet BY <1>1, <2>2, QuietSteps
    <3> QED BY <1>8, <3>1, <3>2, LockFrame DEF Put
  <2> QED BY <2>1, <2>2
<1> QED BY <1>0, <1>3, <1>4, <1>7, <1>9, SafeFrame DEF Put

LEMMA CallerStepSafe ==
  ASSUME LoaderInv, NEW c \in Callers,
         EnqueueNull(c) \/ Put(c) \/ (c \in Threads /\ ThreadExit(c))
  PROVE  LoaderInv'
<1>0. TypeOK /\ TypeOK' BY CallerStepTyped DEF LoaderInv
<1> USE DEF LoaderInv, TypeOK
<1>1. CASE EnqueueNull(c)
  <2>1. QueueQuiet BY <1>1, QuietSteps DEF EnqueueNull
  <2>2. ReplyAwaited' BY <1>1, ReplyFrame DEF EnqueueNull, callVars
  <2>3. LoadingAccounted' BY <1>1 DEF EnqueueNull, LoadingAccounted, IsAppRunning
  <2> QED BY <1>0, <1>1, <2>1, <2>2, <2>3, SafeFrame DEF EnqueueNull, callVars, scrubVars
<1>2. CASE Put(c)
  BY <1>2, PutSafe
<1>3. CASE c \in Threads /\ ThreadExit(c)
  <2>1. QueueQuiet BY <1>3, QuietSteps DEF ThreadExit
  <2>2. ReplyAwaited' BY <1>3, ReplyFrame DEF ThreadExit, callVars
  <2>3. ClosedOnce'
    <3>1. CASE c = "app"
      <4>1. thread["app"] = "running" /\ thread'["app"] = "stopping"
        BY <1>3, <3>1 DEF ThreadExit, ThreadsOK, ThreadStates, Threads
      <4>2. AppInScrubQueue' /\ AppInScrubQueueOnce'
        BY <1>3, <3>1, <4>1, ScrubAdded DEF ThreadExit, ClosedOnce
      <4> QED BY <1>3, <2>1, <4>1, <4>2 DEF ThreadExit, ClosedOnce, QueueQuiet, IsAppRunning
    <3>2. CASE c # "app"
      <4>1. thread'["app"] = thread["app"]
        BY <1>3, <3>2 DEF ThreadExit, ThreadsOK, ThreadStates, Threads
      <4>2. (AppInScrubQueue <=> AppInScrubQueue') /\ AppInScrubQueueOnce'
        BY <1>3, <3>2, ScrubAdded DEF ThreadExit, ClosedOnce
      <4> QED BY <1>3, <2>1, <4>1, <4>2 DEF ThreadExit, ClosedOnce, QueueQuiet, IsAppRunning
    <3> QED BY <3>1, <3>2
  <2> QED BY <1>0, <1>3, <2>1, <2>2, <2>3, SafeFrame DEF ThreadExit, callVars
<1> QED BY <1>1, <1>2, <1>3

-----------------------------------------------------------------------------
LEMMA InitSafe == Init => LoaderInv
<1> SUFFICES ASSUME Init PROVE LoaderInv OBVIOUS
<1>1. TypeOK BY InitTyped
<1>2. ClosedOnce
  BY DEF Init, ClosedOnce, IsAppRunning, AppInScrubQueue, AppInScrubQueueOnce, Queued,
     QueuedOnce, Threads
<1>3. LockExclusive
  BY DEF Init, LockExclusive, Unlocking, Queued, QueuedOnce
<1>4. ReplyAwaited /\ OwnMessages /\ LaunchBracketed /\ DirectUnbracketed
  BY DEF Init, ReplyAwaited, OwnMessages, LaunchBracketed, DirectUnbracketed
<1>5. LoadingAccounted /\ DepthBounded
  BY SizesAssumption DEF Init, LoadingAccounted, DepthBounded
<1> QED BY <1>1, <1>2, <1>3, <1>4, <1>5 DEF LoaderInv

LEMMA NextSafe == LoaderInv /\ [Next]_vars => LoaderInv'
<1> SUFFICES ASSUME LoaderInv, [Next]_vars PROVE LoaderInv' OBVIOUS
<1>1. CASE ClientRequest
  BY <1>1, RequestOwn, RequestSafe DEF ClientRequest, Callers
<1>2. CASE ThreadRequest
  BY <1>2, RequestOwn, RequestSafe DEF ThreadRequest, Callers
<1>3. CASE \E c \in Callers : EnqueueNull(c) \/ Put(c)
  BY <1>3, CallerStepSafe
<1>4. CASE \E t \in Threads : ThreadExit(t)
  BY <1>4, CallerStepSafe DEF Callers
<1>5. CASE LoaderStep
  BY <1>5, LoaderStepSafe
<1>6. CASE Scrub \/ ScrubPut \/ TimerTick \/ BrowserWake
  BY <1>6, OtherStepSafe
<1>7. CASE UNCHANGED vars
  <2>1. TypeOK' BY <1>7, NextTyped DEF LoaderInv
  <2>2. QueueQuiet BY <1>7, QuietSteps DEF LoaderInv, TypeOK, vars
  <2>3. ReplyAwaited' BY <1>7 DEF LoaderInv, ReplyAwaited, vars
  <2> QED BY <1>7, <2>1, <2>2, <2>3, SafeFrame DEF LoaderInv, vars, scrubVars
<1> QED BY <1>1, <1>2, <1>3, <1>4, <1>5, <1>6, <1>7 DEF Next, UserStep, SystemStep, Halted

\* The inductive invariant of the loader holds, whatever its clients do.
THEOREM LoaderInvariant == Spec => []LoaderInv
<1>1. Init => LoaderInv BY InitSafe
<1>2. LoaderInv /\ [Next]_vars => LoaderInv' BY NextSafe
<1> QED BY <1>1, <1>2, PTL DEF Spec

\* The end of an application is reported to the loader exactly once, through
\* the scrub thread and the queue (loader_thread_state_callback).
THEOREM LoaderClosedOnce == Spec => []ClosedOnce
<1>1. LoaderInv => ClosedOnce BY DEF LoaderInv
<1> QED BY <1>1, LoaderInvariant, PTL

\* The loader lock has one owner, so the furi_check in loader_do_unlock holds.
THEOREM LoaderLockExclusive == Spec => []LockExclusive
<1>1. LoaderInv => LockExclusive BY DEF LoaderInv
<1> QED BY <1>1, LoaderInvariant, PTL

\* The loader unlocks only api_locks whose caller is still blocked on them.
THEOREM LoaderReplyAwaited == Spec => []ReplyAwaited
<1>1. LoaderInv => ReplyAwaited BY DEF LoaderInv
<1> QED BY <1>1, LoaderInvariant, PTL

\* The loading animation is on screen exactly while a bracket or a hold keeps
\* it there, and a hold belongs to a running application.
THEOREM LoaderLoadingAccounted == Spec => []LoadingAccounted
<1>1. LoaderInv => LoadingAccounted BY DEF LoaderInv
<1> QED BY <1>1, LoaderInvariant, PTL

\* The nesting of loading brackets is bounded by the launch queue's size.
THEOREM LoaderDepthBounded == Spec => []DepthBounded
<1>1. LoaderInv => DepthBounded BY DEF LoaderInv
<1> QED BY <1>1, LoaderInvariant, PTL
=============================================================================
