--------------------------------- MODULE Rpc ---------------------------------
(***************************************************************************)
(* An RPC session over USB (firmware/applications/services/rpc: rpc.c,      *)
(* rpc_cli.c, rpc_app.c). The command line's thread feeds what the host    *)
(* sends into a stream buffer; the session's worker decodes messages and   *)
(* answers; an application started over RPC confirms the commands it gets; *)
(* once the worker has ended, the timer daemon tears the session down. A   *)
(* message is two pieces of the stream, so a transfer can end in between.  *)
(***************************************************************************)
EXTENDS Naturals, Sequences, FiniteSets

CONSTANTS
    Kind,      \* what the host sends, of the kinds below
    StreamMax, \* capacity of session->stream, in pieces
    MaxMsgs    \* bound: messages of the host

\* ping: a command answered by its handler, or by the worker if it has none;
\* stop: PB_Main_stop_session; start: app_start; press: a command of the
\* running application; bad: does not decode.
ASSUME RpcAssumption ==
    /\ Kind \subseteq {"ping", "stop", "start", "press", "bad"}
    /\ StreamMax \in Nat \ {0} /\ MaxMsgs \in Nat

Id == 1 .. MaxMsgs

VARIABLES
    host,    \* messages sent, kind of each, has it hung up
    pipe,    \* pieces on their way to the command line
    cli,     \* rpc_cli_command_start_session: pc, the piece it feeds,
             \* session_close_request
    stream,  \* session->stream
    flags,   \* flags of the worker's thread
    worker,  \* rpc_session_worker: pc, the message, the answer it sends, what
             \* comes after the answer
    session, \* terminate, decode_error
    calls,   \* callbacks that are set
    sys,     \* RpcAppSystem: callback is set, last_command_id
    app,     \* the application: pc, its rpc context is set, its events, the
             \* command it answers (none in a report), what comes after that
    daemon,  \* rpc_session_thread_pending_callback
    answers, \* history: answers to each message
    fed,     \* history: messages in the stream in full, messages decoded,
             \* pieces lost to a timeout
    crashed  \* a check failed, or freed memory was used

vars == <<host, pipe, cli, stream, flags, worker, session, calls, sys, app, daemon,
          answers, fed, crashed>>

None == 0

Piece(i, n) == [id |-> i, half |-> n]

NoApp == [pc |-> "none", ctx |-> FALSE, events |-> <<>>, id |-> None, then |-> "running"]

Init ==
    /\ host = [sent |-> 0, kind |-> [i \in Id |-> "none"], hungup |-> FALSE]
    /\ pipe = <<>> /\ stream = <<>> /\ flags = {}
    /\ cli = [pc |-> "receive", piece |-> Piece(None, 1), closeRequest |-> FALSE]
    /\ worker = [pc |-> "read", msg |-> None, reply |-> None, then |-> "read"]
    /\ session = [terminate |-> FALSE, decodeError |-> FALSE]
    /\ calls = {"send", "close", "terminated"}
    /\ sys = [callback |-> FALSE, last |-> None]
    /\ app = NoApp
    /\ daemon = "idle"
    /\ answers = [i \in Id |-> 0]
    /\ fed = [whole |-> {}, served |-> {}, lost |-> FALSE]
    /\ crashed = FALSE

-----------------------------------------------------------------------------
(* The host (outside the repository)                                       *)

\* A client has one command of the application open at a time: the checks on
\* last_command_id ask it to.
OneAtATime(k) ==
    k \in {"press", "start"} =>
      \A i \in 1 .. host.sent : host.kind[i] = "press" => answers[i] > 0

HostSends(k) ==
    /\ ~host.hungup /\ host.sent < MaxMsgs /\ OneAtATime(k)
    /\ LET i == host.sent + 1 IN
       /\ host' = [host EXCEPT !.sent = i, !.kind[i] = k]
       /\ pipe' = pipe \o <<Piece(i, 1), Piece(i, 2)>>
    /\ UNCHANGED <<cli, stream, flags, worker, session, calls, sys, app, daemon, answers,
                   fed, crashed>>

\* The cable is pulled, possibly in the middle of the last message.
HangUp ==
    /\ ~host.hungup
    /\ host' = [host EXCEPT !.hungup = TRUE]
    /\ \/ UNCHANGED pipe
       \/ pipe # <<>> /\ pipe' = SubSeq(pipe, 1, Len(pipe) - 1)
    /\ UNCHANGED <<cli, stream, flags, worker, session, calls, sys, app, daemon, answers,
                   fed, crashed>>

-----------------------------------------------------------------------------
(* The command line's thread: rpc_cli_command_start_session                *)

\* session->callbacks_mutex is held over a callback.
MutexFree == worker.pc \notin {"sending", "closing"} /\ app.pc # "sending"

\* pipe_receive; a close request is seen only when something arrives.
CliReceives ==
    /\ cli.pc = "receive"
    /\ \/ /\ pipe # <<>> /\ pipe' = Tail(pipe)
          /\ cli' = IF cli.closeRequest THEN [cli EXCEPT !.pc = "clearSend"]
                    ELSE [cli EXCEPT !.pc = "feed", !.piece = Head(pipe)]
       \/ /\ pipe = <<>> /\ host.hungup
          /\ cli' = [cli EXCEPT !.pc = "clearSend"] /\ UNCHANGED pipe
    /\ UNCHANGED <<host, stream, flags, worker, session, calls, sys, app, daemon, answers,
                   fed, crashed>>

\* rpc_session_feed: the piece goes in, or there is no room for 3 s and it is
\* lost (fed_bytes is only looked at by an assertion).
CliFeeds ==
    /\ cli.pc = "feed"
    /\ cli' = [cli EXCEPT !.pc = "flag", !.piece = Piece(None, 1)]
    /\ \/ /\ Len(stream) < StreamMax
          /\ stream' = Append(stream, cli.piece)
          /\ fed' = IF cli.piece.half = 2 /\ ~fed.lost
                    THEN [fed EXCEPT !.whole = @ \cup {cli.piece.id}] ELSE fed
       \/ /\ Len(stream) = StreamMax
          /\ fed' = [fed EXCEPT !.lost = TRUE]
          /\ UNCHANGED stream
    /\ UNCHANGED <<host, pipe, flags, worker, session, calls, sys, app, daemon, answers,
                   crashed>>

CliFlags ==
    /\ cli.pc = "flag"
    /\ cli' = [cli EXCEPT !.pc = "receive"]
    /\ flags' = flags \cup {"NewData"}
    /\ UNCHANGED <<host, pipe, stream, worker, session, calls, sys, app, daemon, answers,
                   fed, crashed>>

\* Mutant: a callback is cleared without the mutex.
ClearsUnlocked == TRUE

Clears == MutexFree

\* rpc_session_close clears one callback after the other, each under the
\* mutex, and then flags the worker.
CliCloses ==
    /\ \/ /\ cli.pc = "clearSend" /\ Clears
          /\ calls' = calls \ {"send"} /\ cli' = [cli EXCEPT !.pc = "clearClose"]
          /\ UNCHANGED flags
       \/ /\ cli.pc = "clearClose" /\ Clears
          /\ calls' = calls \ {"close"} /\ cli' = [cli EXCEPT !.pc = "disconnect"]
          /\ UNCHANGED flags
       \/ /\ cli.pc = "disconnect"
          /\ flags' = flags \cup {"Disconnect"} /\ cli' = [cli EXCEPT !.pc = "join"]
          /\ UNCHANGED calls
    /\ UNCHANGED <<host, pipe, stream, worker, session, sys, app, daemon, answers, fed,
                   crashed>>

\* The semaphore of the terminated callback; the context goes with the stack.
CliReturns ==
    /\ cli.pc = "join" /\ daemon \in {"free", "done"}
    /\ cli' = [cli EXCEPT !.pc = "done"]
    /\ UNCHANGED <<host, pipe, stream, flags, worker, session, calls, sys, app, daemon,
                   answers, fed, crashed>>

-----------------------------------------------------------------------------
(* The worker                                                              *)

Answer(i, then) == [pc |-> "send", msg |-> None, reply |-> i, then |-> then]

Begins(p) == worker.msg = None /\ p.half = 1

Completes(p) == worker.msg = p.id /\ host.kind[p.id] # "bad"

\* rpc_pb_stream_read: a piece, or nothing yet. What does not continue the
\* message, or is no message, fails to decode; after an error each read is
\* thrown away and waits for a flag.
Reads ==
    /\ worker.pc = "read"
    /\ \/ /\ stream = <<>>
          /\ worker' = [worker EXCEPT !.pc = "wait"]
          /\ UNCHANGED <<stream, fed>>
       \/ /\ stream # <<>> /\ stream' = Tail(stream)
          /\ LET p == Head(stream) IN
             \/ /\ session.decodeError
                /\ worker' = [worker EXCEPT !.pc = "wait"] /\ UNCHANGED fed
             \/ /\ ~session.decodeError /\ Begins(p)
                /\ worker' = [worker EXCEPT !.msg = p.id] /\ UNCHANGED fed
             \/ /\ ~session.decodeError /\ Completes(p)
                /\ worker' = [worker EXCEPT !.pc = "decoded"]
                /\ fed' = [fed EXCEPT !.served = @ \cup {p.id}]
             \/ /\ ~session.decodeError /\ ~Begins(p) /\ ~Completes(p)
                /\ worker' = [worker EXCEPT !.pc = "failed"] /\ UNCHANGED fed
    /\ UNCHANGED <<host, pipe, cli, flags, session, calls, sys, app, daemon, answers, crashed>>

\* Mutant: a disconnect ends the session with data in the stream.
EndsAtOnce == "Disconnect" \in flags

Ends == "Disconnect" \in flags /\ stream = <<>>

\* Mutant: the disconnect flag is not set again.
KeptNever == {}

\* A disconnect with data left is saved for later.
Kept == flags \cap {"Disconnect"}

Waits ==
    /\ worker.pc = "wait" /\ flags # {}
    /\ flags' = IF Ends THEN {} ELSE Kept
    /\ session' = [session EXCEPT !.terminate = Ends]
    /\ worker' = [worker EXCEPT !.pc = IF Ends THEN "over" ELSE "read"]
    /\ UNCHANGED <<host, pipe, cli, stream, calls, sys, app, daemon, answers, fed, crashed>>

\* Mutant: the handler answers a command the application will confirm.
PressedAndAnswered(i) == Answer(i, "read")

Pressed(i) == [worker EXCEPT !.pc = "read", !.msg = None]

\* rpc_session_worker dispatches the message to its handler, under
\* rpc->busy_mutex, which no other session contends for here.
Handles ==
    /\ worker.pc = "decoded"
    /\ LET i == worker.msg
           k == host.kind[i]
       IN
       \/ /\ k = "ping" /\ worker' = Answer(i, "read")
          /\ UNCHANGED <<sys, app>>
       \/ /\ k = "stop" /\ worker' = Answer(i, "closed")
          /\ UNCHANGED <<sys, app>>
       \* rpc_system_app_start_process: loader_start, in RPC mode.
       \/ /\ k = "start" /\ worker' = Answer(i, "read")
          /\ app' = IF app.pc = "none" THEN [app EXCEPT !.pc = "starting"] ELSE app
          /\ UNCHANGED sys
       \* rpc_system_app_button_press and the like
       \/ /\ k = "press" /\ ~sys.callback /\ worker' = Answer(i, "read")
          /\ UNCHANGED <<sys, app>>
       \/ /\ k = "press" /\ sys.callback
          /\ sys' = [sys EXCEPT !.last = i]
          /\ app' = [app EXCEPT !.events = Append(@, i)]
          /\ worker' = Pressed(i)
    /\ UNCHANGED <<host, pipe, cli, stream, flags, session, calls, daemon, answers, fed,
                   crashed>>

\* Decode failed: the stream is reset, which a sender blocked on it prevents.
Fails ==
    /\ worker.pc = "failed"
    /\ stream' = IF cli.pc = "feed" /\ Len(stream) = StreamMax THEN stream ELSE <<>>
    /\ session' = [session EXCEPT !.decodeError = TRUE]
    /\ worker' = Answer(None, "closed")
    /\ UNCHANGED <<host, pipe, cli, flags, calls, sys, app, daemon, answers, fed, crashed>>

\* rpc_send: under the mutex, if the callback is set.
Sends ==
    /\ \/ /\ worker.pc = "send" /\ MutexFree
          /\ worker' = [worker EXCEPT !.pc = IF "send" \in calls THEN "sending" ELSE worker.then]
          /\ UNCHANGED answers
       \/ /\ worker.pc = "sending"
          /\ worker' = [worker EXCEPT !.pc = worker.then]
          /\ answers' = IF worker.reply = None THEN answers
                        ELSE [answers EXCEPT ![worker.reply] = @ + 1]
    /\ UNCHANGED <<host, pipe, cli, stream, flags, session, calls, sys, app, daemon, fed,
                   crashed>>

\* closed_callback, under the mutex: the command line is asked to close.
ReportsClosed ==
    /\ \/ /\ worker.pc = "closed" /\ MutexFree
          /\ worker' = [worker EXCEPT !.pc = IF "close" \in calls THEN "closing" ELSE "read"]
          /\ UNCHANGED cli
       \/ /\ worker.pc = "closing"
          /\ worker' = [worker EXCEPT !.pc = "read"]
          /\ cli' = [cli EXCEPT !.closeRequest = TRUE]
    /\ UNCHANGED <<host, pipe, stream, flags, session, calls, sys, app, daemon, answers,
                   fed, crashed>>

\* The thread stops and hands the session to the timer daemon.
WorkerStops ==
    /\ worker.pc = "over"
    /\ worker' = [worker EXCEPT !.pc = "gone"]
    /\ daemon' = "systems"
    /\ UNCHANGED <<host, pipe, cli, stream, flags, session, calls, sys, app, answers, fed,
                   crashed>>

-----------------------------------------------------------------------------
(* The timer daemon: rpc_session_thread_pending_callback                   *)

\* rpc_system_app_free looks for an application and calls it, which posts the
\* end of the session to its thread and only then detaches it. It may leave in
\* between: then NULL is called, or the callback of an application that is
\* leaving, and what is left of one that is gone is used.
LooksForApp ==
    /\ daemon = "systems"
    /\ daemon' = IF sys.callback THEN "call" ELSE "await"
    /\ UNCHANGED <<host, pipe, cli, stream, flags, worker, session, calls, sys, app,
                   answers, fed, crashed>>

CallsApp ==
    /\ daemon = "call"
    /\ daemon' = "detach"
    /\ \/ /\ app.pc # "none" /\ app' = [app EXCEPT !.events = Append(@, None)]
          /\ UNCHANGED crashed
       \/ ~sys.callback /\ crashed' = TRUE /\ UNCHANGED app
    /\ UNCHANGED <<host, pipe, cli, stream, flags, worker, session, calls, sys, answers,
                   fed>>

DetachesApp ==
    /\ daemon = "detach"
    /\ daemon' = "await"
    /\ crashed' = (app.pc = "none")
    /\ app' = [app EXCEPT !.ctx = FALSE]
    /\ sys' = [sys EXCEPT !.callback = FALSE]
    /\ UNCHANGED <<host, pipe, cli, stream, flags, worker, session, calls, answers, fed>>

\* Then it waits, for as long as it takes, until no application is attached.
AwaitsDetach ==
    /\ daemon = "await" /\ ~sys.callback
    /\ daemon' = "terminated"
    /\ UNCHANGED <<host, pipe, cli, stream, flags, worker, session, calls, sys, app,
                   answers, fed, crashed>>

\* terminated_callback, under the mutex; then the mutex, the thread and the
\* session are freed.
FreesSession ==
    /\ \/ daemon = "terminated" /\ MutexFree /\ daemon' = "free"
       \/ daemon = "free" /\ daemon' = "done"
    /\ UNCHANGED <<host, pipe, cli, stream, flags, worker, session, calls, sys, app,
                   answers, fed, crashed>>

SysFreed == daemon \notin {"idle", "systems", "call", "detach", "await"}

-----------------------------------------------------------------------------
(* The application, as those under applications/main use rpc_app.h         *)

\* rpc_system_app_set_callback, with the context passed as an argument: the
\* session it points to may be gone.
AppAttaches ==
    /\ app.pc = "starting"
    /\ crashed' = SysFreed
    /\ app' = [app EXCEPT !.pc = "attached", !.ctx = TRUE]
    /\ sys' = [sys EXCEPT !.callback = TRUE]
    /\ UNCHANGED <<host, pipe, cli, stream, flags, worker, session, calls, daemon, answers,
                   fed>>

\* A message of the application, up to rpc_send. Its check fails when the end
\* of the session cleared the context.
Sending(id, then) ==
    [app EXCEPT !.pc = "send", !.id = id, !.then = then]

\* rpc_system_app_send_started, and rpc_system_app_send_exited once detached.
AppReports ==
    /\ \/ app.pc = "attached" /\ app' = Sending(None, "running")
       \/ app.pc = "detached" /\ app' = Sending(None, "left")
    /\ crashed' = ~app.ctx
    /\ UNCHANGED <<host, pipe, cli, stream, flags, worker, session, calls, sys, daemon,
                   answers, fed>>

\* The event at the front, and rpc_system_app_confirm: it answers the last
\* command, whichever that is.
AppConfirms ==
    /\ app.pc = "running" /\ app.events # <<>> /\ Head(app.events) # None
    /\ crashed' = (~app.ctx \/ sys.last = None)
    /\ app' = [Sending(sys.last, "running") EXCEPT !.events = Tail(@)]
    /\ sys' = [sys EXCEPT !.last = None]
    /\ UNCHANGED <<host, pipe, cli, stream, flags, worker, session, calls, daemon, answers,
                   fed>>

Sent == [app EXCEPT !.pc = app.then, !.id = None, !.then = "running"]

\* rpc_send, in the application's thread.
AppSends ==
    /\ \/ /\ app.pc = "send" /\ (MutexFree \/ SysFreed)
          /\ crashed' = SysFreed
          /\ app' = IF "send" \in calls THEN [app EXCEPT !.pc = "sending"] ELSE Sent
          /\ UNCHANGED answers
       \/ /\ app.pc = "sending"
          /\ app' = Sent
          /\ answers' = IF app.id = None THEN answers
                        ELSE [answers EXCEPT ![app.id] = @ + 1]
          /\ UNCHANGED crashed
    /\ UNCHANGED <<host, pipe, cli, stream, flags, worker, session, calls, sys, daemon, fed>>

\* The end of the session reaches the application's thread, or its user
\* leaves it; a command it had not confirmed stays open.
AppCloses ==
    /\ app.pc = "running" /\ app.events # <<>> /\ Head(app.events) = None
    /\ app' = [app EXCEPT !.pc = "leaving"]
    /\ UNCHANGED <<host, pipe, cli, stream, flags, worker, session, calls, sys, daemon,
                   answers, fed, crashed>>

UserLeaves ==
    /\ app.pc = "running"
    /\ app' = [app EXCEPT !.pc = "leaving"]
    /\ UNCHANGED <<host, pipe, cli, stream, flags, worker, session, calls, sys, daemon,
                   answers, fed, crashed>>

\* An application that still has its context detaches and then reports its
\* exit (infrared_free), or the other way round (nfc_app_free).
AppLeaves ==
    /\ \/ /\ app.pc = "left" \/ (app.pc = "leaving" /\ ~app.ctx)
          /\ app' = NoApp /\ UNCHANGED <<sys, crashed>>
       \/ /\ app.pc = "leaving" /\ app.ctx
          /\ app' = [app EXCEPT !.pc = "detached"]
          /\ sys' = [sys EXCEPT !.callback = FALSE] /\ UNCHANGED crashed
       \/ /\ app.pc = "leaving" /\ app.ctx
          /\ app' = Sending(None, "reported") /\ UNCHANGED <<sys, crashed>>
       \/ /\ app.pc = "reported"
          /\ crashed' = (~app.ctx \/ SysFreed)
          /\ app' = NoApp
          /\ sys' = [sys EXCEPT !.callback = FALSE]
    /\ UNCHANGED <<host, pipe, cli, stream, flags, worker, session, calls, daemon, answers,
                   fed>>

-----------------------------------------------------------------------------
Cli == CliReceives \/ CliFeeds \/ CliFlags \/ CliCloses \/ CliReturns
Worker == Reads \/ Waits \/ Handles \/ Fails \/ Sends \/ ReportsClosed \/ WorkerStops
FreesSystems == LooksForApp \/ CallsApp \/ DetachesApp \/ AwaitsDetach
Daemon == FreesSystems \/ FreesSession
Application == AppAttaches \/ AppReports \/ AppConfirms \/ AppSends \/ AppCloses \/ AppLeaves

Next ==
    /\ ~crashed
    /\ \/ (\E k \in Kind : HostSends(k)) \/ HangUp \/ UserLeaves
       \/ Cli \/ Worker \/ Daemon \/ Application

\* Every thread is scheduled, and a callback returns: pipe_send ends once the
\* host reads or hangs up. Nobody has to leave an application.
Spec ==
    /\ Init /\ [][Next]_vars
    /\ WF_vars(~crashed /\ Cli) /\ WF_vars(~crashed /\ Worker)
    /\ WF_vars(~crashed /\ Daemon) /\ WF_vars(~crashed /\ Application)

-----------------------------------------------------------------------------
(* Properties                                                              *)

\* rpc.h: "It is guaranteed that no callbacks will be called as soon as
\* session is closed". No thread is inside a callback of the transport that
\* rpc_session_close has cleared, and the context the callbacks are passed
\* outlives them.
NoCallbackAfterClose ==
    /\ worker.pc = "sending" \/ app.pc = "sending" => "send" \in calls
    /\ worker.pc = "closing" => "close" \in calls
    /\ cli.pc = "done" => worker.pc = "gone" /\ daemon # "terminated"

\* A command is answered at most once, by its handler or by the application
\* that confirms it, whichever threads answer and whoever left in between.
AnsweredOnce == \A i \in Id : answers[i] =< 1

\* rpc.c: "Save disconnect flag and continue reading buffer". A message that
\* was in the stream in full when the session was closed is still served.
FedIsServed ==
    worker.pc = "gone" /\ ~session.decodeError /\ ~fed.lost => fed.whole \subseteq fed.served

\* An application attached after rpc_system_app_free had looked for one: it was
\* not told of the end.
AttachedLate == daemon = "await" /\ sys.callback

\* A session that is closed comes to an end and the command line returns,
\* whatever was queued or failed to decode, unless an application attached too
\* late to be told of the end: the timer daemon, and the command line with it,
\* then wait for as long as its user stays in it.
CloseEnds == cli.pc = "clearSend" ~> (cli.pc = "done" \/ crashed \/ []AttachedLate)
=============================================================================
