------------------------------ MODULE RpcProofs ------------------------------
(* The safety of an RPC session, for every size of the stream, every number  *)
(* of messages and every kind of message the host may send.                  *)
EXTENDS Rpc, SequenceTheorems, TLAPS

WorkerPc == {"read", "wait", "decoded", "failed", "send", "sending", "closed", "closing",
             "over", "gone"}
CliPc == {"receive", "feed", "flag", "clearSend", "clearClose", "disconnect", "join", "done"}
AppPc == {"none", "starting", "attached", "running", "send", "sending", "leaving",
          "detached", "left", "reported"}
DaemonPc == {"idle", "systems", "call", "detach", "await", "terminated", "free", "done"}
Kinds == {"none", "ping", "stop", "start", "press", "bad"}

Ids == 0 .. MaxMsgs

Host == [sent : Ids, kind : [Id -> Kinds], hungup : BOOLEAN]
Pieces == [id : Id, half : {1, 2}]
CliState == [pc : CliPc, piece : [id : Ids, half : {1, 2}], closeRequest : BOOLEAN]
WorkerState == [pc : WorkerPc, msg : Ids, reply : Ids, then : {"read", "closed"}]
AppState == [pc : AppPc, ctx : BOOLEAN, events : Seq(Ids), id : Ids,
             then : {"running", "left", "reported"}]

\* Values of the variables of the transport.
FeedOK ==
    /\ host \in Host /\ pipe \in Seq(Pieces) /\ stream \in Seq(Pieces)
    /\ cli \in CliState /\ (cli.pc = "feed" => cli.piece \in Pieces)
    /\ flags \in SUBSET {"NewData", "Disconnect"}
    /\ calls \in SUBSET {"send", "close", "terminated"}

\* Values of the variables of the session, its application and its end.
SessionOK ==
    /\ worker \in WorkerState
    /\ worker.pc = "decoded" => worker.msg \in Id
    /\ session \in [terminate : BOOLEAN, decodeError : BOOLEAN]
    /\ sys \in [callback : BOOLEAN, last : Ids]
    /\ app \in AppState
    /\ daemon \in DaemonPc
    /\ answers \in [Id -> Nat]
    /\ fed \in [whole : SUBSET Id, served : SUBSET Id, lost : BOOLEAN]

RpcTypeOK == FeedOK /\ SessionOK

\* The pieces of a sequence, and their order in what the host sends.
In(s) == {s[a] : a \in 1 .. Len(s)}

Rank(p) == 2 * p.id + p.half

Ordered(s) == \A a, b \in 1 .. Len(s) : a < b => Rank(s[a]) < Rank(s[b])

\* What the worker has still to read.
Left == In(stream) \cup In(pipe) \cup (IF cli.pc = "feed" THEN {cli.piece} ELSE {})

\* The pieces come to the worker in the order they were sent, each at most
\* once: what is left comes after every message that was decoded.
Flow ==
    /\ Ordered(stream) /\ Ordered(pipe)
    /\ \A p \in In(stream), q \in In(pipe) : Rank(p) < Rank(q)
    /\ cli.pc = "feed" => /\ \A p \in In(stream) : Rank(p) < Rank(cli.piece)
                          /\ \A q \in In(pipe) : Rank(cli.piece) < Rank(q)
    /\ \A p \in Left : p.id =< host.sent
    /\ \A i \in fed.served : i =< host.sent /\ \A p \in Left : i < p.id
    /\ worker.msg # None =>
         worker.msg =< host.sent /\ \A p \in Left : 2 * worker.msg + 1 < Rank(p)

\* A message that was decoded and is yet to be answered, by i's holder only.
Unanswered(i) == i \in fed.served /\ answers[i] = 0

AtMostOne == \A i \in Id : answers[i] =< 1 /\ (answers[i] > 0 => i \in fed.served)

WorkerOpen ==
    /\ worker.pc = "decoded" =>
         Unanswered(worker.msg) /\ worker.msg \notin {None, sys.last, app.id}
    /\ worker.pc \in {"send", "sending"} /\ worker.reply # None =>
         Unanswered(worker.reply) /\ worker.reply \notin {sys.last, app.id}

AppOpen ==
    /\ sys.last # None => Unanswered(sys.last)
    /\ app.id # None => Unanswered(app.id) /\ app.id # sys.last

OpenOnce == AtMostOne /\ WorkerOpen /\ AppOpen

\* The session is torn down only after the worker has gone, and the command
\* line returns only after the terminated callback.
Teardown ==
    /\ worker.pc = "gone" <=> daemon # "idle"
    /\ cli.pc = "done" => daemon \in {"free", "done"}

\* Nothing is fed after the disconnect, and what was fed in full is decoded or
\* in the stream.
FedKept ==
    /\ "Disconnect" \in flags \/ worker.pc \in {"over", "gone"} => cli.pc \in {"join", "done"}
    /\ worker.pc \in {"over", "gone"} => stream = <<>>
    /\ ~session.decodeError /\ worker.pc # "failed" /\ ~fed.lost =>
         \A i \in fed.whole : i \in fed.served \/ Piece(i, 2) \in In(stream)

RpcInv == RpcTypeOK /\ Flow /\ OpenOnce /\ NoCallbackAfterClose /\ Teardown /\ FedKept

-----------------------------------------------------------------------------
(* Typing                                                                    *)

LEMMA FeedFrame ==
  ASSUME FeedOK, UNCHANGED <<host, pipe, stream, cli, flags, calls>>
  PROVE  FeedOK'
  BY DEF FeedOK

LEMMA SessionFrame ==
  ASSUME SessionOK, UNCHANGED <<worker, session, sys, app, daemon, answers, fed>>
  PROVE  SessionOK'
  BY DEF SessionOK

\* The command line moves on; the piece it holds stays.
LEMMA CliMoves ==
  ASSUME cli \in CliState, NEW p \in CliPc
  PROVE  /\ [cli EXCEPT !.pc = p] \in CliState
         /\ [cli EXCEPT !.pc = p].pc = p
         /\ [cli EXCEPT !.pc = p].piece = cli.piece
  BY DEF CliState

LEMMA FlagMoves ==
  ASSUME cli \in CliState
  PROVE  /\ [cli EXCEPT !.pc = "flag", !.piece = Piece(None, 1)] \in CliState
         /\ [cli EXCEPT !.pc = "flag", !.piece = Piece(None, 1)].pc = "flag"
<1>1. Piece(None, 1) \in [id : Ids, half : {1, 2}] /\ "flag" \in CliPc
  BY RpcAssumption DEF Piece, None, Ids, CliPc
<1> QED BY <1>1 DEF CliState

LEMMA WorkerMoves ==
  ASSUME worker \in WorkerState
  PROVE  /\ \A p \in WorkerPc :
              /\ [worker EXCEPT !.pc = p] \in WorkerState
              /\ [worker EXCEPT !.pc = p].pc = p
              /\ [worker EXCEPT !.pc = p].msg = worker.msg
              /\ [worker EXCEPT !.pc = p].reply = worker.reply
         /\ \A i \in Ids :
              /\ [worker EXCEPT !.msg = i] \in WorkerState
              /\ [worker EXCEPT !.msg = i].pc = worker.pc
              /\ [worker EXCEPT !.msg = i].msg = i
              /\ [worker EXCEPT !.msg = i].reply = worker.reply
  BY DEF WorkerState

LEMMA AnswerMoves ==
  ASSUME NEW i \in Ids, NEW t \in {"read", "closed"}
  PROVE  /\ Answer(i, t) \in WorkerState
         /\ Answer(i, t).pc = "send" /\ Answer(i, t).msg = None /\ Answer(i, t).reply = i
<1>1. None \in Ids /\ "send" \in WorkerPc BY RpcAssumption DEF Ids, None, WorkerPc
<1> QED BY <1>1 DEF Answer, WorkerState

LEMMA AppMoves ==
  ASSUME app \in AppState
  PROVE  /\ \A p \in AppPc :
              /\ [app EXCEPT !.pc = p] \in AppState
              /\ [app EXCEPT !.pc = p].pc = p /\ [app EXCEPT !.pc = p].id = app.id
              /\ [app EXCEPT !.pc = p, !.ctx = TRUE] \in AppState
              /\ [app EXCEPT !.pc = p, !.ctx = TRUE].pc = p
              /\ [app EXCEPT !.pc = p, !.ctx = TRUE].id = app.id
         /\ \A e \in Seq(Ids) :
              /\ [app EXCEPT !.events = e] \in AppState
              /\ [app EXCEPT !.events = e].pc = app.pc /\ [app EXCEPT !.events = e].id = app.id
         /\ [app EXCEPT !.ctx = FALSE] \in AppState
         /\ [app EXCEPT !.ctx = FALSE].pc = app.pc /\ [app EXCEPT !.ctx = FALSE].id = app.id
  BY DEF AppState

LEMMA SendMoves ==
  ASSUME app \in AppState
  PROVE  /\ NoApp \in AppState /\ NoApp.id = None /\ NoApp.pc = "none"
         /\ Sent \in AppState /\ Sent.id = None /\ Sent.pc = app.then
         /\ \A i \in Ids, t \in {"running", "left", "reported"} :
              /\ Sending(i, t) \in AppState /\ Sending(i, t).id = i
              /\ Sending(i, t).pc = "send" /\ Sending(i, t).events = app.events
<1>1. None \in Ids /\ {"none", "send", "running", "left", "reported"} \subseteq AppPc
  BY RpcAssumption DEF Ids, None, AppPc
<1>2. NoApp \in AppState /\ NoApp.id = None /\ NoApp.pc = "none"
  BY <1>1 DEF NoApp, AppState
<1>3. Sent \in AppState /\ Sent.id = None /\ Sent.pc = app.then
  BY <1>1 DEF Sent, AppState
<1>4. ASSUME NEW i \in Ids, NEW t \in {"running", "left", "reported"}
      PROVE  /\ Sending(i, t) \in AppState /\ Sending(i, t).id = i
             /\ Sending(i, t).pc = "send" /\ Sending(i, t).events = app.events
  BY <1>1 DEF Sending, AppState
<1> QED BY <1>2, <1>3, <1>4

\* The command an application takes over when it confirms.
LEMMA ConfirmMoves ==
  ASSUME app \in AppState, app.events # <<>>, NEW i \in Ids
  PROVE  /\ [Sending(i, "running") EXCEPT !.events = Tail(@)] \in AppState
         /\ [Sending(i, "running") EXCEPT !.events = Tail(@)].id = i
         /\ [Sending(i, "running") EXCEPT !.events = Tail(@)].pc = "send"
<1>1. PICK s : s = Sending(i, "running") OBVIOUS
<1>2. s \in AppState /\ s.id = i /\ s.pc = "send" /\ s.events = app.events
  BY <1>1, SendMoves
<1>3. Tail(s.events) \in Seq(Ids) BY <1>2 DEF AppState
<1>4. [s EXCEPT !.events = Tail(@)] \in AppState /\ [s EXCEPT !.events = Tail(@)].id = i
      /\ [s EXCEPT !.events = Tail(@)].pc = "send"
  BY <1>2, <1>3 DEF AppState
<1> QED BY <1>1, <1>4

LEMMA InitTyped == Init => RpcTypeOK
<1> SUFFICES ASSUME Init PROVE RpcTypeOK OBVIOUS
<1>1. 0 \in Ids BY RpcAssumption DEF Ids
<1>2. host \in Host BY <1>1 DEF Init, Host, Kinds
<1>3. cli \in CliState /\ cli.pc # "feed" BY <1>1 DEF Init, CliState, CliPc, Piece, None
<1>4. worker \in WorkerState /\ worker.pc # "decoded"
  BY <1>1 DEF Init, WorkerState, WorkerPc, None
<1>5. app \in AppState /\ daemon \in DaemonPc
  BY <1>1 DEF Init, NoApp, None, AppState, AppPc, DaemonPc
<1>6. sys \in [callback : BOOLEAN, last : Ids] /\ answers \in [Id -> Nat]
      /\ session \in [terminate : BOOLEAN, decodeError : BOOLEAN]
      /\ fed \in [whole : SUBSET Id, served : SUBSET Id, lost : BOOLEAN]
  BY <1>1 DEF Init, None
<1>7. FeedOK BY <1>2, <1>3 DEF Init, FeedOK
<1>8. SessionOK BY <1>4, <1>5, <1>6 DEF Init, SessionOK
<1> QED BY <1>7, <1>8 DEF RpcTypeOK

LEMMA HostTyped ==
  ASSUME RpcTypeOK, (\E k \in Kind : HostSends(k)) \/ HangUp
  PROVE  RpcTypeOK'
<1>0. FeedOK /\ SessionOK BY DEF RpcTypeOK
<1>1. SessionOK' BY <1>0, SessionFrame DEF HostSends, HangUp
<1>2. ASSUME NEW k \in Kind, HostSends(k) PROVE FeedOK'
  <2> DEFINE i == host.sent + 1
  <2>1. i \in Id /\ i \in Ids /\ k \in Kinds
    <3>1. host.sent \in 0 .. MaxMsgs /\ host.sent < MaxMsgs /\ MaxMsgs \in Nat
      BY <1>0, <1>2, RpcAssumption DEF HostSends, FeedOK, Host, Ids
    <3>2. k \in Kinds BY RpcAssumption DEF Kinds
    <3> QED BY <3>1, <3>2 DEF Id, Ids
  <2>2. host' = [host EXCEPT !.sent = i, !.kind[i] = k]
        /\ pipe' = pipe \o <<Piece(i, 1), Piece(i, 2)>>
    BY <1>2 DEF HostSends
  <2> HIDE DEF i
  <2>3. host' \in Host BY <1>0, <2>1, <2>2 DEF FeedOK, Host
  <2>4. Piece(i, 1) \in Pieces /\ Piece(i, 2) \in Pieces BY <2>1 DEF Piece, Pieces
  <2>5. pipe' \in Seq(Pieces) BY <1>0, <2>2, <2>4 DEF FeedOK
  <2> QED BY <1>0, <1>2, <2>3, <2>5 DEF FeedOK, HostSends
<1>3. ASSUME HangUp PROVE FeedOK'
  <2>1. host' \in Host BY <1>0, <1>3 DEF FeedOK, Host, HangUp
  <2>2. pipe' \in Seq(Pieces) BY <1>0, <1>3 DEF FeedOK, HangUp
  <2> QED BY <1>0, <1>3, <2>1, <2>2 DEF FeedOK, HangUp
<1> QED BY <1>1, <1>2, <1>3 DEF RpcTypeOK

LEMMA CliTyped ==
  ASSUME RpcTypeOK, Cli
  PROVE  RpcTypeOK'
<1>0. FeedOK /\ SessionOK /\ cli \in CliState BY DEF RpcTypeOK, FeedOK
<1>1. CASE CliReceives
  <2>1. SessionOK' BY <1>0, <1>1, SessionFrame DEF CliReceives
  <2>2. CASE pipe = <<>>
    <3>1. cli' \in CliState /\ cli'.pc = "clearSend" /\ pipe' = pipe
      BY <1>0, <1>1, <2>2, CliMoves DEF CliReceives, CliPc
    <3> QED BY <1>0, <1>1, <2>1, <3>1 DEF CliReceives, FeedOK, RpcTypeOK
  <2>3. CASE pipe # <<>>
    <3>1. /\ pipe' = Tail(pipe)
          /\ \/ cli' = [cli EXCEPT !.pc = "clearSend"]
             \/ cli' = [cli EXCEPT !.pc = "feed", !.piece = Head(pipe)]
      BY <1>1, <2>3 DEF CliReceives
    <3>2. {"clearSend", "feed"} \subseteq CliPc BY DEF CliPc
    <3>3. Head(pipe) \in Pieces /\ Tail(pipe) \in Seq(Pieces) BY <1>0, <2>3 DEF FeedOK
    <3>4. Pieces \subseteq [id : Ids, half : {1, 2}] BY DEF Pieces, Ids, Id
    <3>5. cli' \in CliState /\ (cli'.pc = "feed" => cli'.piece = Head(pipe))
      <4>1. CASE cli' = [cli EXCEPT !.pc = "clearSend"]
        BY <1>0, <3>2, <4>1, CliMoves
      <4>2. CASE cli' = [cli EXCEPT !.pc = "feed", !.piece = Head(pipe)]
        BY <1>0, <3>2, <3>3, <3>4, <4>2 DEF CliState
      <4> QED BY <3>1, <4>1, <4>2
    <3> QED BY <1>0, <1>1, <2>1, <3>1, <3>3, <3>5 DEF CliReceives, FeedOK, RpcTypeOK
  <2> QED BY <2>2, <2>3
<1>2. CASE CliFeeds
  <2>1. cli' \in CliState /\ cli'.pc = "flag" /\ cli.piece \in Pieces
    BY <1>0, <1>2, FlagMoves DEF CliFeeds, FeedOK
  <2>2. stream' \in Seq(Pieces) BY <1>0, <1>2, <2>1 DEF CliFeeds, FeedOK
  <2>3. FeedOK' BY <1>0, <1>2, <2>1, <2>2 DEF CliFeeds, FeedOK
  <2>4. fed' \in [whole : SUBSET Id, served : SUBSET Id, lost : BOOLEAN]
    <3>1. cli.piece.id \in Id BY <2>1 DEF Pieces
    <3>2. fed' = fed \/ fed' = [fed EXCEPT !.whole = @ \cup {cli.piece.id}]
          \/ fed' = [fed EXCEPT !.lost = TRUE]
      BY <1>2 DEF CliFeeds
    <3>3. fed \in [whole : SUBSET Id, served : SUBSET Id, lost : BOOLEAN]
      BY <1>0 DEF SessionOK
    <3>4. [fed EXCEPT !.whole = @ \cup {cli.piece.id}]
            \in [whole : SUBSET Id, served : SUBSET Id, lost : BOOLEAN]
      BY <3>1, <3>3
    <3>5. [fed EXCEPT !.lost = TRUE]
            \in [whole : SUBSET Id, served : SUBSET Id, lost : BOOLEAN]
      BY <3>3
    <3> QED BY <3>2, <3>3, <3>4, <3>5
  <2>5. SessionOK' BY <1>0, <1>2, <2>4 DEF CliFeeds, SessionOK
  <2> QED BY <2>3, <2>5 DEF RpcTypeOK
<1>3. CASE CliFlags
  <2>1. cli' \in CliState /\ cli'.pc = "receive" BY <1>0, <1>3, CliMoves DEF CliFlags, CliPc
  <2>2. FeedOK' BY <1>0, <1>3, <2>1 DEF CliFlags, FeedOK
  <2>3. SessionOK' BY <1>0, <1>3, SessionFrame DEF CliFlags
  <2> QED BY <2>2, <2>3 DEF RpcTypeOK
<1>4. CASE CliCloses
  <2>1. cli' \in CliState /\ cli'.pc # "feed" BY <1>0, <1>4, CliMoves DEF CliCloses, CliPc
  <2>2. FeedOK' BY <1>0, <1>4, <2>1 DEF CliCloses, FeedOK
  <2>3. SessionOK' BY <1>0, <1>4, SessionFrame DEF CliCloses
  <2> QED BY <2>2, <2>3 DEF RpcTypeOK
<1>5. CASE CliReturns
  <2>1. cli' \in CliState /\ cli'.pc # "feed" BY <1>0, <1>5, CliMoves DEF CliReturns, CliPc
  <2>2. FeedOK' BY <1>0, <1>5, <2>1 DEF CliReturns, FeedOK
  <2>3. SessionOK' BY <1>0, <1>5, SessionFrame DEF CliReturns
  <2> QED BY <2>2, <2>3 DEF RpcTypeOK
<1> QED BY <1>1, <1>2, <1>3, <1>4, <1>5 DEF Cli

\* The worker's step: only its own state, and what it tells the others.
WorkerOK ==
    /\ worker \in WorkerState
    /\ worker.pc = "decoded" => worker.msg \in Id

\* A read: nothing, or the piece at the front, which the worker throws away,
\* begins a message with, ends one with or cannot decode.
ReadsNone == stream = <<>> /\ worker' = [worker EXCEPT !.pc = "wait"] /\ UNCHANGED <<stream, fed>>
ReadsDropped ==
    /\ session.decodeError /\ worker' = [worker EXCEPT !.pc = "wait"] /\ UNCHANGED fed
ReadsFirst ==
    /\ ~session.decodeError /\ Begins(Head(stream)) /\ UNCHANGED fed
    /\ worker' = [worker EXCEPT !.msg = Head(stream).id]
ReadsLast ==
    /\ ~session.decodeError /\ Completes(Head(stream))
    /\ worker' = [worker EXCEPT !.pc = "decoded"]
    /\ fed' = [fed EXCEPT !.served = @ \cup {Head(stream).id}]
ReadsWrong == worker' = [worker EXCEPT !.pc = "failed"] /\ UNCHANGED fed

LEMMA ReadsCases ==
  ASSUME Reads
  PROVE  /\ worker.pc = "read"
         /\ UNCHANGED <<host, pipe, cli, flags, session, calls, sys, app, daemon, answers>>
         /\ \/ ReadsNone
            \/ /\ stream # <<>> /\ stream' = Tail(stream)
               /\ ReadsDropped \/ ReadsFirst \/ ReadsLast \/ ReadsWrong
  BY Zenon DEF Reads, ReadsNone, ReadsDropped, ReadsFirst, ReadsLast, ReadsWrong

LEMMA HeadTyped ==
  ASSUME RpcTypeOK, stream # <<>>
  PROVE  /\ Head(stream) \in Pieces /\ Tail(stream) \in Seq(Pieces)
         /\ Head(stream).id \in Id /\ Head(stream).id \in Ids
<1>1. Head(stream) \in Pieces /\ Tail(stream) \in Seq(Pieces) BY DEF RpcTypeOK, FeedOK
<1> DEFINE p == Head(stream)
<1> HIDE DEF p
<1>2. p \in Pieces => p.id \in Id /\ p.id \in Ids BY DEF Pieces, Id, Ids
<1> QED BY <1>1, <1>2 DEF p

LEMMA ReadsTyped ==
  ASSUME RpcTypeOK, Reads
  PROVE  RpcTypeOK'
<1>0. FeedOK /\ SessionOK /\ worker \in WorkerState BY DEF RpcTypeOK, SessionOK
<1>1. {"wait", "decoded", "failed"} \subseteq WorkerPc BY DEF WorkerPc
<1>2. /\ UNCHANGED <<host, pipe, cli, flags, session, calls, sys, app, daemon, answers>>
      /\ worker.pc = "read"
  BY ReadsCases
<1>3. stream' \in Seq(Pieces) BY <1>0, HeadTyped, ReadsCases DEF ReadsNone, FeedOK
<1>4. FeedOK' BY <1>0, <1>2, <1>3 DEF FeedOK
<1>5. WorkerOK' /\ fed' \in [whole : SUBSET Id, served : SUBSET Id, lost : BOOLEAN]
  <2>0. fed \in [whole : SUBSET Id, served : SUBSET Id, lost : BOOLEAN]
    BY <1>0 DEF SessionOK
  <2>1. CASE ReadsNone \/ ReadsDropped
    <3>1. worker' = [worker EXCEPT !.pc = "wait"] /\ fed' = fed
      BY <2>1 DEF ReadsNone, ReadsDropped
    <3>2. worker' \in WorkerState /\ worker'.pc = "wait" BY <1>0, <1>1, <3>1, WorkerMoves
    <3> QED BY <2>0, <3>1, <3>2 DEF WorkerOK
  <2>2. CASE stream # <<>> /\ ReadsFirst
    <3>1. worker' \in WorkerState /\ worker'.pc = "read" /\ fed' = fed
      BY <1>0, <1>2, <2>2, HeadTyped, WorkerMoves DEF ReadsFirst
    <3> QED BY <2>0, <3>1 DEF WorkerOK
  <2>3. CASE stream # <<>> /\ ReadsLast
    <3>1. worker' \in WorkerState /\ worker'.msg = worker.msg
      BY <1>0, <1>1, <2>3, WorkerMoves DEF ReadsLast
    <3>2. worker.msg \in Id BY <2>3, HeadTyped DEF ReadsLast, Completes
    <3>3. fed' \in [whole : SUBSET Id, served : SUBSET Id, lost : BOOLEAN]
      BY <2>0, <2>3, HeadTyped DEF ReadsLast
    <3> QED BY <3>1, <3>2, <3>3 DEF WorkerOK
  <2>4. CASE ReadsWrong
    <3>1. worker' \in WorkerState /\ worker'.pc = "failed" /\ fed' = fed
      BY <1>0, <1>1, <2>4, WorkerMoves DEF ReadsWrong
    <3> QED BY <2>0, <3>1 DEF WorkerOK
  <2> QED BY <2>1, <2>2, <2>3, <2>4, ReadsCases
<1>6. SessionOK' BY <1>0, <1>2, <1>5 DEF SessionOK, WorkerOK
<1> QED BY <1>4, <1>6 DEF RpcTypeOK

LEMMA WorkerTyped ==
  ASSUME RpcTypeOK, Worker
  PROVE  RpcTypeOK'
<1>0. FeedOK /\ SessionOK /\ worker \in WorkerState /\ app \in AppState
  BY DEF RpcTypeOK, SessionOK
<1>1. None \in Ids BY RpcAssumption DEF Ids, None
<1>2. CASE Reads BY <1>2, ReadsTyped
<1>3. CASE Waits
  <2>1. WorkerOK'
    <3>1. worker' = [worker EXCEPT !.pc = "over"] \/ worker' = [worker EXCEPT !.pc = "read"]
      BY <1>3 DEF Waits
    <3>2. {"over", "read"} \subseteq WorkerPc BY DEF WorkerPc
    <3> QED BY <1>0, <3>1, <3>2, WorkerMoves DEF WorkerOK
  <2>2. session' \in [terminate : BOOLEAN, decodeError : BOOLEAN]
    BY <1>0, <1>3 DEF Waits, SessionOK, Ends
  <2>3. FeedOK' BY <1>0, <1>3 DEF Waits, FeedOK, Kept
  <2>4. SessionOK' BY <1>0, <1>3, <2>1, <2>2 DEF Waits, SessionOK, WorkerOK
  <2> QED BY <2>3, <2>4 DEF RpcTypeOK
<1>4. CASE Handles
  <2> DEFINE i == worker.msg
  <2>1. i \in Id /\ i \in Ids BY <1>0, <1>4 DEF Handles, SessionOK, Id, Ids
  <2>2. WorkerOK'
    <3>1. \/ worker' = Answer(i, "read") \/ worker' = Answer(i, "closed") \/ worker' = Pressed(i)
      BY <1>4 DEF Handles
    <3>2. Pressed(i) \in WorkerState /\ Pressed(i).pc = "read"
      <4>1. "read" \in WorkerPc BY DEF WorkerPc
      <4> QED BY <1>0, <1>1, <4>1 DEF Pressed, WorkerState
    <3> QED BY <2>1, <3>1, <3>2, AnswerMoves DEF WorkerOK
  <2>3. app' \in AppState
    <3>1. \/ app' = app
          \/ app' = [app EXCEPT !.pc = "starting"]
          \/ app' = [app EXCEPT !.events = Append(@, i)]
      BY <1>4 DEF Handles
    <3>2. "starting" \in AppPc BY DEF AppPc
    <3>3. Append(app.events, i) \in Seq(Ids) BY <1>0, <2>1 DEF AppState
    <3> QED BY <1>0, <3>1, <3>2, <3>3, AppMoves
  <2>4. sys' \in [callback : BOOLEAN, last : Ids] BY <1>0, <1>4, <2>1 DEF Handles, SessionOK
  <2>5. FeedOK' BY <1>0, <1>4, FeedFrame DEF Handles
  <2>6. SessionOK' BY <1>0, <1>4, <2>2, <2>3, <2>4 DEF Handles, SessionOK, WorkerOK
  <2> QED BY <2>5, <2>6 DEF RpcTypeOK
<1>5. CASE Fails
  <2>1. WorkerOK' BY <1>1, <1>5, AnswerMoves DEF Fails, WorkerOK
  <2>2. FeedOK' BY <1>0, <1>5 DEF Fails, FeedOK
  <2>3. session' \in [terminate : BOOLEAN, decodeError : BOOLEAN]
    BY <1>0, <1>5 DEF Fails, SessionOK
  <2>4. SessionOK' BY <1>0, <1>5, <2>1, <2>3 DEF Fails, SessionOK, WorkerOK
  <2> QED BY <2>2, <2>4 DEF RpcTypeOK
<1>6. CASE Sends
  <2>1. WorkerOK'
    <3>1. worker' = [worker EXCEPT !.pc = "sending"] \/ worker' = [worker EXCEPT !.pc = worker.then]
      BY <1>6 DEF Sends
    <3>2. worker.then \in {"read", "closed"} BY <1>0 DEF WorkerState
    <3>3. {"sending", "read", "closed"} \subseteq WorkerPc BY DEF WorkerPc
    <3> QED BY <1>0, <3>1, <3>2, <3>3, WorkerMoves DEF WorkerOK
  <2>2. answers' \in [Id -> Nat] BY <1>0, <1>6 DEF Sends, SessionOK
  <2>3. FeedOK' BY <1>0, <1>6, FeedFrame DEF Sends
  <2>4. SessionOK' BY <1>0, <1>6, <2>1, <2>2 DEF Sends, SessionOK, WorkerOK
  <2> QED BY <2>3, <2>4 DEF RpcTypeOK
<1>7. CASE ReportsClosed
  <2>1. WorkerOK'
    <3>1. worker' = [worker EXCEPT !.pc = "closing"] \/ worker' = [worker EXCEPT !.pc = "read"]
      BY <1>7 DEF ReportsClosed
    <3>2. {"closing", "read"} \subseteq WorkerPc BY DEF WorkerPc
    <3> QED BY <1>0, <3>1, <3>2, WorkerMoves DEF WorkerOK
  <2>2. cli' \in CliState /\ cli'.pc = cli.pc /\ cli'.piece = cli.piece
    BY <1>0, <1>7 DEF ReportsClosed, FeedOK, CliState
  <2>3. FeedOK' BY <1>0, <1>7, <2>2 DEF ReportsClosed, FeedOK
  <2>4. SessionOK' BY <1>0, <1>7, <2>1 DEF ReportsClosed, SessionOK, WorkerOK
  <2> QED BY <2>3, <2>4 DEF RpcTypeOK
<1>8. CASE WorkerStops
  <2>1. WorkerOK'
    <3>1. "gone" \in WorkerPc BY DEF WorkerPc
    <3> QED BY <1>0, <1>8, <3>1, WorkerMoves DEF WorkerOK, WorkerStops
  <2>2. FeedOK' BY <1>0, <1>8, FeedFrame DEF WorkerStops
  <2>3. SessionOK' BY <1>0, <1>8, <2>1 DEF WorkerStops, SessionOK, WorkerOK, DaemonPc
  <2> QED BY <2>2, <2>3 DEF RpcTypeOK
<1> QED BY <1>2, <1>3, <1>4, <1>5, <1>6, <1>7, <1>8 DEF Worker

\* What the steps of the timer daemon do to the application.
LEMMA DaemonSteps ==
  ASSUME Daemon
  PROVE  /\ UNCHANGED <<host, pipe, cli, stream, flags, worker, session, calls, answers, fed>>
         /\ \/ app' = app \/ app' = [app EXCEPT !.events = Append(@, None)]
            \/ app' = [app EXCEPT !.ctx = FALSE]
         /\ sys' = sys \/ sys' = [sys EXCEPT !.callback = FALSE]
         /\ daemon # "idle" /\ daemon' \in DaemonPc \ {"idle"}
         /\ daemon \in {"free", "done"} => daemon' \in {"free", "done"}
<1>1. CASE LooksForApp BY <1>1 DEF LooksForApp, DaemonPc
<1>2. CASE CallsApp BY <1>2 DEF CallsApp, DaemonPc
<1>3. CASE DetachesApp BY <1>3 DEF DetachesApp, DaemonPc
<1>4. CASE AwaitsDetach BY <1>4 DEF AwaitsDetach, DaemonPc
<1>5. CASE FreesSession BY <1>5 DEF FreesSession, DaemonPc
<1> QED BY <1>1, <1>2, <1>3, <1>4, <1>5 DEF Daemon, FreesSystems

LEMMA DaemonTyped ==
  ASSUME RpcTypeOK, Daemon
  PROVE  RpcTypeOK'
<1>0. FeedOK /\ SessionOK /\ app \in AppState BY DEF RpcTypeOK, SessionOK
<1>1. FeedOK' BY <1>0, FeedFrame, DaemonSteps
<1>2. app' \in AppState
  <2>1. Append(app.events, None) \in Seq(Ids) BY <1>0, RpcAssumption DEF AppState, None, Ids
  <2> QED BY <1>0, <2>1, AppMoves, DaemonSteps
<1>3. sys' \in [callback : BOOLEAN, last : Ids] BY <1>0, DaemonSteps DEF SessionOK
<1>4. SessionOK' BY <1>0, <1>2, <1>3, DaemonSteps DEF SessionOK
<1> QED BY <1>1, <1>4 DEF RpcTypeOK

\* What the application and its user do.
AppActs == Application \/ UserLeaves

LEMMA AppActsFrame ==
  ASSUME AppActs
  PROVE  UNCHANGED <<host, pipe, cli, stream, flags, worker, session, calls, daemon, fed>>
  BY DEF AppActs, Application, UserLeaves, AppAttaches, AppReports, AppConfirms, AppSends,
         AppCloses, AppLeaves

LEMMA ApplicationTyped ==
  ASSUME RpcTypeOK, AppActs
  PROVE  RpcTypeOK'
<1>0. /\ FeedOK /\ SessionOK /\ app \in AppState /\ answers \in [Id -> Nat]
      /\ sys \in [callback : BOOLEAN, last : Ids]
  BY DEF RpcTypeOK, SessionOK
<1>1. FeedOK' BY <1>0, FeedFrame, AppActsFrame
<1>2. {"attached", "running", "send", "sending", "leaving", "detached"} \subseteq AppPc
  BY DEF AppPc
<1>3. None \in Ids BY RpcAssumption DEF None, Ids
<1>4. /\ app' \in AppState /\ answers' \in [Id -> Nat]
      /\ sys' \in [callback : BOOLEAN, last : Ids]
  <2>1. CASE AppAttaches BY <1>0, <1>2, <2>1, AppMoves DEF AppAttaches
  <2>2. CASE AppReports BY <1>0, <1>3, <2>2, SendMoves DEF AppReports
  <2>3. CASE AppConfirms
    <3>1. sys' \in [callback : BOOLEAN, last : Ids] /\ answers' = answers
      BY <1>0, <1>3, <2>3 DEF AppConfirms
    <3>2. app' \in AppState
      <4>1. sys.last \in Ids BY <1>0
      <4> QED BY <1>0, <2>3, <4>1, ConfirmMoves DEF AppConfirms
    <3> QED BY <1>0, <3>1, <3>2
  <2>4. CASE AppSends
    <3>1. app' = [app EXCEPT !.pc = "sending"] \/ app' = Sent BY <2>4 DEF AppSends
    <3>2. [app EXCEPT !.pc = "sending"] \in AppState /\ Sent \in AppState
      BY <1>0, <1>2, AppMoves, SendMoves
    <3>4. app' \in AppState BY <3>1, <3>2
    <3>3. answers' \in [Id -> Nat] /\ sys' = sys BY <1>0, <2>4 DEF AppSends
    <3> QED BY <1>0, <3>3, <3>4
  <2>5. CASE AppCloses \/ UserLeaves
    BY <1>0, <1>2, <2>5, AppMoves DEF AppCloses, UserLeaves
  <2>6. CASE AppLeaves
    <3>1. \/ app' = NoApp \/ app' = [app EXCEPT !.pc = "detached"]
          \/ app' = Sending(None, "reported")
      BY <2>6, Zenon DEF AppLeaves
    <3>2. /\ NoApp \in AppState /\ [app EXCEPT !.pc = "detached"] \in AppState
          /\ Sending(None, "reported") \in AppState
      BY <1>0, <1>2, <1>3, AppMoves, SendMoves
    <3>4. app' \in AppState BY <3>1, <3>2
    <3>3. answers' = answers /\ (sys' = sys \/ sys' = [sys EXCEPT !.callback = FALSE])
      BY <2>6, Zenon DEF AppLeaves
    <3> QED BY <1>0, <3>3, <3>4
  <2> QED BY <2>1, <2>2, <2>3, <2>4, <2>5, <2>6 DEF AppActs, Application
<1>5. SessionOK' BY <1>0, <1>4, AppActsFrame DEF SessionOK
<1> QED BY <1>1, <1>5 DEF RpcTypeOK

LEMMA NextTyped == RpcTypeOK /\ [Next]_vars => RpcTypeOK'
<1> SUFFICES ASSUME RpcTypeOK, [Next]_vars PROVE RpcTypeOK' OBVIOUS
<1>1. CASE UNCHANGED vars
  BY <1>1, FeedFrame, SessionFrame DEF vars, RpcTypeOK
<1> QED BY <1>1, HostTyped, CliTyped, WorkerTyped, DaemonTyped, ApplicationTyped
    DEF Next, AppActs

-----------------------------------------------------------------------------
(* Sequences of pieces                                                       *)

LEMMA InTail ==
  ASSUME NEW T, NEW s \in Seq(T), s # <<>>
  PROVE  In(s) = In(Tail(s)) \cup {Head(s)}
<1> DEFINE n == Len(s)
<1>1. /\ n \in Nat /\ n > 0 /\ Len(Tail(s)) = n - 1 /\ Head(s) = s[1]
      /\ \A a \in 1 .. n - 1 : Tail(s)[a] = s[a + 1]
  OBVIOUS
<1>2. ASSUME NEW a \in 1 .. n, a # 1 PROVE s[a] \in In(Tail(s))
  <2>1. a - 1 \in 1 .. n - 1 /\ Tail(s)[a - 1] = s[a] BY <1>1, <1>2
  <2> QED BY <1>1, <2>1 DEF In
<1>3. ASSUME NEW a \in 1 .. n - 1 PROVE Tail(s)[a] \in In(s)
  <2>1. a + 1 \in 1 .. n /\ Tail(s)[a] = s[a + 1] BY <1>1, <1>3
  <2> QED BY <2>1 DEF In
<1>4. In(s) \subseteq In(Tail(s)) \cup {Head(s)} BY <1>1, <1>2 DEF In
<1>5. In(Tail(s)) \subseteq In(s) BY <1>1, <1>3 DEF In
<1>6. Head(s) \in In(s) BY <1>1 DEF In
<1> QED BY <1>4, <1>5, <1>6

LEMMA InAppend ==
  ASSUME NEW T, NEW s \in Seq(T), NEW e \in T
  PROVE  In(Append(s, e)) = In(s) \cup {e}
<1> DEFINE n == Len(s)
<1>1. /\ n \in Nat /\ Len(Append(s, e)) = n + 1 /\ Append(s, e)[n + 1] = e
      /\ \A a \in 1 .. n : Append(s, e)[a] = s[a]
  OBVIOUS
<1> QED BY <1>1 DEF In

LEMMA OrderedTail ==
  ASSUME NEW s \in Seq(Pieces), s # <<>>, Ordered(s)
  PROVE  /\ Ordered(Tail(s))
         /\ \A p \in In(Tail(s)) : Rank(Head(s)) < Rank(p)
<1> DEFINE n == Len(s)
<1>1. /\ n \in Nat /\ n > 0 /\ Len(Tail(s)) = n - 1 /\ Head(s) = s[1]
      /\ \A a \in 1 .. n - 1 : Tail(s)[a] = s[a + 1]
  OBVIOUS
<1>2. ASSUME NEW a \in 1 .. n - 1, NEW b \in 1 .. n - 1, a < b
      PROVE  Rank(Tail(s)[a]) < Rank(Tail(s)[b])
  <2>1. a + 1 \in 1 .. n /\ b + 1 \in 1 .. n /\ a + 1 < b + 1 BY <1>1, <1>2
  <2>2. Rank(s[a + 1]) < Rank(s[b + 1]) BY <2>1 DEF Ordered
  <2> QED BY <1>1, <2>2
<1>3. ASSUME NEW a \in 1 .. n - 1 PROVE Rank(s[1]) < Rank(Tail(s)[a])
  <2>1. a + 1 \in 1 .. n /\ 1 \in 1 .. n /\ 1 < a + 1 BY <1>1, <1>3
  <2>2. Rank(s[1]) < Rank(s[a + 1]) BY <2>1 DEF Ordered
  <2> QED BY <1>1, <2>2
<1>4. Ordered(Tail(s)) BY <1>1, <1>2 DEF Ordered
<1> QED BY <1>1, <1>3, <1>4 DEF In

LEMMA OrderedAppend ==
  ASSUME NEW s \in Seq(Pieces), NEW e \in Pieces, Ordered(s),
         \A p \in In(s) : Rank(p) < Rank(e)
  PROVE  Ordered(Append(s, e))
<1> DEFINE n == Len(s)
           t == Append(s, e)
<1>1. /\ n \in Nat /\ Len(t) = n + 1 /\ t[n + 1] = e
      /\ \A a \in 1 .. n : t[a] = s[a]
  OBVIOUS
<1> HIDE DEF t
<1>2. ASSUME NEW a \in 1 .. n + 1, NEW b \in 1 .. n + 1, a < b
      PROVE  Rank(t[a]) < Rank(t[b])
  <2>1. a \in 1 .. n BY <1>1, <1>2
  <2>2. CASE b = n + 1 BY <1>1, <2>1, <2>2 DEF In
  <2>3. CASE b \in 1 .. n
    <3>1. Rank(s[a]) < Rank(s[b]) BY <1>2, <2>1, <2>3 DEF Ordered
    <3> QED BY <1>1, <2>1, <2>3, <3>1
  <2> QED BY <1>1, <2>2, <2>3
<1> QED BY <1>1, <1>2 DEF Ordered, t

LEMMA Front ==
  ASSUME NEW s \in Seq(Pieces), s # <<>>, Ordered(s)
  PROVE  /\ Ordered(SubSeq(s, 1, Len(s) - 1))
         /\ In(SubSeq(s, 1, Len(s) - 1)) \subseteq In(s)
<1> DEFINE n == Len(s)
           t == SubSeq(s, 1, n - 1)
<1>0. n \in Nat /\ n > 0 OBVIOUS
<1>1. Len(t) = n - 1 /\ \A a \in 1 .. n - 1 : t[a] = s[a]
  <2>1. 1 \in Int /\ n - 1 \in Int /\ \A i \in 1 .. n - 1 : s[i] \in Pieces BY <1>0
  <2>2. /\ Len(t) = IF 1 <= n - 1 THEN (n - 1) - 1 + 1 ELSE 0
        /\ \A i \in 1 .. (n - 1) - 1 + 1 : t[i] = s[1 + i - 1]
    BY <2>1, SubSeqProperties
  <2> HIDE DEF t, n
  <2>3. \A i \in 1 .. n - 1 : i \in 1 .. (n - 1) - 1 + 1 /\ 1 + i - 1 = i BY <1>0
  <2>4. Len(t) = n - 1
    <3>1. CASE n = 1 BY <2>2, <3>1
    <3>2. CASE n > 1
      <4>1. 1 <= n - 1 BY <1>0, <3>2
      <4> QED BY <1>0, <2>2, <4>1
    <3> QED BY <1>0, <3>1, <3>2
  <2> QED BY <2>2, <2>3, <2>4
<1> HIDE DEF t
<1>2. \A a \in 1 .. n - 1 : a \in 1 .. n BY <1>0
<1>3. Ordered(t) BY <1>1, <1>2 DEF Ordered
<1>4. In(t) \subseteq In(s) BY <1>1, <1>2 DEF In
<1> QED BY <1>3, <1>4 DEF t

LEMMA SentTwice ==
  ASSUME NEW s \in Seq(Pieces), NEW p \in Pieces, NEW q \in Pieces
  PROVE  s \o <<p, q>> = Append(Append(s, p), q)
  OBVIOUS

-----------------------------------------------------------------------------
(* The order of the pieces                                                   *)

LEMMA PieceRank ==
  ASSUME NEW p \in Pieces
  PROVE  /\ p.id \in Nat /\ p.id > 0 /\ Rank(p) \in Nat
         /\ 2 * p.id < Rank(p) /\ Rank(p) =< 2 * p.id + 2
         /\ p.half = 2 => Rank(p) = 2 * p.id + 2
         /\ p.half = 1 => Rank(p) = 2 * p.id + 1
  BY DEF Pieces, Rank, Id

LEMMA InPieces ==
  ASSUME FeedOK
  PROVE  In(stream) \subseteq Pieces /\ In(pipe) \subseteq Pieces /\ Left \subseteq Pieces
<1>1. \A s \in Seq(Pieces) : In(s) \subseteq Pieces BY DEF In
<1> QED BY <1>1 DEF FeedOK, Left

\* Pieces that are lost or read change nothing of the order of the others.
LEMMA FlowShrinks ==
  ASSUME Flow, Ordered(stream'), Ordered(pipe'),
         In(stream') \subseteq In(stream), In(pipe') \subseteq In(pipe),
         cli'.pc = "feed" => cli.pc = "feed" /\ cli'.piece = cli.piece,
         host'.sent = host.sent, fed'.served = fed.served,
         worker'.msg \in {worker.msg, None}
  PROVE  Flow'
<1>1. Left' \subseteq Left BY DEF Left
<1>2. Left' = In(stream') \cup In(pipe') \cup (IF cli'.pc = "feed" THEN {cli'.piece} ELSE {})
  BY DEF Left, In
<1>3. \A p \in In(stream'), q \in In(pipe') : Rank(p) < Rank(q) BY DEF Flow
<1>4. cli'.pc = "feed" => /\ \A p \in In(stream') : Rank(p) < Rank(cli'.piece)
                          /\ \A q \in In(pipe') : Rank(cli'.piece) < Rank(q)
  BY DEF Flow
<1>5. \A p \in Left' : p.id =< host'.sent BY <1>1 DEF Flow
<1>6. \A i \in fed'.served : i =< host'.sent /\ \A p \in Left' : i < p.id BY <1>1 DEF Flow
<1>7. worker'.msg # None =>
         worker'.msg =< host'.sent /\ \A p \in Left' : 2 * worker'.msg + 1 < Rank(p)
  BY <1>1 DEF Flow
<1>8. Ordered(stream)' /\ Ordered(pipe)' BY DEF Ordered, Rank
<1> QED BY <1>3, <1>4, <1>5, <1>6, <1>7, <1>8 DEF Flow, In, Rank

LEMMA SendsFlow ==
  ASSUME RpcTypeOK, Flow, NEW k \in Kind, HostSends(k)
  PROVE  Flow'
<1>0. /\ FeedOK /\ host.sent \in Nat /\ MaxMsgs \in Nat /\ host.sent < MaxMsgs
      /\ worker.msg \in Nat /\ fed.served \in SUBSET Nat
  BY RpcAssumption
     DEF RpcTypeOK, FeedOK, Host, Ids, HostSends, SessionOK, WorkerState, Id
<1> DEFINE i == host.sent + 1
           p1 == Piece(i, 1)
           p2 == Piece(i, 2)
<1>1. /\ p1 \in Pieces /\ p2 \in Pieces /\ p1.id = i /\ p2.id = i
      /\ Rank(p1) = 2 * i + 1 /\ Rank(p2) = 2 * i + 2
  BY <1>0 DEF Piece, Pieces, Rank, Id
<1>2. pipe \in Seq(Pieces) /\ pipe' = Append(Append(pipe, p1), p2)
  BY <1>0, <1>1, SentTwice DEF HostSends, FeedOK
<1>3. host'.sent = i BY <1>0 DEF HostSends, FeedOK, Host
<1>4. UNCHANGED <<cli, stream, fed, worker>> BY DEF HostSends
<1> HIDE DEF p1, p2
<1>5. Append(pipe, p1) \in Seq(Pieces) /\ In(Append(pipe, p1)) = In(pipe) \cup {p1}
  BY <1>1, <1>2, InAppend
<1>6. In(pipe') = In(pipe) \cup {p1, p2}
  <2> DEFINE t == Append(pipe, p1)
  <2>1. t \in Seq(Pieces) /\ In(t) = In(pipe) \cup {p1} /\ pipe' = Append(t, p2)
    BY <1>2, <1>5
  <2> HIDE DEF t
  <2>2. In(Append(t, p2)) = In(t) \cup {p2} BY <1>1, <2>1, InAppend
  <2> QED BY <2>1, <2>2
<1>7. \A p \in Left : p \in Pieces /\ Rank(p) < 2 * i + 1
  <2>1. ASSUME NEW p \in Left PROVE p \in Pieces /\ Rank(p) < 2 * i + 1
    <3>1. p \in Pieces /\ p.id =< host.sent BY <1>0, <2>1, InPieces DEF Flow
    <3>2. p.id \in Nat /\ Rank(p) \in Nat /\ Rank(p) =< 2 * p.id + 2 BY <3>1, PieceRank
    <3> QED BY <1>0, <3>1, <3>2
  <2> QED BY <2>1
<1>8. In(pipe) \subseteq Left /\ In(stream) \subseteq Left
      /\ (cli.pc = "feed" => cli.piece \in Left)
  BY DEF Left
<1>9. Ordered(Append(pipe, p1))
  BY <1>1, <1>2, <1>7, <1>8, OrderedAppend DEF Flow
<1>10. Ordered(pipe')
  <2>1. \A p \in In(Append(pipe, p1)) : Rank(p) < Rank(p2)
    <3>1. \A p \in In(pipe) : Rank(p) \in Nat /\ Rank(p) < 2 * i + 1
      BY <1>7, <1>8, PieceRank
    <3> QED BY <1>0, <1>1, <1>5, <3>1
  <2> QED BY <1>1, <1>2, <1>5, <1>9, <2>1, OrderedAppend
<1>11. Left' = Left \cup {p1, p2} BY <1>4, <1>6 DEF Left
<1>12. \A p \in Left : Rank(p) < Rank(p1) /\ Rank(p) < Rank(p2)
  <2>1. \A p \in Left : Rank(p) \in Nat BY <1>7, PieceRank
  <2> QED BY <1>0, <1>1, <1>7, <2>1
<1>13. Ordered(stream) /\ \A p \in In(stream), q \in In(pipe') : Rank(p) < Rank(q)
  BY <1>6, <1>8, <1>12 DEF Flow
<1>14. cli.pc = "feed" => /\ \A p \in In(stream) : Rank(p) < Rank(cli.piece)
                          /\ \A q \in In(pipe') : Rank(cli.piece) < Rank(q)
  BY <1>6, <1>8, <1>12 DEF Flow
<1>15. \A p \in Left' : p.id =< i
  <2>1. \A p \in Left : p.id \in Nat /\ p.id =< host.sent BY <1>7, PieceRank DEF Flow
  <2> QED BY <1>0, <1>1, <1>11, <2>1
<1>16. \A j \in fed.served : j =< i /\ \A p \in Left' : j < p.id
  <2>1. ASSUME NEW j \in fed.served PROVE j =< i /\ \A p \in Left' : j < p.id
    <3>1. j \in Nat /\ j =< host.sent /\ \A p \in Left : j < p.id BY <1>0, <2>1 DEF Flow
    <3> QED BY <1>0, <1>1, <1>11, <3>1
  <2> QED BY <2>1
<1>17. worker.msg # None =>
         worker.msg =< i /\ \A p \in Left' : 2 * worker.msg + 1 < Rank(p)
  <2>1. worker.msg # None => worker.msg =< host.sent /\ \A p \in Left : 2 * worker.msg + 1 < Rank(p)
    BY DEF Flow
  <2> QED BY <1>0, <1>1, <1>11, <2>1
<1> HIDE DEF i
<1> QED BY <1>3, <1>4, <1>10, <1>13, <1>14, <1>15, <1>16, <1>17 DEF Flow

LEMMA ReceivesFlow ==
  ASSUME RpcTypeOK, Flow, CliReceives
  PROVE  Flow'
<1>0. FeedOK /\ pipe \in Seq(Pieces) /\ cli \in CliState BY DEF RpcTypeOK, FeedOK
<1>1. UNCHANGED <<host, stream, worker, fed>> /\ cli.pc = "receive" BY DEF CliReceives
<1>2. Ordered(stream) /\ Ordered(pipe) BY DEF Flow
<1>3. CASE pipe = <<>>
  <2>1. pipe' = pipe /\ cli'.pc = "clearSend" BY <1>0, <1>3, CliMoves DEF CliReceives, CliPc
  <2> QED BY <1>1, <1>2, <2>1, FlowShrinks
<1>4. CASE pipe # <<>>
  <2> DEFINE e == Head(pipe)
  <2>1. /\ pipe' = Tail(pipe) /\ Ordered(pipe') /\ In(pipe) = In(pipe') \cup {e}
        /\ \A q \in In(pipe') : Rank(e) < Rank(q)
    BY <1>0, <1>2, <1>4, OrderedTail, InTail DEF CliReceives
  <2>2. cli'.pc \in {"clearSend", "feed"} /\ (cli'.pc = "feed" => cli'.piece = e)
    BY <1>0, <1>4 DEF CliReceives, CliState
  <2> HIDE DEF e
  <2>3. CASE cli'.pc # "feed" BY <1>1, <1>2, <2>1, <2>3, FlowShrinks
  <2>4. CASE cli'.pc = "feed"
    <3>1. Left' = Left BY <1>1, <2>1, <2>2, <2>4 DEF Left
    <3>2. \A p \in In(stream) : Rank(p) < Rank(e) BY <2>1 DEF Flow
    <3>3. \A p \in In(stream), q \in In(pipe') : Rank(p) < Rank(q) BY <2>1 DEF Flow
    <3> QED BY <1>1, <1>2, <2>1, <2>2, <3>1, <3>2, <3>3 DEF Flow
  <2> QED BY <2>3, <2>4
<1> QED BY <1>3, <1>4

LEMMA FeedsFlow ==
  ASSUME RpcTypeOK, Flow, CliFeeds
  PROVE  Flow'
<1>0. /\ FeedOK /\ stream \in Seq(Pieces) /\ cli \in CliState
      /\ cli.pc = "feed" /\ cli.piece \in Pieces
  BY DEF RpcTypeOK, FeedOK, CliFeeds
<1>1. UNCHANGED <<host, pipe, worker>> BY DEF CliFeeds
<1>2. cli'.pc = "flag" BY <1>0, FlagMoves DEF CliFeeds
<1>3. fed'.served = fed.served
  <2>1. fed \in [whole : SUBSET Id, served : SUBSET Id, lost : BOOLEAN]
    BY DEF RpcTypeOK, SessionOK
  <2> QED BY <2>1 DEF CliFeeds
<1>4. Ordered(stream) /\ Ordered(pipe) BY DEF Flow
<1>5. CASE stream' = stream BY <1>1, <1>2, <1>3, <1>4, <1>5, FlowShrinks
<1>6. CASE stream' = Append(stream, cli.piece)
  <2>1. In(stream') = In(stream) \cup {cli.piece} BY <1>0, <1>6, InAppend
  <2>2. Ordered(stream') BY <1>0, <1>4, <1>6, OrderedAppend DEF Flow
  <2>3. Left' = Left BY <1>0, <1>1, <1>2, <2>1 DEF Left
  <2>4. \A p \in In(stream'), q \in In(pipe) : Rank(p) < Rank(q) BY <1>0, <2>1 DEF Flow
  <2> QED BY <1>1, <1>2, <1>3, <1>4, <2>2, <2>3, <2>4 DEF Flow
<1> QED BY <1>5, <1>6 DEF CliFeeds

\* Decoding a message takes its last piece: what is left comes after it.
LEMMA ReadsFlow ==
  ASSUME RpcTypeOK, Flow, Reads
  PROVE  /\ Flow'
         /\ stream # <<>> /\ ReadsLast => Head(stream).id \notin fed.served
<1>0. FeedOK /\ stream \in Seq(Pieces) /\ worker \in WorkerState
  BY DEF RpcTypeOK, FeedOK, SessionOK
<1>1. /\ UNCHANGED <<host, pipe, cli>>
      /\ worker.pc = "read" /\ Ordered(stream) /\ Ordered(pipe)
  BY ReadsCases DEF Flow
<1>2. {"wait", "decoded", "failed"} \subseteq WorkerPc BY DEF WorkerPc
<1>3. CASE ReadsNone
  <2>1. worker'.msg = worker.msg BY <1>0, <1>2, <1>3, WorkerMoves DEF ReadsNone
  <2> QED BY <1>1, <1>3, <2>1, FlowShrinks DEF ReadsNone
<1>4. CASE /\ stream # <<>> /\ stream' = Tail(stream)
           /\ ReadsDropped \/ ReadsFirst \/ ReadsLast \/ ReadsWrong
  <2>0. PICK e : e = Head(stream) OBVIOUS
  <2>1. /\ Ordered(stream') /\ In(stream) = In(stream') \cup {e}
        /\ \A q \in In(stream') : Rank(e) < Rank(q)
    BY <1>0, <1>1, <1>4, <2>0, OrderedTail, InTail
  <2>2. e \in Pieces /\ e.id \in Ids /\ e \in Left
    BY <1>4, <2>0, <2>1, HeadTyped DEF Left
  <2>3. Left' \subseteq Left BY <1>1, <2>1 DEF Left
  <2>4. \A p \in Left' : p \in Pieces /\ Rank(e) < Rank(p)
    <3>1. \A q \in In(pipe) : Rank(e) < Rank(q) BY <2>1 DEF Flow
    <3>2. cli.pc = "feed" => Rank(e) < Rank(cli.piece) BY <2>1 DEF Flow
    <3>3. Left \subseteq Pieces BY <1>0, InPieces
    <3> QED BY <1>1, <2>1, <2>3, <3>1, <3>2, <3>3 DEF Left
  <2>5. e.id \notin fed.served
    <3>1. \A i \in fed.served : i < e.id BY <2>2 DEF Flow
    <3>2. e.id \in Nat BY <2>2, PieceRank
    <3> QED BY <3>1, <3>2
  <2>6. CASE ReadsDropped \/ ReadsWrong
    <3>1. worker'.msg = worker.msg /\ fed' = fed
      <4>1. /\ fed' = fed
            /\ worker' = [worker EXCEPT !.pc = "wait"] \/ worker' = [worker EXCEPT !.pc = "failed"]
        BY <2>6, Zenon DEF ReadsDropped, ReadsWrong
      <4> QED BY <1>0, <4>1 DEF WorkerState
    <3>2. Flow' BY <1>1, <2>1, <3>1, FlowShrinks
    <3> QED BY <2>0, <2>5, <3>2
  <2>7. CASE ReadsFirst
    <3>1. worker'.msg = e.id /\ fed' = fed /\ e.half = 1
      BY <1>0, <2>0, <2>2, <2>7, WorkerMoves DEF ReadsFirst, Begins
    <3>2. Rank(e) = 2 * e.id + 1 /\ e.id =< host.sent BY <2>2, <3>1, PieceRank DEF Flow
    <3>3. \A p \in Left' : 2 * e.id + 1 < Rank(p) BY <2>4, <3>2
    <3>4. \A p \in In(stream'), q \in In(pipe') : Rank(p) < Rank(q) BY <1>1, <2>1 DEF Flow
    <3>5. cli'.pc = "feed" => /\ \A p \in In(stream') : Rank(p) < Rank(cli'.piece)
                              /\ \A q \in In(pipe') : Rank(cli'.piece) < Rank(q)
      BY <1>1, <2>1 DEF Flow
    <3>6. /\ \A p \in Left' : p.id =< host.sent
          /\ \A i \in fed.served : i =< host.sent /\ \A p \in Left' : i < p.id
      BY <2>3 DEF Flow
    <3>7. Flow' BY <1>1, <2>1, <3>1, <3>2, <3>3, <3>4, <3>5, <3>6 DEF Flow
    <3> QED BY <2>0, <2>5, <3>7
  <2>8. CASE ReadsLast
    <3>1. worker'.msg = e.id /\ worker.msg = e.id /\ fed'.served = fed.served \cup {e.id}
      <4>1. fed \in [whole : SUBSET Id, served : SUBSET Id, lost : BOOLEAN]
        BY DEF RpcTypeOK, SessionOK
      <4> QED BY <1>0, <1>2, <2>0, <2>8, <4>1, WorkerMoves DEF ReadsLast, Completes
    <3>2. e.id \in Nat /\ e.id > 0 /\ Rank(e) \in Nat /\ Rank(e) =< 2 * e.id + 2
          /\ e.id =< host.sent /\ 2 * e.id + 1 < Rank(e)
      <4>1. e.id \in Nat /\ e.id > 0 /\ Rank(e) \in Nat /\ Rank(e) =< 2 * e.id + 2
        BY <2>2, PieceRank
      <4>2. worker.msg # None BY <3>1, <4>1 DEF None
      <4> QED BY <2>2, <3>1, <4>1, <4>2 DEF Flow
    <3>3. Rank(e) = 2 * e.id + 2 BY <3>2
    <3>4. \A p \in Left' : e.id < p.id
      <4>1. ASSUME NEW p \in Left' PROVE e.id < p.id
        <5>1. p.id \in Nat /\ Rank(p) \in Nat /\ Rank(p) =< 2 * p.id + 2 /\ Rank(e) < Rank(p)
          BY <2>4, <4>1, PieceRank
        <5> QED BY <3>2, <3>3, <5>1
      <4> QED BY <4>1
    <3>5. \A p \in In(stream'), q \in In(pipe') : Rank(p) < Rank(q) BY <1>1, <2>1 DEF Flow
    <3>6. cli'.pc = "feed" => /\ \A p \in In(stream') : Rank(p) < Rank(cli'.piece)
                              /\ \A q \in In(pipe') : Rank(cli'.piece) < Rank(q)
      BY <1>1, <2>1 DEF Flow
    <3>7. /\ \A p \in Left' : p.id =< host.sent
          /\ \A i \in fed'.served : i =< host.sent /\ \A p \in Left' : i < p.id
      BY <2>3, <3>1, <3>2, <3>4 DEF Flow
    <3>8. \A p \in Left' : 2 * e.id + 1 < Rank(p) BY <2>3, <3>1, <3>2 DEF Flow, None
    <3>9. Flow' BY <1>1, <2>1, <3>1, <3>2, <3>5, <3>6, <3>7, <3>8 DEF Flow
    <3> QED BY <2>0, <2>5, <3>9
  <2> QED BY <1>4, <2>6, <2>7, <2>8
<1> QED BY <1>3, <1>4, ReadsCases DEF ReadsNone
LEMMA OtherFlow ==
  ASSUME RpcTypeOK, Flow,
         \/ HangUp \/ CliFlags \/ CliCloses \/ CliReturns
         \/ Waits \/ Handles \/ Fails \/ Sends \/ ReportsClosed \/ WorkerStops
         \/ Daemon \/ AppActs
  PROVE  Flow'
<1>0. /\ FeedOK /\ stream \in Seq(Pieces) /\ pipe \in Seq(Pieces) /\ cli \in CliState
      /\ worker \in WorkerState /\ Ordered(stream) /\ Ordered(pipe)
  BY DEF RpcTypeOK, FeedOK, SessionOK, Flow
<1>1. /\ \A p \in CliPc : [cli EXCEPT !.pc = p].pc = p
      /\ \A p \in WorkerPc : [worker EXCEPT !.pc = p].msg = worker.msg
  BY <1>0, CliMoves, WorkerMoves
<1>2. CASE HangUp
  <2>1. UNCHANGED <<cli, stream, worker, fed>> BY <1>2 DEF HangUp
  <2>2. host'.sent = host.sent
    <3>1. host \in Host /\ host' = [host EXCEPT !.hungup = TRUE]
      BY <1>0, <1>2 DEF FeedOK, HangUp
    <3> QED BY <3>1 DEF Host
  <2>3. Ordered(pipe') /\ In(pipe') \subseteq In(pipe)
    <3>1. pipe' = pipe \/ (pipe # <<>> /\ pipe' = SubSeq(pipe, 1, Len(pipe) - 1))
      BY <1>2 DEF HangUp
    <3> QED BY <1>0, <3>1, Front
  <2> QED BY <1>0, <2>1, <2>2, <2>3, FlowShrinks
<1>3. CASE CliFlags \/ CliCloses \/ CliReturns
  <2>1. UNCHANGED <<host, pipe, stream, worker, fed>>
    BY <1>3 DEF CliFlags, CliCloses, CliReturns
  <2>2. cli'.pc # "feed"
    BY <1>1, <1>3 DEF CliFlags, CliCloses, CliReturns, CliPc
  <2> QED BY <1>0, <2>1, <2>2, FlowShrinks
<1>4. CASE Waits \/ Sends \/ WorkerStops
  <2>1. UNCHANGED <<host, pipe, cli, stream, fed>> BY <1>4 DEF Waits, Sends, WorkerStops
  <2>2. worker'.msg = worker.msg
    <3>1. \E p \in WorkerPc : worker' = [worker EXCEPT !.pc = p]
      <4>1. worker.then \in WorkerPc BY <1>0 DEF WorkerState, WorkerPc
      <4> QED BY <1>4, <4>1 DEF Waits, Sends, WorkerStops, WorkerPc
    <3> QED BY <1>1, <3>1
  <2> QED BY <1>0, <2>1, <2>2, FlowShrinks
<1>5. CASE Handles
  <2>1. UNCHANGED <<host, pipe, cli, stream, fed>> BY <1>5 DEF Handles
  <2>2. worker'.msg = None
    <3>1. \/ worker' = Answer(worker.msg, "read") \/ worker' = Answer(worker.msg, "closed")
          \/ worker' = Pressed(worker.msg)
      BY <1>5 DEF Handles
    <3>2. worker.msg \in Ids BY <1>0 DEF WorkerState
    <3>3. Pressed(worker.msg).msg = None BY <1>0 DEF Pressed, WorkerState
    <3> QED BY <3>1, <3>2, <3>3, AnswerMoves
  <2> QED BY <1>0, <2>1, <2>2, FlowShrinks
<1>6. CASE Fails
  <2>1. UNCHANGED <<host, pipe, cli, fed>> BY <1>6 DEF Fails
  <2>2. worker'.msg = None BY <1>6 DEF Fails, Answer
  <2>3. Ordered(stream') /\ In(stream') \subseteq In(stream)
    <3>1. stream' = stream \/ stream' = <<>> BY <1>6 DEF Fails
    <3>2. Ordered(<<>>) /\ In(<<>>) = {} BY DEF Ordered, In
    <3> QED BY <1>0, <3>1, <3>2
  <2> QED BY <1>0, <2>1, <2>2, <2>3, FlowShrinks
<1>7. CASE ReportsClosed
  <2>1. UNCHANGED <<host, pipe, stream, fed>> BY <1>7 DEF ReportsClosed
  <2>2. cli'.pc = cli.pc /\ cli'.piece = cli.piece
    BY <1>0, <1>7 DEF ReportsClosed, CliState
  <2>3. worker'.msg = worker.msg
    <3>1. worker' = [worker EXCEPT !.pc = "closing"] \/ worker' = [worker EXCEPT !.pc = "read"]
      BY <1>7 DEF ReportsClosed
    <3> QED BY <1>0, <3>1 DEF WorkerState
  <2> QED BY <1>0, <2>1, <2>2, <2>3, FlowShrinks
<1>8. CASE Daemon \/ AppActs
  <2>1. UNCHANGED <<host, pipe, cli, stream, worker, fed>>
    BY <1>8, DaemonSteps, AppActsFrame
  <2> QED BY <1>0, <2>1, FlowShrinks
<1> QED BY <1>2, <1>3, <1>4, <1>5, <1>6, <1>7, <1>8

\* The order of the pieces is kept by every step.
LEMMA NextFlow == RpcTypeOK /\ Flow /\ [Next]_vars => Flow'
<1> SUFFICES ASSUME RpcTypeOK, Flow, [Next]_vars PROVE Flow' OBVIOUS
<1>1. CASE UNCHANGED vars
  <2>1. UNCHANGED <<host, pipe, stream, cli, worker, fed>> BY <1>1 DEF vars
  <2> QED BY <2>1, FlowShrinks DEF Flow
<1> QED BY <1>1, SendsFlow, ReceivesFlow, FeedsFlow, ReadsFlow, OtherFlow
    DEF Next, Cli, Worker, AppActs
-----------------------------------------------------------------------------
(* A message has one holder until it is answered                             *)

\* No message is decoded, taken over or answered; a holder may let go of one.
LEMMA OpenFrame ==
  ASSUME OpenOnce, answers' = answers, fed'.served = fed.served,
         sys'.last = sys.last, app'.id \in {app.id, None},
         worker'.pc = "decoded" => worker.pc = "decoded" /\ worker'.msg = worker.msg,
         worker'.pc \in {"send", "sending"} /\ worker'.reply # None =>
           worker.pc \in {"send", "sending"} /\ worker'.reply = worker.reply
  PROVE  OpenOnce'
<1>1. AtMostOne' BY DEF OpenOnce, AtMostOne
<1>2. WorkerOpen' BY DEF OpenOnce, WorkerOpen, Unanswered
<1>3. AppOpen' BY DEF OpenOnce, AppOpen, Unanswered
<1> QED BY <1>1, <1>2, <1>3 DEF OpenOnce

LEMMA ReadsOpen ==
  ASSUME RpcTypeOK, Flow, OpenOnce, Reads
  PROVE  OpenOnce'
<1>0. /\ worker \in WorkerState /\ answers \in [Id -> Nat]
      /\ fed \in [whole : SUBSET Id, served : SUBSET Id, lost : BOOLEAN]
  BY DEF RpcTypeOK, SessionOK
<1>1. UNCHANGED <<app, sys, answers>> /\ worker.pc = "read" BY ReadsCases
<1>2. CASE ReadsNone \/ ReadsDropped \/ ReadsWrong
  <2>1. /\ fed' = fed
        /\ worker' = [worker EXCEPT !.pc = "wait"] \/ worker' = [worker EXCEPT !.pc = "failed"]
    BY <1>2, Zenon DEF ReadsNone, ReadsDropped, ReadsWrong
  <2>2. worker'.pc \in {"wait", "failed"} BY <1>0, <2>1 DEF WorkerState
  <2> QED BY <1>1, <2>1, <2>2, OpenFrame
<1>3. CASE ReadsFirst
  <2>1. fed' = fed /\ worker'.pc = "read" BY <1>0, <1>1, <1>3 DEF ReadsFirst, WorkerState
  <2> QED BY <1>1, <2>1, OpenFrame
<1>4. CASE stream # <<>> /\ ReadsLast
  <2>0. PICK e : e = Head(stream) OBVIOUS
  <2>1. /\ worker'.pc = "decoded" /\ worker'.msg = e.id
        /\ fed'.served = fed.served \cup {e.id}
    BY <1>0, <1>4, <2>0 DEF ReadsLast, Completes, WorkerState
  <2>2. e.id \in Id /\ e.id # None /\ e.id \notin fed.served
    BY <1>4, <2>0, HeadTyped, ReadsFlow DEF Id, None
  <2>3. answers[e.id] = 0 BY <1>0, <2>2 DEF OpenOnce, AtMostOne
  <2>4. e.id \notin {None, sys.last, app.id}
    BY <2>2 DEF OpenOnce, AppOpen, Unanswered
  <2>5. AtMostOne' BY <1>1, <2>1 DEF OpenOnce, AtMostOne
  <2>6. WorkerOpen' BY <1>1, <2>1, <2>3, <2>4 DEF WorkerOpen, Unanswered
  <2>7. AppOpen' BY <1>1, <2>1 DEF OpenOnce, AppOpen, Unanswered
  <2> QED BY <2>5, <2>6, <2>7 DEF OpenOnce
<1> QED BY <1>2, <1>3, <1>4, ReadsCases

LEMMA HandlesOpen ==
  ASSUME RpcTypeOK, OpenOnce, Handles
  PROVE  OpenOnce'
<1>0. /\ worker \in WorkerState /\ worker.pc = "decoded" /\ worker.msg \in Id
      /\ app \in AppState /\ sys \in [callback : BOOLEAN, last : Ids]
  BY DEF RpcTypeOK, SessionOK, Handles
<1>1. UNCHANGED <<answers, fed>> BY DEF Handles
<1>2. PICK i : i = worker.msg OBVIOUS
<1>3. i \in Id /\ i \in Ids /\ Unanswered(i) /\ i \notin {None, sys.last, app.id}
  BY <1>0, <1>2 DEF OpenOnce, WorkerOpen, Id, Ids
<1>4. app'.id = app.id
  <2>1. \/ app' = app \/ app' = [app EXCEPT !.pc = "starting"]
        \/ app' = [app EXCEPT !.events = Append(@, i)]
    BY <1>2 DEF Handles
  <2> QED BY <1>0, <2>1 DEF AppState
<1>5. \/ (worker' = Answer(i, "read") \/ worker' = Answer(i, "closed")) /\ sys' = sys
      \/ worker' = Pressed(i) /\ sys' = [sys EXCEPT !.last = i]
  BY <1>2, Zenon DEF Handles
<1>6. AtMostOne' BY <1>1 DEF OpenOnce, AtMostOne
<1>7. CASE (worker' = Answer(i, "read") \/ worker' = Answer(i, "closed")) /\ sys' = sys
  <2>1. worker'.pc = "send" /\ worker'.reply = i BY <1>3, <1>7, AnswerMoves
  <2>2. WorkerOpen' BY <1>1, <1>3, <1>4, <1>7, <2>1 DEF WorkerOpen, Unanswered
  <2>3. AppOpen' BY <1>1, <1>4, <1>7 DEF OpenOnce, AppOpen, Unanswered
  <2> QED BY <1>6, <2>2, <2>3 DEF OpenOnce
<1>8. CASE worker' = Pressed(i) /\ sys' = [sys EXCEPT !.last = i]
  <2>1. worker'.pc = "read" /\ sys'.last = i BY <1>0, <1>8 DEF Pressed, WorkerState
  <2>2. WorkerOpen' BY <2>1 DEF WorkerOpen
  <2>3. AppOpen' BY <1>1, <1>3, <1>4, <2>1 DEF OpenOnce, AppOpen, Unanswered
  <2> QED BY <1>6, <2>2, <2>3 DEF OpenOnce
<1> QED BY <1>5, <1>7, <1>8

\* A holder answers the message r it holds.
LEMMA AnswerOpen ==
  ASSUME RpcTypeOK, OpenOnce, NEW r \in Id, Unanswered(r),
         answers' = [answers EXCEPT ![r] = @ + 1], fed' = fed
  PROVE  AtMostOne' /\ \A j \in Id : j # r /\ Unanswered(j) => Unanswered(j)'
<1>0. answers \in [Id -> Nat] BY DEF RpcTypeOK, SessionOK
<1>1. answers'[r] = 1 /\ r \in fed.served /\ \A j \in Id : j # r => answers'[j] = answers[j]
  BY <1>0 DEF Unanswered
<1>2. ASSUME NEW j \in Id PROVE answers'[j] =< 1 /\ (answers'[j] > 0 => j \in fed.served)
  BY <1>1 DEF OpenOnce, AtMostOne
<1> QED BY <1>1, <1>2 DEF AtMostOne, Unanswered

LEMMA SendsOpen ==
  ASSUME RpcTypeOK, OpenOnce, Sends
  PROVE  OpenOnce'
<1>0. /\ worker \in WorkerState /\ worker.then \in {"read", "closed"}
      /\ worker.reply \in Ids /\ sys.last \in Ids /\ app.id \in Ids
  BY DEF RpcTypeOK, SessionOK, WorkerState, AppState
<1>1. UNCHANGED <<app, sys, fed>> BY DEF Sends
<1>2. \/ worker' = [worker EXCEPT !.pc = "sending"] \/ worker' = [worker EXCEPT !.pc = worker.then]
  BY DEF Sends
<1>3. worker'.reply = worker.reply /\ worker'.pc # "decoded" BY <1>0, <1>2 DEF WorkerState
<1>4. CASE answers' = answers /\ worker.pc = "send" BY <1>1, <1>3, <1>4, OpenFrame
<1>5. CASE worker.pc = "sending"
  <2>1. /\ worker' = [worker EXCEPT !.pc = worker.then]
        /\ answers' = IF worker.reply = None THEN answers
                      ELSE [answers EXCEPT ![worker.reply] = @ + 1]
    BY <1>5 DEF Sends
  <2>2. worker'.pc \in {"read", "closed"} BY <1>0, <2>1 DEF WorkerState
  <2>3. CASE worker.reply = None BY <1>1, <2>1, <2>2, <2>3, OpenFrame
  <2>4. CASE worker.reply # None
    <3>1. PICK r : r = worker.reply OBVIOUS
    <3>2. /\ r \in Id /\ Unanswered(r) /\ r \notin {sys.last, app.id}
          /\ answers' = [answers EXCEPT ![r] = @ + 1]
      BY <1>0, <1>5, <2>1, <2>4, <3>1 DEF OpenOnce, WorkerOpen, Ids, Id, None
    <3>3. AtMostOne' /\ \A j \in Id : j # r /\ Unanswered(j) => Unanswered(j)'
      BY <1>1, <3>2, AnswerOpen
    <3>4. WorkerOpen' BY <2>2 DEF WorkerOpen
    <3>5. AppOpen'
      <4>1. sys.last # None => sys.last \in Id /\ Unanswered(sys.last)
        BY <1>0 DEF OpenOnce, AppOpen, Ids, Id, None
      <4>2. app.id # None => app.id \in Id /\ Unanswered(app.id) /\ app.id # sys.last
        BY <1>0 DEF OpenOnce, AppOpen, Ids, Id, None
      <4>3. sys.last # None => Unanswered(sys.last)' BY <1>1, <3>2, <3>3, <4>1 DEF Unanswered
      <4>4. app.id # None => Unanswered(app.id)' BY <1>1, <3>2, <3>3, <4>2 DEF Unanswered
      <4> QED BY <1>1, <4>2, <4>3, <4>4 DEF AppOpen
    <3> QED BY <3>3, <3>4, <3>5 DEF OpenOnce
  <2> QED BY <2>3, <2>4
<1> QED BY <1>4, <1>5 DEF Sends

LEMMA DaemonOpen ==
  ASSUME RpcTypeOK, OpenOnce, Daemon
  PROVE  OpenOnce'
<1>0. app \in AppState /\ sys \in [callback : BOOLEAN, last : Ids]
  BY DEF RpcTypeOK, SessionOK
<1>1. UNCHANGED <<worker, answers, fed>> BY DaemonSteps
<1>2. app'.id = app.id
  <2>1. \/ app' = app \/ app' = [app EXCEPT !.events = Append(@, None)]
        \/ app' = [app EXCEPT !.ctx = FALSE]
    BY DaemonSteps
  <2> QED BY <1>0, <2>1 DEF AppState
<1>3. sys'.last = sys.last BY <1>0, DaemonSteps
<1> QED BY <1>1, <1>2, <1>3, OpenFrame

\* The application takes over the command it confirms, and no other.
LEMMA ConfirmsOpen ==
  ASSUME RpcTypeOK, OpenOnce, AppConfirms
  PROVE  OpenOnce'
<1>0. app \in AppState /\ sys \in [callback : BOOLEAN, last : Ids] /\ sys.last \in Ids
  BY DEF RpcTypeOK, SessionOK
<1>1. UNCHANGED <<worker, answers, fed>> BY DEF AppConfirms
<1>2. app'.id = sys.last BY <1>0, ConfirmMoves DEF AppConfirms
<1>3. sys'.last = None BY <1>0 DEF AppConfirms
<1>4. AtMostOne' BY <1>1 DEF OpenOnce, AtMostOne
<1>5. WorkerOpen' BY <1>1, <1>2, <1>3 DEF OpenOnce, WorkerOpen, Unanswered
<1>6. AppOpen' BY <1>1, <1>2, <1>3 DEF OpenOnce, AppOpen, Unanswered
<1> QED BY <1>4, <1>5, <1>6 DEF OpenOnce

LEMMA AppSendsOpen ==
  ASSUME RpcTypeOK, OpenOnce, AppSends
  PROVE  OpenOnce'
<1>0. /\ app \in AppState /\ worker \in WorkerState
      /\ app.id \in Ids /\ sys.last \in Ids /\ worker.reply \in Ids
      /\ worker.pc = "decoded" => worker.msg \in Id
  BY DEF RpcTypeOK, SessionOK, AppState, WorkerState
<1>1. UNCHANGED <<worker, sys, fed>> BY DEF AppSends
<1>2. "sending" \in AppPc BY DEF AppPc
<1>3. app' = [app EXCEPT !.pc = "sending"] \/ app' = Sent BY DEF AppSends
<1>4. app'.id \in {app.id, None} BY <1>0, <1>2, <1>3, AppMoves, SendMoves
<1>5. CASE answers' = answers BY <1>1, <1>4, <1>5, OpenFrame
<1>6. CASE app.pc = "sending" /\ app.id # None
  <2>1. PICK r : r = app.id OBVIOUS
  <2>2. /\ r \in Id /\ Unanswered(r) /\ r # sys.last
        /\ answers' = [answers EXCEPT ![r] = @ + 1] /\ app' = Sent
    BY <1>0, <1>6, <2>1 DEF AppSends, OpenOnce, AppOpen, Ids, Id, None
  <2>3. AtMostOne' /\ \A j \in Id : j # r /\ Unanswered(j) => Unanswered(j)'
    BY <1>1, <2>2, AnswerOpen
  <2>4. app'.id = None BY <1>0, <2>2, SendMoves
  <2>5. WorkerOpen'
    <3>1. worker.pc = "decoded" => /\ Unanswered(worker.msg)'
                                   /\ worker.msg \notin {None, sys.last, app'.id}
      BY <1>0, <1>1, <2>1, <2>3, <2>4 DEF OpenOnce, WorkerOpen, Unanswered
    <3>2. worker.pc \in {"send", "sending"} /\ worker.reply # None =>
            worker.reply \in Id /\ Unanswered(worker.reply)
            /\ worker.reply \notin {sys.last, r}
      BY <1>0, <2>1 DEF OpenOnce, WorkerOpen, Ids, Id, None
    <3>3. worker.pc \in {"send", "sending"} /\ worker.reply # None =>
            Unanswered(worker.reply)'
      BY <1>1, <2>3, <3>2 DEF Unanswered
    <3> QED BY <1>1, <2>4, <3>1, <3>2, <3>3 DEF WorkerOpen
  <2>6. AppOpen'
    <3>1. sys.last # None => sys.last \in Id /\ Unanswered(sys.last)
      BY <1>0 DEF OpenOnce, AppOpen, Ids, Id, None
    <3>2. sys.last # None => Unanswered(sys.last)' BY <1>1, <2>2, <2>3, <3>1 DEF Unanswered
    <3> QED BY <1>1, <2>4, <3>2 DEF AppOpen
  <2> QED BY <2>3, <2>5, <2>6 DEF OpenOnce
<1> QED BY <1>5, <1>6 DEF AppSends

LEMMA ApplicationOpen ==
  ASSUME RpcTypeOK, OpenOnce, AppActs
  PROVE  OpenOnce'
<1>0. app \in AppState /\ sys \in [callback : BOOLEAN, last : Ids] /\ None \in Ids
  BY RpcAssumption DEF RpcTypeOK, SessionOK, None, Ids
<1>1. UNCHANGED <<worker, fed>> BY AppActsFrame
<1>2. {"attached", "leaving", "detached"} \subseteq AppPc BY DEF AppPc
<1>3. CASE AppAttaches
  <2>1. app'.id = app.id BY <1>0, <1>2, <1>3, AppMoves DEF AppAttaches
  <2>2. sys'.last = sys.last /\ answers' = answers BY <1>0, <1>3 DEF AppAttaches
  <2> QED BY <1>1, <2>1, <2>2, OpenFrame
<1>4. CASE AppReports
  <2>1. app'.id = None BY <1>0, <1>4, SendMoves DEF AppReports
  <2>2. sys' = sys /\ answers' = answers BY <1>4 DEF AppReports
  <2> QED BY <1>1, <2>1, <2>2, OpenFrame
<1>5. CASE AppCloses \/ UserLeaves
  <2>1. app' = [app EXCEPT !.pc = "leaving"] /\ sys' = sys /\ answers' = answers
    BY <1>5 DEF AppCloses, UserLeaves
  <2>2. app'.id = app.id BY <1>0, <1>2, <2>1, AppMoves
  <2> QED BY <1>1, <2>1, <2>2, OpenFrame
<1>6. CASE AppLeaves
  <2>1. /\ answers' = answers
        /\ \/ app' = NoApp \/ app' = [app EXCEPT !.pc = "detached"]
           \/ app' = Sending(None, "reported")
        /\ sys' = sys \/ sys' = [sys EXCEPT !.callback = FALSE]
    BY <1>6, Zenon DEF AppLeaves
  <2>2. app'.id \in {app.id, None}
    <3>1. /\ NoApp.id = None /\ [app EXCEPT !.pc = "detached"].id = app.id
          /\ Sending(None, "reported").id = None
      BY <1>0, <1>2, AppMoves, SendMoves
    <3> QED BY <2>1, <3>1
  <2>3. sys'.last = sys.last BY <1>0, <2>1
  <2> QED BY <1>1, <2>1, <2>2, <2>3, OpenFrame
<1> QED BY <1>3, <1>4, <1>5, <1>6, ConfirmsOpen, AppSendsOpen DEF AppActs, Application

LEMMA NextOpen == RpcTypeOK /\ Flow /\ OpenOnce /\ [Next]_vars => OpenOnce'
<1> SUFFICES ASSUME RpcTypeOK, Flow, OpenOnce, [Next]_vars PROVE OpenOnce' OBVIOUS
<1>0. /\ worker \in WorkerState
      /\ fed \in [whole : SUBSET Id, served : SUBSET Id, lost : BOOLEAN]
  BY DEF RpcTypeOK, SessionOK
<1>1. CASE UNCHANGED vars
  <2>1. UNCHANGED <<answers, fed, app, sys, worker>> BY <1>1 DEF vars
  <2> QED BY <2>1, OpenFrame
<1>2. CASE (\E k \in Kind : HostSends(k)) \/ HangUp
  <2>1. UNCHANGED <<answers, fed, app, sys, worker>> BY <1>2 DEF HostSends, HangUp
  <2> QED BY <2>1, OpenFrame
<1>3. CASE Cli
  <2>1. UNCHANGED <<answers, app, sys, worker>>
    BY <1>3 DEF Cli, CliReceives, CliFeeds, CliFlags, CliCloses, CliReturns
  <2>2. fed'.served = fed.served
    <3>1. \/ fed' = fed \/ fed' = [fed EXCEPT !.lost = TRUE]
          \/ fed' = [fed EXCEPT !.whole = @ \cup {cli.piece.id}]
      BY <1>3 DEF Cli, CliReceives, CliFeeds, CliFlags, CliCloses, CliReturns
    <3> QED BY <1>0, <3>1
  <2> QED BY <2>1, <2>2, OpenFrame
<1>4. CASE Waits \/ ReportsClosed \/ WorkerStops
  <2>1. UNCHANGED <<answers, app, sys, fed>> BY <1>4 DEF Waits, ReportsClosed, WorkerStops
  <2>2. \/ worker' = [worker EXCEPT !.pc = "over"] \/ worker' = [worker EXCEPT !.pc = "read"]
        \/ worker' = [worker EXCEPT !.pc = "closing"] \/ worker' = [worker EXCEPT !.pc = "gone"]
    BY <1>4 DEF Waits, ReportsClosed, WorkerStops
  <2>3. worker'.pc \in {"over", "read", "closing", "gone"} BY <1>0, <2>2 DEF WorkerState
  <2> QED BY <2>1, <2>3, OpenFrame
<1>5. CASE Fails
  <2>1. UNCHANGED <<answers, app, sys, fed>> BY <1>5 DEF Fails
  <2>2. worker'.pc = "send" /\ worker'.reply = None BY <1>5 DEF Fails, Answer
  <2> QED BY <2>1, <2>2, OpenFrame
<1> QED BY <1>1, <1>2, <1>3, <1>4, <1>5, ReadsOpen, HandlesOpen, SendsOpen, DaemonOpen,
           ApplicationOpen
    DEF Next, Worker, AppActs
-----------------------------------------------------------------------------
(* The end of the session                                                    *)

\* No callback is cleared, and who enters one finds it set.
LEMMA CloseFrame ==
  ASSUME NoCallbackAfterClose, Teardown, calls' = calls, daemon' = daemon,
         worker'.pc = "gone" <=> worker.pc = "gone",
         worker'.pc = "sending" => worker.pc = "sending" \/ "send" \in calls,
         worker'.pc = "closing" => worker.pc = "closing" \/ "close" \in calls,
         app'.pc = "sending" => app.pc = "sending" \/ "send" \in calls,
         cli'.pc = "done" => cli.pc = "done"
  PROVE  NoCallbackAfterClose' /\ Teardown'
  BY DEF NoCallbackAfterClose, Teardown

LEMMA CliClose ==
  ASSUME RpcTypeOK, NoCallbackAfterClose, Teardown, Cli
  PROVE  NoCallbackAfterClose' /\ Teardown'
<1>0. cli \in CliState BY DEF RpcTypeOK, FeedOK
<1>1. /\ \A p \in CliPc : [cli EXCEPT !.pc = p].pc = p
      /\ [cli EXCEPT !.pc = "flag", !.piece = Piece(None, 1)].pc = "flag"
  BY <1>0, CliMoves, FlagMoves
<1>2. UNCHANGED <<worker, app, daemon>>
  BY DEF Cli, CliReceives, CliFeeds, CliFlags, CliCloses, CliReturns
<1>3. CASE CliReceives
  <2>1. cli'.pc # "done" /\ calls' = calls BY <1>0, <1>3 DEF CliReceives, CliState
  <2> QED BY <1>2, <2>1, CloseFrame
<1>4. CASE CliFeeds \/ CliFlags
  <2>1. cli'.pc # "done" /\ calls' = calls BY <1>1, <1>4 DEF CliFeeds, CliFlags, CliPc
  <2> QED BY <1>2, <2>1, CloseFrame
<1>5. CASE CliCloses
  <2>1. cli'.pc # "done" BY <1>1, <1>5 DEF CliCloses, CliPc
  <2>2. calls' = calls \/ (MutexFree /\ calls' \subseteq calls)
    BY <1>5 DEF CliCloses, Clears
  <2>3. CASE calls' = calls BY <1>2, <2>1, <2>3, CloseFrame
  <2>4. CASE MutexFree
    BY <1>2, <2>1, <2>4 DEF MutexFree, NoCallbackAfterClose, Teardown
  <2> QED BY <2>2, <2>3, <2>4
<1>6. CASE CliReturns
  <2>1. calls' = calls /\ daemon \in {"free", "done"} BY <1>6 DEF CliReturns
  <2> QED BY <1>2, <2>1 DEF NoCallbackAfterClose, Teardown
<1> QED BY <1>3, <1>4, <1>5, <1>6 DEF Cli

LEMMA WorkerClose ==
  ASSUME RpcTypeOK, NoCallbackAfterClose, Teardown, Worker
  PROVE  NoCallbackAfterClose' /\ Teardown'
<1>0. worker \in WorkerState /\ cli \in CliState /\ app \in AppState /\ worker.msg \in Ids
  BY DEF RpcTypeOK, FeedOK, SessionOK, WorkerState
<1>1. CASE Reads
  <2>1. UNCHANGED <<calls, daemon, app, cli>> /\ worker.pc = "read" BY <1>1, ReadsCases
  <2>2. \/ worker' = [worker EXCEPT !.pc = "wait"] \/ worker' = [worker EXCEPT !.pc = "failed"]
        \/ worker' = [worker EXCEPT !.pc = "decoded"]
        \/ worker' = [worker EXCEPT !.msg = Head(stream).id]
    BY <1>1, ReadsCases, Zenon DEF ReadsNone, ReadsDropped, ReadsFirst, ReadsLast, ReadsWrong
  <2>3. worker'.pc \in {"wait", "failed", "decoded", "read"}
    BY <1>0, <2>1, <2>2 DEF WorkerState
  <2> QED BY <2>1, <2>3, CloseFrame
<1>2. CASE Waits
  <2>1. UNCHANGED <<calls, daemon, app, cli>> /\ worker.pc = "wait" BY <1>2 DEF Waits
  <2>2. worker'.pc \in {"over", "read"} BY <1>0, <1>2 DEF Waits, WorkerState
  <2> QED BY <2>1, <2>2, CloseFrame
<1>3. CASE Handles
  <2>1. UNCHANGED <<calls, daemon, cli>> /\ worker.pc = "decoded" BY <1>3 DEF Handles
  <2>2. worker'.pc \in {"send", "read"}
    <3>1. \/ worker' = Answer(worker.msg, "read") \/ worker' = Answer(worker.msg, "closed")
          \/ worker' = Pressed(worker.msg)
      BY <1>3 DEF Handles
    <3>2. Pressed(worker.msg).pc = "read" BY <1>0 DEF Pressed, WorkerState
    <3> QED BY <1>0, <3>1, <3>2, AnswerMoves
  <2>3. app'.pc = "sending" => app.pc = "sending"
    <3>1. \/ app' = app \/ app' = [app EXCEPT !.pc = "starting"]
          \/ app' = [app EXCEPT !.events = Append(@, worker.msg)]
      BY <1>3 DEF Handles
    <3> QED BY <1>0, <3>1 DEF AppState
  <2> QED BY <2>1, <2>2, <2>3, CloseFrame
<1>4. CASE Fails
  <2>1. UNCHANGED <<calls, daemon, app, cli>> /\ worker.pc = "failed" BY <1>4 DEF Fails
  <2>2. worker'.pc = "send" BY <1>4 DEF Fails, Answer
  <2> QED BY <2>1, <2>2, CloseFrame
<1>5. CASE Sends
  <2>1. UNCHANGED <<calls, daemon, app, cli>> /\ worker.pc \in {"send", "sending"}
    BY <1>5 DEF Sends
  <2>2. worker'.pc \in {"read", "closed"} \/ (worker'.pc = "sending" /\ "send" \in calls)
    BY <1>0, <1>5 DEF Sends, WorkerState
  <2> QED BY <2>1, <2>2, CloseFrame
<1>6. CASE ReportsClosed
  <2>1. UNCHANGED <<calls, daemon, app>> /\ worker.pc \in {"closed", "closing"}
    BY <1>6 DEF ReportsClosed
  <2>2. worker'.pc = "read" \/ (worker'.pc = "closing" /\ "close" \in calls)
    BY <1>0, <1>6 DEF ReportsClosed, WorkerState
  <2>3. cli'.pc = cli.pc BY <1>0, <1>6 DEF ReportsClosed, CliState
  <2> QED BY <2>1, <2>2, <2>3, CloseFrame
<1>7. CASE WorkerStops
  <2>1. /\ UNCHANGED <<calls, app, cli>> /\ worker.pc = "over" /\ daemon' = "systems"
        /\ worker' = [worker EXCEPT !.pc = "gone"]
    BY <1>7 DEF WorkerStops
  <2>2. worker'.pc = "gone" BY <1>0, <2>1 DEF WorkerState
  <2> QED BY <2>1, <2>2 DEF NoCallbackAfterClose, Teardown
<1> QED BY <1>1, <1>2, <1>3, <1>4, <1>5, <1>6, <1>7 DEF Worker

LEMMA DaemonClose ==
  ASSUME RpcTypeOK, NoCallbackAfterClose, Teardown, Daemon
  PROVE  NoCallbackAfterClose' /\ Teardown'
<1>0. app \in AppState BY DEF RpcTypeOK, SessionOK
<1>1. UNCHANGED <<calls, worker, cli>> BY DaemonSteps
<1>2. /\ daemon # "idle" /\ daemon' # "idle"
      /\ daemon \in {"free", "done"} => daemon' \in {"free", "done"}
  BY DaemonSteps
<1>3. app'.pc = app.pc
  <2>1. \/ app' = app \/ app' = [app EXCEPT !.events = Append(@, None)]
        \/ app' = [app EXCEPT !.ctx = FALSE]
    BY DaemonSteps
  <2> QED BY <1>0, <2>1 DEF AppState
<1> QED BY <1>1, <1>2, <1>3 DEF NoCallbackAfterClose, Teardown

LEMMA ApplicationClose ==
  ASSUME RpcTypeOK, NoCallbackAfterClose, Teardown, AppActs
  PROVE  NoCallbackAfterClose' /\ Teardown'
<1>0. /\ app \in AppState /\ sys.last \in Ids /\ None \in Ids
      /\ app.then \in {"running", "left", "reported"}
  BY RpcAssumption DEF RpcTypeOK, SessionOK, AppState, None, Ids
<1>1. UNCHANGED <<calls, worker, cli, daemon>> BY AppActsFrame
<1>2. {"attached", "leaving", "detached", "sending"} \subseteq AppPc BY DEF AppPc
<1>3. app'.pc = "sending" => "send" \in calls
  <2>1. CASE AppAttaches BY <1>0, <1>2, <2>1, AppMoves DEF AppAttaches
  <2>2. CASE AppReports BY <1>0, <2>2, SendMoves DEF AppReports
  <2>3. CASE AppConfirms BY <1>0, <2>3, ConfirmMoves DEF AppConfirms
  <2>4. CASE AppSends
    <3>1. app' = Sent \/ "send" \in calls BY <2>4 DEF AppSends
    <3> QED BY <1>0, <3>1, SendMoves
  <2>5. CASE AppCloses \/ UserLeaves
    BY <1>0, <1>2, <2>5, AppMoves DEF AppCloses, UserLeaves
  <2>6. CASE AppLeaves
    <3>1. \/ app' = NoApp \/ app' = [app EXCEPT !.pc = "detached"]
          \/ app' = Sending(None, "reported")
      BY <2>6, Zenon DEF AppLeaves
    <3> QED BY <1>0, <1>2, <3>1, AppMoves, SendMoves
  <2> QED BY <2>1, <2>2, <2>3, <2>4, <2>5, <2>6 DEF AppActs, Application
<1> QED BY <1>1, <1>3, CloseFrame

LEMMA NextClose ==
  RpcTypeOK /\ NoCallbackAfterClose /\ Teardown /\ [Next]_vars =>
    NoCallbackAfterClose' /\ Teardown'
<1> SUFFICES ASSUME RpcTypeOK, NoCallbackAfterClose, Teardown, [Next]_vars
             PROVE  NoCallbackAfterClose' /\ Teardown'
  OBVIOUS
<1>1. CASE UNCHANGED vars \/ (\E k \in Kind : HostSends(k)) \/ HangUp
  <2>1. UNCHANGED <<calls, daemon, worker, app, cli>> BY <1>1 DEF vars, HostSends, HangUp
  <2> QED BY <2>1, CloseFrame
<1> QED BY <1>1, CliClose, WorkerClose, DaemonClose, ApplicationClose DEF Next, AppActs

-----------------------------------------------------------------------------
(* What was fed in full is served                                            *)

LEMMA FedFrame ==
  ASSUME FedKept, stream' = stream, fed' = fed,
         session'.decodeError = session.decodeError,
         "Disconnect" \in flags' => "Disconnect" \in flags,
         worker'.pc \in {"over", "gone"} => worker.pc \in {"over", "gone"},
         worker'.pc # "failed" => worker.pc # "failed",
         cli.pc \in {"join", "done"} => cli'.pc \in {"join", "done"}
  PROVE  FedKept'
<1>1. In(stream)' = In(stream) BY DEF In
<1>2. \A i : Piece(i, 2)' = Piece(i, 2) BY DEF Piece
<1> QED BY <1>1, <1>2 DEF FedKept

LEMMA CliFed ==
  ASSUME RpcTypeOK, FedKept, Cli
  PROVE  FedKept'
<1>0. /\ cli \in CliState /\ stream \in Seq(Pieces)
      /\ fed \in [whole : SUBSET Id, served : SUBSET Id, lost : BOOLEAN]
  BY DEF RpcTypeOK, FeedOK, SessionOK
<1>1. \A p \in CliPc : [cli EXCEPT !.pc = p].pc = p BY <1>0, CliMoves
<1>2. UNCHANGED <<worker, session>>
  BY DEF Cli, CliReceives, CliFeeds, CliFlags, CliCloses, CliReturns
<1>3. CASE CliReceives
  <2>1. UNCHANGED <<stream, fed, flags>> /\ cli.pc = "receive" BY <1>3 DEF CliReceives
  <2> QED BY <1>2, <2>1, FedFrame
<1>4. CASE CliFeeds
  <2>1. cli.pc = "feed" /\ flags' = flags /\ cli.piece \in Pieces
    BY <1>4 DEF CliFeeds, RpcTypeOK, FeedOK
  <2>2. "Disconnect" \notin flags /\ worker.pc \notin {"over", "gone"} BY <2>1 DEF FedKept
  <2>3. CASE fed'.lost BY <1>2, <2>1, <2>2, <2>3 DEF FedKept
  <2>4. CASE ~fed'.lost
    <3>1. ~fed.lost /\ stream' = Append(stream, cli.piece) /\ fed'.served = fed.served
          /\ fed'.whole = fed.whole \cup (IF cli.piece.half = 2 THEN {cli.piece.id} ELSE {})
      BY <1>0, <1>4, <2>4 DEF CliFeeds
    <3>2. In(stream') = In(stream) \cup {cli.piece} BY <1>0, <2>1, <3>1, InAppend
    <3>3. cli.piece.half = 2 => cli.piece = Piece(cli.piece.id, 2)
      <4>1. \A q \in Pieces : q.half = 2 => q = Piece(q.id, 2) BY DEF Pieces, Piece
      <4> QED BY <2>1, <4>1
    <3>4. ASSUME ~session.decodeError, worker.pc # "failed", NEW i \in fed'.whole
          PROVE  i \in fed'.served \/ Piece(i, 2) \in In(stream')
      BY <3>1, <3>2, <3>3, <3>4 DEF FedKept
    <3> QED BY <1>2, <2>1, <2>2, <3>4 DEF FedKept
  <2> QED BY <2>3, <2>4
<1>5. CASE CliFlags
  <2>1. /\ UNCHANGED <<stream, fed>> /\ cli.pc = "flag"
        /\ "Disconnect" \in flags' => "Disconnect" \in flags
    BY <1>5 DEF CliFlags
  <2> QED BY <1>2, <2>1, FedFrame
<1>6. CASE CliCloses
  <2>1. UNCHANGED <<stream, fed>> BY <1>6 DEF CliCloses
  <2>2. CASE cli.pc = "disconnect"
    <3>1. cli'.pc = "join" BY <1>1, <1>6, <2>2 DEF CliCloses, CliPc
    <3> QED BY <1>2, <2>1, <3>1 DEF FedKept
  <2>3. CASE cli.pc # "disconnect"
    <3>1. flags' = flags /\ cli.pc \in {"clearSend", "clearClose"}
      BY <1>6, <2>3 DEF CliCloses
    <3> QED BY <1>2, <2>1, <3>1, FedFrame
  <2> QED BY <2>2, <2>3
<1>7. CASE CliReturns
  <2>1. UNCHANGED <<stream, fed, flags>> /\ cli'.pc = "done"
    BY <1>1, <1>7 DEF CliReturns, CliPc
  <2> QED BY <1>2, <2>1, FedFrame
<1> QED BY <1>3, <1>4, <1>5, <1>6, <1>7 DEF Cli

LEMMA ReadsFed ==
  ASSUME RpcTypeOK, FedKept, Reads
  PROVE  FedKept'
<1>0. /\ worker \in WorkerState /\ stream \in Seq(Pieces)
      /\ fed \in [whole : SUBSET Id, served : SUBSET Id, lost : BOOLEAN]
  BY DEF RpcTypeOK, FeedOK, SessionOK
<1>1. UNCHANGED <<cli, flags, session>> /\ worker.pc = "read" BY ReadsCases
<1>2. CASE ReadsNone
  <2>1. UNCHANGED <<stream, fed>> /\ worker'.pc = "wait"
    BY <1>0, <1>2 DEF ReadsNone, WorkerState
  <2> QED BY <1>1, <2>1, FedFrame
<1>3. CASE stream # <<>> /\ stream' = Tail(stream) /\ (ReadsDropped \/ ReadsWrong)
  <2>1. /\ session.decodeError \/ worker' = [worker EXCEPT !.pc = "failed"]
        /\ worker' = [worker EXCEPT !.pc = "wait"] \/ worker' = [worker EXCEPT !.pc = "failed"]
    BY <1>3, Zenon DEF ReadsDropped, ReadsWrong
  <2>2. worker'.pc \in {"wait", "failed"} /\ (session.decodeError \/ worker'.pc = "failed")
    BY <1>0, <2>1 DEF WorkerState
  <2> QED BY <1>1, <2>2 DEF FedKept
<1>4. CASE stream # <<>> /\ stream' = Tail(stream) /\ (ReadsFirst \/ ReadsLast)
  <2>0. PICK e : e = Head(stream) OBVIOUS
  <2>1. In(stream) = In(stream') \cup {e} BY <1>0, <1>4, <2>0, InTail
  <2>2. /\ worker'.pc \in {"read", "decoded"} /\ fed.served \subseteq fed'.served
        /\ fed'.whole = fed.whole /\ fed'.lost = fed.lost
        /\ e.half = 1 \/ e.id \in fed'.served
    <3>1. CASE ReadsFirst BY <1>0, <1>1, <2>0, <3>1 DEF ReadsFirst, Begins, WorkerState
    <3>2. CASE ReadsLast BY <1>0, <2>0, <3>2 DEF ReadsLast, WorkerState
    <3> QED BY <1>4, <3>1, <3>2
  <2>3. \A i : Piece(i, 2) = e => e.half = 2 /\ e.id = i BY DEF Piece
  <2>4. ASSUME ~session.decodeError, ~fed'.lost, NEW i \in fed'.whole
        PROVE  i \in fed'.served \/ Piece(i, 2) \in In(stream')
    <3>1. i \in fed.served \/ Piece(i, 2) \in In(stream) BY <1>1, <2>2, <2>4 DEF FedKept
    <3> QED BY <2>1, <2>2, <2>3, <3>1
  <2> QED BY <1>1, <2>2, <2>4 DEF FedKept
<1> QED BY <1>2, <1>3, <1>4, ReadsCases

LEMMA NextFed == RpcTypeOK /\ FedKept /\ [Next]_vars => FedKept'
<1> SUFFICES ASSUME RpcTypeOK, FedKept, [Next]_vars PROVE FedKept' OBVIOUS
<1>0. /\ worker \in WorkerState /\ cli \in CliState /\ worker.msg \in Ids
      /\ session \in [terminate : BOOLEAN, decodeError : BOOLEAN]
  BY DEF RpcTypeOK, FeedOK, SessionOK, WorkerState
<1>1. CASE \/ UNCHANGED vars \/ (\E k \in Kind : HostSends(k)) \/ HangUp
           \/ Daemon \/ AppActs
  <2>1. UNCHANGED <<stream, fed, session, flags, worker, cli>>
    BY <1>1, DaemonSteps, AppActsFrame DEF vars, HostSends, HangUp
  <2> QED BY <2>1, FedFrame
<1>2. CASE Waits
  <2>1. UNCHANGED <<stream, fed, cli>> /\ worker.pc = "wait" BY <1>2 DEF Waits
  <2>2. session'.decodeError = session.decodeError BY <1>0, <1>2 DEF Waits
  <2>3. CASE Ends
    <3>1. worker'.pc = "over" /\ flags' = {} /\ "Disconnect" \in flags /\ stream = <<>>
      BY <1>0, <1>2, <2>3 DEF Waits, Ends, WorkerState
    <3>2. In(stream') = In(stream) BY <2>1
    <3> QED BY <2>1, <2>2, <3>1, <3>2 DEF FedKept
  <2>4. CASE ~Ends
    <3>1. worker'.pc = "read" /\ flags' = flags \cap {"Disconnect"}
      BY <1>0, <1>2, <2>4 DEF Waits, Kept, WorkerState
    <3> QED BY <2>1, <2>2, <3>1, FedFrame
  <2> QED BY <2>3, <2>4
<1>3. CASE Handles
  <2>1. UNCHANGED <<stream, fed, session, flags, cli>> /\ worker.pc = "decoded"
    BY <1>3 DEF Handles
  <2>2. worker'.pc \in {"send", "read"}
    <3>1. \/ worker' = Answer(worker.msg, "read") \/ worker' = Answer(worker.msg, "closed")
          \/ worker' = Pressed(worker.msg)
      BY <1>3 DEF Handles
    <3>2. Pressed(worker.msg).pc = "read" BY <1>0 DEF Pressed, WorkerState
    <3> QED BY <1>0, <3>1, <3>2, AnswerMoves
  <2> QED BY <2>1, <2>2, FedFrame
<1>4. CASE Fails
  <2>1. session'.decodeError BY <1>0, <1>4 DEF Fails
  <2>2. worker'.pc = "send" /\ UNCHANGED <<flags, cli>> BY <1>4 DEF Fails, Answer
  <2> QED BY <2>1, <2>2 DEF FedKept
<1>5. CASE Sends
  <2>1. UNCHANGED <<stream, fed, session, flags, cli>> /\ worker.pc \in {"send", "sending"}
    BY <1>5 DEF Sends
  <2>2. worker'.pc \in {"read", "closed", "sending"} BY <1>0, <1>5 DEF Sends, WorkerState
  <2> QED BY <2>1, <2>2, FedFrame
<1>6. CASE ReportsClosed
  <2>1. UNCHANGED <<stream, fed, session, flags>> /\ worker.pc \in {"closed", "closing"}
    BY <1>6 DEF ReportsClosed
  <2>2. worker'.pc \in {"read", "closing"} BY <1>0, <1>6 DEF ReportsClosed, WorkerState
  <2>3. cli'.pc = cli.pc BY <1>0, <1>6 DEF ReportsClosed, CliState
  <2> QED BY <2>1, <2>2, <2>3, FedFrame
<1>7. CASE WorkerStops
  <2>1. UNCHANGED <<stream, fed, session, flags, cli>> /\ worker.pc = "over"
    BY <1>7 DEF WorkerStops
  <2> QED BY <2>1, FedFrame
<1> QED BY <1>1, <1>2, <1>3, <1>4, <1>5, <1>6, <1>7, CliFed, ReadsFed
    DEF Next, Worker, AppActs

-----------------------------------------------------------------------------
LEMMA InitRpc == Init => RpcInv
<1> SUFFICES ASSUME Init PROVE RpcInv OBVIOUS
<1>1. RpcTypeOK BY InitTyped
<1>2. /\ stream = <<>> /\ pipe = <<>> /\ cli.pc = "receive" /\ worker.pc = "read"
      /\ worker.msg = None /\ fed.served = {} /\ fed.whole = {} /\ app.id = None
      /\ app.pc = "none" /\ flags = {} /\ daemon = "idle" /\ sys.last = None
      /\ \A i \in Id : answers[i] = 0
  BY DEF Init, NoApp
<1>3. In(<<>>) = {} /\ Ordered(<<>>) /\ Len(<<>>) = 0 BY DEF In, Ordered
<1>4. Flow BY <1>2, <1>3 DEF Flow, Left
<1>5. OpenOnce BY <1>2, <1>3 DEF OpenOnce, AtMostOne, WorkerOpen, AppOpen
<1>6. NoCallbackAfterClose /\ Teardown BY <1>2 DEF NoCallbackAfterClose, Teardown
<1>7. FedKept BY <1>2 DEF FedKept
<1> QED BY <1>1, <1>4, <1>5, <1>6, <1>7 DEF RpcInv

\* The invariant of a session of rpc.c: the pieces of the stream come in the
\* order they were sent, a message that was decoded and not answered has one
\* holder (the worker, last_command_id or the application), the session is torn
\* down by the timer daemon only after the worker's thread has gone, and a
\* message that was fed in full is decoded or still in the stream.
THEOREM RpcInvariant == Spec => []RpcInv
<1>1. RpcInv /\ [Next]_vars => RpcInv'
  BY NextTyped, NextFlow, NextOpen, NextClose, NextFed DEF RpcInv
<1> QED BY <1>1, InitRpc, PTL DEF Spec

\* rpc_session_close: once the callbacks are cleared no thread is inside one,
\* and the context they are passed outlives the worker and the terminated
\* callback.
THEOREM RpcNoCallbackAfterClose == Spec => []NoCallbackAfterClose
<1>1. RpcInv => NoCallbackAfterClose BY DEF RpcInv
<1> QED BY <1>1, RpcInvariant, PTL

\* A command of the host is answered at most once, by rpc_session_worker's
\* handler or by rpc_system_app_confirm.
THEOREM RpcAnsweredOnce == Spec => []AnsweredOnce
<1>1. RpcInv => AnsweredOnce BY DEF RpcInv, OpenOnce, AtMostOne, AnsweredOnce
<1> QED BY <1>1, RpcInvariant, PTL

\* rpc_session_worker ends on a disconnect only when the stream is empty: what
\* rpc_session_feed put there in full has been served.
THEOREM RpcFedIsServed == Spec => []FedIsServed
<1>1. RpcInv => FedIsServed
  <2> SUFFICES ASSUME RpcInv, worker.pc = "gone", ~session.decodeError, ~fed.lost
               PROVE  fed.whole \subseteq fed.served
    BY DEF FedIsServed
  <2>1. stream = <<>> BY DEF RpcInv, FedKept
  <2>2. In(stream) = {} BY <2>1 DEF In
  <2> QED BY <2>2 DEF RpcInv, FedKept
<1> QED BY <1>1, RpcInvariant, PTL
=============================================================================
