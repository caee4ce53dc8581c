--------------------------- MODULE ViewDispatcher ----------------------------
(***************************************************************************)
(* A view dispatcher (firmware/applications/services/gui/view_dispatcher.c) *)
(* behind a view port of the GUI. The GUI's thread puts the keys routed to *)
(* the port into the dispatcher's queue, waiting for room with gui->mutex  *)
(* held; the application's thread takes them in its event loop, hands them *)
(* to views and switches views. An application may call the dispatcher     *)
(* from any of its callbacks (custom event, tick, view): its calls are     *)
(* actions that its loop interleaves freely with the keys.                 *)
(***************************************************************************)
EXTENDS Gui

CONSTANTS
    View,      \* views the application adds
    Flipped,   \* those with ViewOrientationHorizontalFlip
    InputLen   \* VIEW_DISPATCHER_QUEUE_LEN (16 in the code)

Loading == "loading"
App == "app"

ASSUME DispatcherAssumption ==
    /\ Dispatched = {App} /\ {None, Loading} \cap View = {} /\ Flipped \subseteq View
    /\ InputLen \in Nat \ {0}

VARIABLES
    queue,   \* view_dispatcher->input_queue
    disp,    \* current_view, ongoing_input_view, ongoing_input
    views,   \* views
    loading, \* the loading view is allocated
    flipped, \* the view port's orientation is HorizontalFlip
    app,     \* the application's thread: pc, the view a switch is entering
    seen,    \* history: per view, keys whose Press it got and no Release since
    fresh,   \* history: what the last frame showed has not changed since
    remapped \* history: ports whose keys were mapped anew while they were down

dispVars == <<queue, disp, views, loading, flipped, app, seen, remapped>>
vars == <<keyVars, guiVars, dispVars, fresh>>

Content == IF TopPort = App THEN disp.current ELSE None

\* The application has added its views and is about to attach.
Init ==
    /\ GuiInit
    /\ queue = <<>>
    /\ disp = [current |-> None, bound |-> None, ongoing |-> {}]
    /\ views = View /\ loading = FALSE /\ flipped = FALSE
    /\ app = [pc |-> "setup", next |-> None]
    /\ seen = [v \in View |-> {}] /\ fresh = FALSE /\ remapped = {}

-----------------------------------------------------------------------------
(* The GUI's thread, in the port's callbacks                               *)

\* view_port_map_input, its second half, by the port's orientation.
Oriented(k) == IF flipped THEN FlippedKey[k] ELSE k

MapInput(k) == Oriented(Handed(k))

\* view_port_input and view_dispatcher_input_callback: the put waits for room,
\* the port's mutex keeps the orientation until then.
DeliverApp ==
    /\ gui.pc = "deliver" /\ gui.to = App
    /\ Len(queue) < InputLen
    /\ queue' = Append(queue, Ev(Oriented(gui.ev.key), gui.ev.type))
    /\ gui' = Idle
    /\ UNCHANGED <<keyVars, layers, enabled, mode, flags, held, clicks, ops,
                   disp, views, loading, flipped, app, seen, remapped>>

GuiStep == GuiThread /\ UNCHANGED dispVars

-----------------------------------------------------------------------------
(* The application's thread                                                *)

Attached == InLayer(App)

\* A call of the application, before it runs the loop or from a callback.
AppCall ==
    /\ \/ app.pc = "setup" /\ UNCHANGED ops
       \/ app.pc = "loop" /\ ops < MaxOps /\ ops' = ops + 1
    /\ UNCHANGED <<keyVars, mode, held, clicks>>

\* view_dispatcher_attach_to_gui, gui_add_view_port.
Attach ==
    /\ AppCall /\ app.pc = "setup" /\ ~Attached /\ ~Locked
    /\ layers' = Added(App) /\ flags' = Updated
    /\ UNCHANGED <<enabled, gui, dispVars>>

\* view_dispatcher_add_view
AddView(v) ==
    /\ AppCall /\ v \notin views /\ ~Locked
    /\ views' = views \cup {v}
    /\ UNCHANGED <<layers, enabled, flags, gui, queue, disp, loading, flipped,
                   app, seen, remapped>>

\* view_dispatcher_send_to_front, view_dispatcher_send_to_back
SendTo ==
    /\ AppCall /\ app.pc = "loop" /\ ~Locked
    /\ \/ layers' = [Without(App) EXCEPT ![LayerOf[App]] = Append(@, App)]
       \/ layers' = [Without(App) EXCEPT ![LayerOf[App]] = <<App>> \o @]
    /\ flags' = Updated
    /\ UNCHANGED <<enabled, gui, dispVars>>

\* Mutant: the queue is reset whatever is in flight.
ResetAlways(v) == loading /\ v # Loading /\ disp.current = Loading

\* view_dispatcher_set_current_view: leaving the loading view resets the
\* queue when no sequence is in flight ...
Resets(v) == loading /\ disp.ongoing = {} /\ v # Loading /\ disp.current = Loading

Leave(v) ==
    /\ queue' = IF Resets(v) THEN <<>> ELSE queue
    /\ app' = [app EXCEPT !.pc = "enter", !.next = v]

\* ... then the view becomes current, the port is rotated to its orientation
\* (under the port's mutex, which an input callback holds), and input is
\* sacrificed if that changed ...
Rotates(v) == v # None /\ flipped # (v \in Flipped)

\* The ports that were told of a key and not yet of its Release, or that have
\* an event of one on its way.
LetIn ==
    {p \in Plain : held[p] # {} \/ gui.to = p}
      \cup (IF disp.ongoing # {} \/ queue # <<>> \/ gui.to = App THEN {App} ELSE {})

Enter ==
    /\ app.pc = "enter"
    /\ disp' = [disp EXCEPT !.current = app.next,
                            !.ongoing = IF Rotates(app.next) THEN {} ELSE @]
    /\ Rotates(app.next) => ~(gui.pc = "deliver" /\ gui.to = App)
    /\ flipped' = IF Rotates(app.next) THEN ~flipped ELSE flipped
    /\ remapped' = IF Rotates(app.next) THEN remapped \cup (LetIn \cap {App}) ELSE remapped
    /\ app' = [app EXCEPT !.pc = "show", !.next = None]
    /\ UNCHANGED <<keyVars, guiVars, queue, views, loading, seen>>

\* ... and the port is enabled and updated, or disabled and the loop stopped:
\* view_port_enabled_set, view_port_update, view_dispatcher_stop.
Shown(v) == IF v = None THEN enabled \ {App} ELSE enabled \cup {App}

ShowUpdates == enabled' # enabled \/ App \in enabled'

Show ==
    /\ app.pc = "show"
    /\ enabled' = Shown(disp.current)
    /\ flags' = IF Attached /\ ShowUpdates THEN Updated ELSE flags
    /\ app' = [app EXCEPT !.pc = IF disp.current = None THEN "drain" ELSE "loop"]
    /\ UNCHANGED <<keyVars, layers, mode, gui, held, clicks, ops,
                   queue, disp, views, loading, flipped, seen, remapped>>

\* view_dispatcher_switch_to_view; an application attaches before it shows
\* its first view and runs the loop after.
SwitchToView(v) ==
    /\ AppCall /\ Attached
    /\ v \in views \/ (v = None /\ app.pc = "loop")
    /\ Leave(v)
    /\ UNCHANGED <<layers, enabled, flags, gui, disp, views, loading, flipped,
                   seen, remapped>>

\* view_dispatcher_show_loading
ShowLoading ==
    /\ AppCall /\ Attached
    /\ loading' = TRUE
    /\ Leave(Loading)
    /\ UNCHANGED <<layers, enabled, flags, gui, disp, views, flipped, seen, remapped>>

\* view_dispatcher_stop, by the navigation callback or by the application.
Stop ==
    /\ AppCall /\ app.pc = "loop"
    /\ app' = [app EXCEPT !.pc = "drain"]
    /\ UNCHANGED <<layers, enabled, flags, gui, queue, disp, views, loading, flipped,
                   seen, remapped>>

\* hand_orient_changed, by a settings view in its input callback of a Short or
\* a Repeat, so with the key down: every port maps its keys anew from here on;
\* then the view asks for a redraw (with_view_model, view_port_update).
HandOrientChanged ==
    /\ app.pc = "loop"
    /\ disp.ongoing # {} /\ disp.current \in View /\ disp.current = disp.bound
    /\ mode' = [mode EXCEPT !.hand = ~@]
    /\ flags' = IF Attached /\ App \in enabled THEN Updated ELSE flags
    /\ remapped' = remapped \cup LetIn
    /\ UNCHANGED <<keyVars, layers, enabled, gui, held, clicks, ops,
                   queue, disp, views, loading, flipped, app, seen>>

\* view_dispatcher_handle_input on the dispatcher's state.
Handled(e) ==
    [disp EXCEPT !.ongoing = Ongoing(@, e),
                 !.bound = IF IsFirstPress(disp.ongoing, e) THEN disp.current ELSE @]

\* view_dispatcher_run_input_callback and view_dispatcher_handle_input, up to
\* the navigation: a view that consumes the key ends it here.
HandleInput ==
    /\ app.pc = "loop" /\ queue # <<>>
    /\ queue' = Tail(queue)
    /\ LET e == Head(queue)
           to == IF IsComplementary(disp.ongoing, e)
                 THEN Receiver(e, disp.current, Handled(e).bound) ELSE None
           unconsumed == /\ to \in View /\ to = disp.current
                         /\ e.key = "Back" /\ e.type \in {"Short", "Long"}
       IN /\ disp' = Handled(e)
          /\ seen' = IF to \in View THEN [seen EXCEPT ![to] = Ongoing(@, e)] ELSE seen
          /\ \/ UNCHANGED app
             \/ unconsumed /\ app' = [app EXCEPT !.pc = "back"]
    /\ UNCHANGED <<keyVars, guiVars, views, loading, flipped, remapped>>

\* The view did not consume Back: its previous view is entered, or the
\* navigation callback has the loop go on or stop.
Navigate ==
    /\ app.pc = "back"
    /\ \/ \E v \in views \cup {None} : Leave(v)
       \/ app' = [app EXCEPT !.pc = "drain"] /\ UNCHANGED queue
       \/ app' = [app EXCEPT !.pc = "loop"] /\ UNCHANGED queue
    /\ UNCHANGED <<keyVars, guiVars, disp, views, loading, flipped, seen, remapped>>

\* The end of view_dispatcher_run takes keys until every Release is in.
Drain ==
    /\ app.pc = "drain" /\ disp.ongoing # {} /\ queue # <<>>
    /\ queue' = Tail(queue)
    /\ disp' = [disp EXCEPT !.ongoing = Ongoing(@, Head(queue))]
    /\ UNCHANGED <<keyVars, guiVars, views, loading, flipped, app, seen, remapped>>

RunReturns ==
    /\ app.pc = "drain" /\ disp.ongoing = {}
    /\ app' = [app EXCEPT !.pc = "teardown"]
    /\ UNCHANGED <<keyVars, guiVars, queue, disp, views, loading, flipped, seen, remapped>>

\* view_dispatcher_remove_view: a current view leaves the screen first.
Unbound(v) ==
    [disp EXCEPT !.current = IF @ = v THEN None ELSE @, !.bound = IF @ = v THEN None ELSE @]

\* All of it under gui->mutex, when the loop runs as well as after it.
RemoveView(v) ==
    /\ v \in views /\ ~Locked
    /\ app.pc = "teardown" \/ (app.pc = "loop" /\ ops < MaxOps)
    /\ ops' = IF app.pc = "loop" THEN ops + 1 ELSE ops
    /\ views' = views \ {v}
    /\ disp' = Unbound(v)
    /\ seen' = [seen EXCEPT ![v] = {}]
    /\ LET leaves == disp.current = v IN
       /\ enabled' = IF leaves THEN enabled \ {App} ELSE enabled
       /\ flags' = IF leaves /\ App \in enabled THEN Updated ELSE flags
       /\ app' = [app EXCEPT !.pc = IF leaves /\ @ = "loop" THEN "drain" ELSE @]
    /\ UNCHANGED <<keyVars, layers, mode, gui, held, clicks,
                   queue, loading, flipped, remapped>>

\* view_dispatcher_free: the port leaves the GUI, then the loading view and
\* the queues go.
Free ==
    /\ app.pc = "teardown" /\ views = {} /\ ~Locked
    /\ layers' = Without(App) /\ gui' = Forgotten(App) /\ flags' = Updated
    /\ enabled' = enabled \ {App}
    /\ queue' = <<>> /\ loading' = FALSE
    /\ disp' = [current |-> None, bound |-> None, ongoing |-> {}]
    /\ app' = [app EXCEPT !.pc = "gone"]
    /\ UNCHANGED <<keyVars, mode, held, clicks, ops, views, flipped, seen, remapped>>

-----------------------------------------------------------------------------
AppCalls ==
    \/ Attach \/ SendTo \/ ShowLoading \/ Stop \/ HandOrientChanged
    \/ \E v \in View : AddView(v)
    \/ \E v \in View \cup {None} : SwitchToView(v)

AppThread ==
    \/ Enter \/ Show \/ HandleInput \/ Navigate \/ Drain \/ RunReturns
    \/ (\E v \in View : RemoveView(v)) \/ Free

Environment == (KeyArrives \/ GuiCalls) /\ UNCHANGED dispVars

\* The frame a redraw would give is the same before and after the step; the
\* first disjunct is a case of the second that is cheap to evaluate.
StaysDrawn ==
    UNCHANGED <<layers, enabled, mode, disp>> \/ Drawn(Content)' = Drawn(Content)

Next ==
    /\ GuiStep \/ DeliverApp \/ AppCalls \/ AppThread \/ Environment
    /\ fresh' = \/ gui.pc = "redraw" /\ ~mode.direct
                \/ fresh /\ ~mode.direct' /\ StaysDrawn

Spec == Init /\ [][Next]_vars

-----------------------------------------------------------------------------
(* Properties                                                              *)

\* view_dispatcher.c:380: "a key already counted in ongoing_input owns a
\* Release that the drain at the end of view_dispatcher_run() waits for". The
\* Release is queued, on its way, or will be routed here when the key is let
\* go, whatever was put on top, locked down, switched, reset or removed. The
\* exception, after which the drain at view_dispatcher.c:136 may wait until the
\* opposite key is pressed: the port was rotated, or the hand orientation
\* changed, between a Press and its Release (view_port.c:70-76).
ReleaseComing(k) ==
    \/ \E i \in 1 .. Len(queue) : queue[i].key = k /\ queue[i].type = "Release"
    \/ gui.pc = "deliver" /\ gui.to = App /\ gui.ev.type = "Release"
         /\ Oriented(gui.ev.key) = k
    \/ gui.port = App /\ \E q \in gui.ongoing : MapInput(q) = k

KeyOwnsRelease == App \notin remapped => \A k \in disp.ongoing : ReleaseComing(k)

\* Whoever got a Press, a view port or a view, is still the one its Release
\* goes to, under the same key: no receiver is left with a key it believes
\* down. The exception: the ports whose keys were mapped anew, by a rotation
\* or by hand_orient_changed, while they had one down.
NoStuckKeys ==
    /\ \A p \in Plain \ remapped : \A k \in held[p] :
         gui.port = p /\ ((\E q \in gui.ongoing : Handed(q) = k) \/ gui.ev = Ev(k, "Release"))
    /\ app.pc \in {"loop", "enter", "show", "back"} /\ App \notin remapped =>
         \A v \in View : \A k \in seen[v] : disp.bound = v /\ k \in disp.ongoing

\* The GUI and the dispatcher hold no pointer to a port or a view that was
\* removed: what is delivered to, drawn or bound still exists.
NothingDangles ==
    /\ gui.port # None => InLayer(gui.port)
    /\ gui.pc = "deliver" => InLayer(gui.to)
    /\ {disp.current, disp.bound} \subseteq
         views \cup {None} \cup (IF loading THEN {Loading} ELSE {})

\* gui_update: a sleeping GUI with no draw flag shows what the state
\* asks for, though requests made while it draws are merged into one flag and
\* those made while the display is drawn directly are dropped.
ScreenUpToDate ==
    gui.pc = "wait" /\ "DRAW" \notin flags /\ ~mode.direct
      /\ app.pc \notin {"enter", "show"} => fresh
=============================================================================
