--------------------------------- MODULE Gui ---------------------------------
(***************************************************************************)
(* The GUI service (firmware/applications/services/gui/gui.c, view_port.c): *)
(* one thread takes the keys from a queue and routes each to a view port,  *)
(* and redraws when asked; other threads add, remove, order and enable     *)
(* view ports, lock the display down or draw on it directly. A view port   *)
(* with a view dispatcher behind it is completed by ViewDispatcher.        *)
(***************************************************************************)
EXTENDS Keys, FiniteSets

CONSTANTS
    Port,       \* view ports
    LayerOf,    \* the layer each is added to
    Dispatched, \* view ports whose input callback is a view dispatcher's
    FlippedKey, \* view_port_left_hand_input_mapping; view_port_input_mapping
                \* has the same row for ViewPortOrientationHorizontalFlip
    Clicked,    \* bound: keys that are pressed
    Tapped,     \* bound: keys with events between Press and Release
    MaxClicks,  \* bound: Press events
    MaxOps      \* bound: calls of the threads other than the GUI's, those
                \* that end what an earlier one began apart

None == "none"
Layer == {"Desktop", "Window", "Fullscreen"}
Plain == Port \ Dispatched
Home == "desktop" \* the desktop's own port, which stays

ASSUME GuiAssumption ==
    /\ None \notin Port /\ LayerOf \in [Port -> Layer] /\ Dispatched \subseteq Port
    /\ Home \in Plain
    /\ FlippedKey \in [Key -> Key]
    /\ \A k, q \in Key : FlippedKey[k] = FlippedKey[q] => k = q
    /\ Clicked \subseteq Key /\ Tapped \subseteq Key /\ LateTypes \cap {"Press", "Release"} = {}
    /\ {MaxClicks, MaxOps} \subseteq Nat

VARIABLES
    layers,  \* gui->layers, last on top
    enabled, \* view ports with is_enabled
    mode,    \* lockdown, lockdown_inhibit, direct_draw, FuriHalRtcFlagHandOrient
    flags,   \* flags of the GUI's thread
    gui,     \* the GUI's thread: pc, whether it draws after the input, the
             \* event it took, where the event goes, ongoing_input,
             \* ongoing_input_view_port
    held,    \* history: keys a plain port was told are pressed, not released since
    clicks, ops

guiVars == <<layers, enabled, mode, flags, gui, held, clicks, ops>>

-----------------------------------------------------------------------------
(* What is on top                                                          *)

InLayer(p) == \E l \in Layer : \E i \in 1 .. Len(layers[l]) : layers[l][i] = p

\* gui_view_port_find_enabled: the last one of the array that is enabled.
FindEnabled(l) ==
    LET on == {i \in 1 .. Len(layers[l]) : layers[l][i] \in enabled}
    IN  IF on = {} THEN None
        ELSE layers[l][CHOOSE i \in on : \A j \in on : j =< i]

IsLockdown == mode.lockdown /\ ~mode.inhibit

Above == IF FindEnabled("Fullscreen") # None
         THEN FindEnabled("Fullscreen") ELSE FindEnabled("Window")

\* The port gui_input looks up and gui_redraw draws.
TopPort == IF ~IsLockdown /\ Above # None THEN Above ELSE FindEnabled("Desktop")

\* gui_redraw: in lockdown the status bar asks for attention when something
\* is enabled above the desktop; content is what the port's draw callback
\* shows.
Drawn(content) ==
    [port |-> TopPort, content |-> content, attention |-> IsLockdown /\ Above # None]

NoEvent == Ev(None, None)

-----------------------------------------------------------------------------
(* The publishers of keys, and the calls of other threads                  *)

\* gui_input_events_callback: the put, then the flag; a GUI that takes the
\* event between the two only wakes once more for nothing.
KeyArrives ==
    /\ \/ \E k \in Key : ReleaseKey(k)
       \/ \E k \in Tapped : ShortKey(k) \/ LateKey(k)
       \/ clicks < MaxClicks /\ \E k \in Clicked : PressKey(k)
    /\ clicks' = IF down' \subseteq down THEN clicks ELSE clicks + 1
    /\ flags' = flags \cup {"INPUT"}
    /\ UNCHANGED <<layers, enabled, mode, gui, held, ops>>

\* gui_update: nothing while the display is drawn directly.
Updated == IF mode.direct THEN flags ELSE flags \cup {"DRAW"}

\* gui->mutex: the GUI's thread keeps it over an input callback and over
\* the commit of a frame.
Locked == gui.pc \in {"deliver", "commit"}

\* A call of a thread that is neither the GUI's nor an application's; ends
\* says that it ends what an earlier one began.
Call(ends) ==
    /\ ends \/ ops < MaxOps
    /\ ops' = IF ends THEN ops ELSE ops + 1
    /\ UNCHANGED <<keyVars, clicks>>

\* Such a call that takes gui->mutex and asks for a redraw after it.
LockedCall(ends) == Call(ends) /\ ~Locked /\ flags' = Updated

\* ViewPortArray_remove at the place of p; gui_add_view_port asserts that
\* there is one at most.
Removed(s, p) ==
    IF \A i \in 1 .. Len(s) : s[i] # p THEN s
    ELSE LET i == CHOOSE i \in 1 .. Len(s) : s[i] = p
         IN  [j \in 1 .. Len(s) - 1 |-> IF j < i THEN s[j] ELSE s[j + 1]]

Without(p) == [l \in Layer |-> Removed(layers[l], p)]

\* gui_add_view_port on layers, for any caller.
Added(p) == [layers EXCEPT ![LayerOf[p]] = Append(@, p)]

AddViewPort(p) ==
    /\ LockedCall(FALSE) /\ ~InLayer(p)
    /\ layers' = Added(p)
    /\ UNCHANGED <<gui, enabled, mode, held>>

\* Mutant: gui_remove_view_port keeps the port as the receiver of input.
ForgottenNever(p) == gui

\* gui_remove_view_port on the thread's state, for any caller.
Forgotten(p) == [gui EXCEPT !.port = IF @ = p THEN None ELSE @]

RemoveViewPort(p) ==
    /\ LockedCall(TRUE) /\ InLayer(p)
    /\ layers' = Without(p) /\ gui' = Forgotten(p)
    /\ held' = [held EXCEPT ![p] = {}]
    /\ UNCHANGED <<enabled, mode>>

\* gui_view_port_send_to_front, gui_view_port_send_to_back
Reorder(p) ==
    /\ LockedCall(FALSE) /\ InLayer(p)
    /\ \/ layers' = [Without(p) EXCEPT ![LayerOf[p]] = Append(@, p)]
       \/ layers' = [Without(p) EXCEPT ![LayerOf[p]] = <<p>> \o @]
    /\ UNCHANGED <<gui, enabled, mode, held>>

\* view_port_enabled_set: not under gui->mutex, and it waits at most two
\* ticks for the port's own.
EnabledSet(p) ==
    /\ Call(p \notin enabled)
    /\ enabled' = IF p \in enabled THEN enabled \ {p} ELSE enabled \cup {p}
    /\ flags' = IF InLayer(p) THEN Updated ELSE flags
    /\ UNCHANGED <<gui, layers, mode, held>>

\* gui_set_lockdown
SetLockdown ==
    /\ LockedCall(mode.lockdown)
    /\ mode' = [mode EXCEPT !.lockdown = ~@]
    /\ UNCHANGED <<gui, layers, enabled, held>>

\* gui_set_lockdown_inhibit
SetLockdownInhibit ==
    /\ LockedCall(mode.inhibit)
    /\ mode' = [mode EXCEPT !.inhibit = ~@]
    /\ UNCHANGED <<gui, layers, enabled, held>>

\* gui_direct_draw_acquire: the caller owns the display from here on.
DirectDrawAcquire ==
    /\ Call(FALSE) /\ ~Locked /\ ~mode.direct
    /\ mode' = [mode EXCEPT !.direct = TRUE]
    /\ UNCHANGED <<gui, layers, enabled, flags, held>>

\* gui_direct_draw_release
DirectDrawRelease ==
    /\ Call(TRUE) /\ ~Locked /\ mode.direct
    /\ mode' = [mode EXCEPT !.direct = FALSE]
    /\ flags' = flags \cup {"DRAW"}
    /\ UNCHANGED <<gui, layers, enabled, held>>

GuiCalls ==
    \/ \E p \in Plain \ {Home} : AddViewPort(p) \/ RemoveViewPort(p) \/ Reorder(p) \/ EnabledSet(p)
    \/ SetLockdown \/ SetLockdownInhibit \/ DirectDrawAcquire \/ DirectDrawRelease

-----------------------------------------------------------------------------
(* The GUI's thread: gui_srv                                               *)

Wake ==
    /\ gui.pc = "wait" /\ flags # {}
    /\ gui' = [gui EXCEPT !.pc = IF "INPUT" \in flags THEN "input" ELSE "redraw",
                          !.draw = {"INPUT", "DRAW"} \subseteq flags]
    /\ flags' = {}
    /\ UNCHANGED <<keyVars, layers, enabled, mode, held, clicks, ops>>

InputDone ==
    /\ gui.pc = "input" /\ inputQueue = <<>>
    /\ gui' = [gui EXCEPT !.pc = IF gui.draw THEN "redraw" ELSE "wait", !.draw = FALSE]
    /\ UNCHANGED <<keyVars, layers, enabled, mode, flags, held, clicks, ops>>

\* Input complementarity, as gui_input and view_dispatcher_handle_input keep
\* it: the keys that are down after the event.
Ongoing(keys, e) ==
    CASE e.type = "Press"   -> keys \cup {e.key}
      [] e.type = "Release" -> keys \ {e.key}
      [] OTHER              -> keys

IsComplementary(keys, e) == e.type \in {"Press", "Release"} \/ e.key \in keys

IsFirstPress(keys, e) == e.type = "Press" /\ Ongoing(keys, e) = {e.key}

\* Mutant: the Release goes to the port that is on top now.
ReceiverOnTop(e, top, bound) == IF top = bound \/ e.type = "Release" THEN top ELSE None

\* Where an event goes: to the one on top if it saw the first Press, else a
\* Release to the one that did, else nowhere.
Receiver(e, top, bound) == IF top = bound \/ e.type = "Release" THEN bound ELSE None

\* view_port_map_input, its first half: a left-handed user holds the device
\* the other way round. Keys injected over RPC, which it leaves alone, are not
\* modelled, nor are the vertical orientations, which the flag does not touch.
Handed(k) == IF mode.hand THEN FlippedKey[k] ELSE k

\* gui_input, up to the callback: view_port_input maps the key as it begins.
GuiInput ==
    /\ gui.pc = "input" /\ TakeKey
    /\ LET e == Head(inputQueue)
           dropped == mode.direct /\ gui.port = None
           bound == IF IsFirstPress(gui.ongoing, e) /\ ~dropped THEN TopPort ELSE gui.port
           to == IF IsComplementary(gui.ongoing, e) /\ ~dropped
                 THEN Receiver(e, TopPort, bound) ELSE None
       IN gui' = [gui EXCEPT !.ongoing = Ongoing(@, e), !.port = bound,
                    !.to = to, !.ev = IF to = None THEN NoEvent ELSE Ev(Handed(e.key), e.type),
                    !.pc = IF to = None THEN "input" ELSE "deliver"]
    /\ UNCHANGED <<layers, enabled, mode, flags, held, clicks, ops>>

\* The input callback has returned.
Idle == [gui EXCEPT !.pc = "input", !.to = None, !.ev = NoEvent]

\* view_port_input of a port that is not a dispatcher's: its orientation is
\* Horizontal, whose row of view_port_input_mapping keeps the key.
DeliverPlain ==
    /\ gui.pc = "deliver" /\ gui.to \in Plain
    /\ held' = [held EXCEPT ![gui.to] = Ongoing(@, gui.ev)]
    /\ gui' = Idle
    /\ UNCHANGED <<keyVars, layers, enabled, mode, flags, clicks, ops>>

\* The draw flag is cleared, then gui_redraw draws and holds the mutex until
\* the frame is committed.
Redraw ==
    /\ gui.pc = "redraw"
    /\ flags' = flags \ {"DRAW"}
    /\ gui' = [gui EXCEPT !.pc = IF mode.direct THEN "wait" ELSE "commit"]
    /\ UNCHANGED <<keyVars, layers, enabled, mode, held, clicks, ops>>

\* Mutant: the flag is cleared after the frame instead of before it.
CommittedClearing == flags \ {"DRAW"}

Committed == flags

Commit ==
    /\ gui.pc = "commit"
    /\ gui' = [gui EXCEPT !.pc = "wait"]
    /\ flags' = Committed
    /\ UNCHANGED <<keyVars, layers, enabled, mode, held, clicks, ops>>

GuiThread ==
    \/ Wake \/ InputDone \/ GuiInput \/ DeliverPlain
    \/ Redraw \/ Commit

-----------------------------------------------------------------------------
\* The desktop's port waits to be drawn, and no key is held; the RTC keeps
\* the hand orientation.
GuiInit ==
    /\ KeysInit /\ down = {}
    /\ layers = [l \in Layer |-> IF l = "Desktop" THEN <<Home>> ELSE <<>>]
    /\ enabled = Plain
    /\ \E hand \in BOOLEAN :
         mode = [lockdown |-> FALSE, inhibit |-> FALSE, direct |-> FALSE, hand |-> hand]
    /\ flags = {"DRAW"}
    /\ gui = [pc |-> "wait", draw |-> FALSE, ev |-> NoEvent, to |-> None,
              ongoing |-> {}, port |-> None]
    /\ held = [p \in Port |-> {}]
    /\ clicks = 0 /\ ops = 0
=============================================================================
