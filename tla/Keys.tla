-------------------------------- MODULE Keys --------------------------------
(***************************************************************************)
(* What the input service promises the GUI (input/input.h): per key,       *)
(* Press and Release alternate and Short comes between them; Long and      *)
(* Repeat are asynchronous. Input implements it, Gui runs against it.      *)
(***************************************************************************)
EXTENDS Naturals, Sequences

CONSTANTS
    Key,        \* InputKey
    LateTypes,  \* the asynchronous types: Long, Repeat
    QueueDepth  \* length of gui->input_queue (8 in the code)

VARIABLES
    inputQueue, \* gui->input_queue
    down        \* keys whose last Press or Release was a Press

keyVars == <<inputQueue, down>>

KeyEvent == [key : Key, type : {"Press", "Release", "Short"} \cup LateTypes]

Ev(k, t) == [key |-> k, type |-> t]

\* A key may be held while the service starts: its Press is never published.
KeysInit == inputQueue = <<>> /\ down \in SUBSET Key

\* furi_pubsub_publish, whose subscriber is gui_input_events_callback: it
\* waits for room in the queue.
Publish(e) == Len(inputQueue) < QueueDepth /\ inputQueue' = Append(inputQueue, e)

PressKey(k) == k \notin down /\ Publish(Ev(k, "Press")) /\ down' = down \cup {k}

ReleaseKey(k) == k \in down /\ Publish(Ev(k, "Release")) /\ down' = down \ {k}

ShortKey(k) == k \in down /\ Publish(Ev(k, "Short")) /\ UNCHANGED down

LateKey(k) == (\E t \in LateTypes : Publish(Ev(k, t))) /\ UNCHANGED down

\* The GUI takes an event.
TakeKey == inputQueue # <<>> /\ inputQueue' = Tail(inputQueue) /\ UNCHANGED down

KeysNext ==
    \/ \E k \in Key : PressKey(k) \/ ReleaseKey(k) \/ ShortKey(k) \/ LateKey(k)
    \/ TakeKey

KeysSpec == KeysInit /\ [][KeysNext]_keyVars
=============================================================================
