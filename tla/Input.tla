-------------------------------- MODULE Input -------------------------------
(***************************************************************************)
(* The input service (firmware/applications/services/input/input.c): one   *)
(* thread debounces the keys and publishes Press, Short and Release; the   *)
(* kernel's timer daemon counts press periods and publishes Long and       *)
(* Repeat; an interrupt on every edge wakes the thread.                    *)
(***************************************************************************)
EXTENDS Naturals, Sequences

CONSTANTS
    Pins,          \* number of entries of input_pins; pin i is key i
    DebounceTicks, \* INPUT_DEBOUNCE_TICKS
    LongCounts,    \* INPUT_LONG_PRESS_COUNTS
    QueueDepth,    \* length of gui->input_queue
    MaxEdges       \* bound: edges of the keys

Key == 1 .. Pins

ASSUME InputAssumption ==
    /\ {Pins, QueueDepth, DebounceTicks} \subseteq Nat \ {0}
    /\ LongCounts \in Nat \ {0, 1} /\ MaxEdges \in Nat

VARIABLES
    level,      \* GPIO_Read of each key
    edges,      \* edges so far
    isr,        \* INPUT_THREAD_FLAG_ISR
    pin,        \* pin_states: state, debounce, press_counter
    at,         \* the thread: where it is, at which pin, is_changing
    commands,   \* command queue of the timer daemon
    running,    \* press timers the daemon has started
    daemon,     \* events the daemon is waiting to publish, at most one
    inputQueue, \* gui->input_queue
    stalled     \* a press has waited a whole period for room in the queue

vars == <<level, edges, isr, pin, at, commands, running, daemon, inputQueue, stalled>>

threadVars == <<isr, pin, at>>
daemonVars == <<commands, running, daemon>>

Ev(k, t) == [key |-> k, type |-> t]

Init ==
    /\ level \in [Key -> BOOLEAN]
    /\ edges = 0 /\ isr = FALSE
    /\ pin = [k \in Key |-> [state |-> level[k], debounce |-> DebounceTicks \div 2,
                             count |-> 0]]
    /\ at = [pc |-> "scan", key |-> 1, changing |-> FALSE]
    /\ commands = <<>> /\ running = {} /\ daemon = <<>>
    /\ inputQueue = <<>> /\ stalled = FALSE

-----------------------------------------------------------------------------
(* Outside: the keys, and the GUI that takes the events.                   *)

\* A contact closes, opens or bounces; input_isr sets the thread's flag.
Edge(k) ==
    /\ edges < MaxEdges
    /\ level' = [level EXCEPT ![k] = ~@]
    /\ edges' = edges + 1
    /\ isr' = TRUE
    /\ UNCHANGED <<pin, at, daemonVars, inputQueue, stalled>>

\* gui_srv gets an event from its queue.
GuiTakes ==
    /\ inputQueue # <<>>
    /\ inputQueue' = Tail(inputQueue)
    /\ UNCHANGED <<level, edges, threadVars, daemonVars, stalled>>

Publish(e) == Len(inputQueue) < QueueDepth /\ inputQueue' = Append(inputQueue, e)

-----------------------------------------------------------------------------
(* The input thread                                                        *)

Counted(k) ==
    LET d == pin[k].debounce IN
    IF level[k] THEN (IF d < DebounceTicks THEN d + 1 ELSE d)
    ELSE (IF d > 0 THEN d - 1 ELSE d)

NextPin == [at EXCEPT !.pc = "scan", !.key = @ + 1]

\* Between two passes the thread sleeps a tick or more, in which the daemon
\* handles its commands unless it is blocked publishing.
DaemonCaughtUp == at.key = 1 => commands = <<>> \/ daemon # <<>>

\* Mutant: a steady pin counts as changed.
ChangedAlways(k) == TRUE

Changed(k) == pin[k].state # level[k]

\* One pass of the loop over the pins reads pin at.key.
Scan ==
    /\ at.pc = "scan" /\ at.key =< Pins
    /\ DaemonCaughtUp
    /\ LET k == at.key
           d == Counted(k)
       IN
       /\ pin' = [pin EXCEPT ![k].debounce = d,
                    ![k].state = IF d \in {0, DebounceTicks} THEN level[k] ELSE @]
       /\ \/ /\ d \notin {0, DebounceTicks}
             /\ at' = [NextPin EXCEPT !.changing = TRUE]
             /\ UNCHANGED commands
          \/ /\ d \in {0, DebounceTicks} /\ Changed(k)
             /\ at' = [at EXCEPT !.pc = IF level[k] THEN "event" ELSE "stopping"]
             /\ commands' = Append(commands, <<IF level[k] THEN "start" ELSE "stop", k>>)
          \/ /\ d \in {0, DebounceTicks} /\ ~Changed(k)
             /\ at' = NextPin
             /\ UNCHANGED commands
    /\ UNCHANGED <<level, edges, isr, running, daemon, inputQueue, stalled>>

\* Mutant: the thread does not wait for the timer to stop.
TimerStoppedAtOnce(k) == TRUE

\* furi_timer_is_running has become false.
TimerStopped(k) == k \notin running

ShortPress(k) == pin[k].count < LongCounts

\* A released key: Short unless the press was long.
Stopping ==
    /\ at.pc = "stopping"
    /\ TimerStopped(at.key)
    /\ IF ShortPress(at.key)
       THEN at' = [at EXCEPT !.pc = "short"] /\ UNCHANGED pin
       ELSE at' = [at EXCEPT !.pc = "event"] /\ pin' = [pin EXCEPT ![at.key].count = 0]
    /\ UNCHANGED <<level, edges, isr, daemonVars, inputQueue, stalled>>

PublishShort ==
    /\ at.pc = "short"
    /\ Publish(Ev(at.key, "Short"))
    /\ pin' = [pin EXCEPT ![at.key].count = 0]
    /\ at' = [at EXCEPT !.pc = "event"]
    /\ UNCHANGED <<level, edges, isr, daemonVars, stalled>>

PublishPressRelease ==
    /\ at.pc = "event"
    /\ Publish(Ev(at.key, IF pin[at.key].state THEN "Press" ELSE "Release"))
    /\ at' = NextPin
    /\ UNCHANGED <<level, edges, isr, pin, daemonVars, stalled>>

\* Mutant: the flag is cleared before the wait.
PassEndsClearing ==
    /\ at.pc = "scan" /\ at.key > Pins
    /\ at' = IF at.changing THEN [pc |-> "scan", key |-> 1, changing |-> FALSE]
             ELSE [at EXCEPT !.pc = "wait"]
    /\ isr' = FALSE
    /\ UNCHANGED <<level, edges, pin, daemonVars, inputQueue, stalled>>

\* The end of a pass: another one a tick later while a key is changing, else
\* wait for an edge.
PassEnds ==
    /\ at.pc = "scan" /\ at.key > Pins
    /\ at' = IF at.changing THEN [pc |-> "scan", key |-> 1, changing |-> FALSE]
             ELSE [at EXCEPT !.pc = "wait"]
    /\ UNCHANGED <<level, edges, isr, pin, daemonVars, inputQueue, stalled>>

\* furi_thread_flags_wait returns.
Woken ==
    /\ at.pc = "wait" /\ isr
    /\ isr' = FALSE
    /\ at' = [pc |-> "scan", key |-> 1, changing |-> FALSE]
    /\ UNCHANGED <<level, edges, pin, daemonVars, inputQueue, stalled>>

-----------------------------------------------------------------------------
(* The timer daemon                                                        *)

\* The commands for the timer of k.
Own(k) == {i \in 1 .. Len(commands) : commands[i][2] = k}

\* The timer of k runs once the commands are handled: its last start or stop
\* takes effect.
Commanded(k) ==
    IF Own(k) = {} THEN k \in running
    ELSE \E i \in Own(k) : commands[i][1] = "start" /\ \A j \in Own(k) : j =< i

\* The daemon empties its command queue before it looks at the timers again,
\* and none is handled while a callback runs.
DaemonCommands ==
    /\ daemon = <<>> /\ commands # <<>>
    /\ commands' = <<>>
    /\ running' = {k \in Key : Commanded(k)}
    /\ UNCHANGED <<level, edges, threadVars, daemon, inputQueue, stalled>>

\* The Press of k is not out yet. A period is 150 ticks: one passes before the
\* Press only while the queue is full.
PressPending(k) == at.pc = "event" /\ at.key = k

\* input_press_timer_callback
PressTimer(k) ==
    /\ daemon = <<>> /\ k \in running
    /\ PressPending(k) => Len(inputQueue) = QueueDepth
    /\ stalled' = (stalled \/ PressPending(k))
    /\ LET n == pin[k].count + 1 IN
       /\ pin' = [pin EXCEPT ![k].count = IF n > LongCounts THEN n - 1 ELSE n]
       /\ daemon' = IF n = LongCounts THEN <<Ev(k, "Long")>>
                    ELSE IF n > LongCounts THEN <<Ev(k, "Repeat")>> ELSE <<>>
    /\ UNCHANGED <<level, edges, isr, at, commands, running, inputQueue>>

DaemonPublish ==
    /\ daemon # <<>>
    /\ Publish(Head(daemon))
    /\ daemon' = <<>>
    /\ UNCHANGED <<level, edges, threadVars, commands, running, stalled>>

-----------------------------------------------------------------------------
InputThread == Scan \/ Stopping \/ PublishShort \/ PublishPressRelease
               \/ PassEnds \/ Woken

Daemon == DaemonCommands \/ DaemonPublish \/ \E k \in Key : PressTimer(k)

Next == (\E k \in Key : Edge(k)) \/ GuiTakes \/ InputThread \/ Daemon

\* The two threads and the GUI are scheduled; which of several blocked
\* publishers gets the free place is fair, as is the handling of commands
\* among the expiries of the timers.
Fairness ==
    /\ WF_vars(GuiTakes)
    /\ WF_vars(Scan) /\ WF_vars(Stopping) /\ WF_vars(PassEnds) /\ WF_vars(Woken)
    /\ SF_vars(PublishShort) /\ SF_vars(PublishPressRelease) /\ SF_vars(DaemonPublish)
    /\ SF_vars(DaemonCommands)

Spec == Init /\ [][Next]_vars /\ Fairness

-----------------------------------------------------------------------------
(* Properties                                                              *)

\* The key whose Press or Release is decided but not yet published.
Deciding(k) == at.pc \in {"stopping", "short", "event"} /\ at.key = k

Down == {k \in Key : pin[k].state # Deciding(k)}

Promise == INSTANCE Keys WITH LateTypes <- {"Long", "Repeat"}, down <- Down

\* input.h: the service implements Keys. Per key, Press and Release alternate
\* and Short only comes between them, whatever the contacts, the timer and a
\* full queue do.
ImplementsKeys == Promise!KeysSpec

\* input.h on Short and Long: unless a full queue holds a Press up for a whole
\* period, a press means one thing. Once its Long is out no Short follows, and Long and
\* Repeat only come from a key that is down: no period counted by the timer
\* crosses the release that the thread has read.
OneMeaning ==
    [][~stalled /\ inputQueue' # inputQueue /\ Len(inputQueue') > Len(inputQueue) =>
         LET e == inputQueue'[Len(inputQueue')] IN
         /\ e.type \in {"Long", "Repeat"} => e.key \in Down
         /\ e.type = "Short" => pin[e.key].count < LongCounts
         /\ e.type = "Press" => pin[e.key].count = 0]_vars

\* The thread never sleeps through an edge: when the contacts come to rest,
\* the state of every key comes to equal its contact and stays so.
KeysSettle ==
    \A k \in Key : <>[](pin[k].state = level[k] /\ at.pc = "wait")
=============================================================================
