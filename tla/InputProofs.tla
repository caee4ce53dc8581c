----------------------------- MODULE InputProofs -----------------------------
(* The input service implements Keys, for every number of keys, length of    *)
(* the GUI's queue, debounce time and length of a long press; and a press    *)
(* has one meaning.                                                          *)
EXTENDS Input, TLAPS

Type == {"Press", "Release", "Short", "Long", "Repeat"}

Pc == {"scan", "stopping", "short", "event", "wait"}

PinState == [state : BOOLEAN, debounce : Nat, count : Nat]

Place == [pc : Pc, key : Nat \ {0}, changing : BOOLEAN]

ThreadOK ==
    /\ level \in [Key -> BOOLEAN]
    /\ pin \in [Key -> PinState]
    /\ at \in Place
    /\ at.pc \notin {"scan", "wait"} => at.key \in Key

DaemonOK ==
    /\ commands \in Seq({"start", "stop"} \X Key)
    /\ running \in SUBSET Key
    /\ daemon = <<>> \/ \E k \in Key, t \in {"Long", "Repeat"} : daemon = <<Ev(k, t)>>

FlagsOK == isr \in BOOLEAN /\ stalled \in BOOLEAN

\* Values of the variables; daemon holds one event at most.
InputTypeOK ==
    /\ ThreadOK /\ DaemonOK /\ FlagsOK
    /\ inputQueue \in Seq([key : Key, type : Type])

\* A key on its way to Short or Release has been read as up.
UpWhenStopping == at.pc \in {"stopping", "short"} => ~pin[at.key].state

\* The timer of a key runs, or will once the commands are handled, only while
\* the key is down; after the release only until the thread has seen it stop.
RunsWhileDown ==
    /\ \A k \in Key : Commanded(k) => pin[k].state
    /\ \A k \in running : Commanded(k) \/ (at.pc = "stopping" /\ at.key = k)

\* The event the daemon holds is of a timer that stays running meanwhile.
HeldRuns == daemon # <<>> => Head(daemon).key \in running

HeldDown == daemon # <<>> /\ ~stalled => Head(daemon).key \in Down

\* A count other than zero belongs to a press.
CountsPress ==
    /\ \A k \in Key : pin[k].count > 0 =>
         pin[k].state \/ (at.pc \in {"stopping", "short"} /\ at.key = k)
    /\ at.pc = "short" => pin[at.key].count < LongCounts
    /\ at.pc = "event" /\ ~stalled => pin[at.key].count = 0

Safe == UpWhenStopping /\ RunsWhileDown /\ HeldRuns /\ HeldDown /\ CountsPress

InputInv == InputTypeOK /\ Safe

-----------------------------------------------------------------------------
(* Typing                                                                    *)

LEMMA InitTyped == Init => InputTypeOK
<1> SUFFICES ASSUME Init PROVE InputTypeOK OBVIOUS
<1>1. DebounceTicks \div 2 \in Nat BY InputAssumption
<1>2. ThreadOK BY <1>1 DEF Init, ThreadOK, PinState, Place, Pc
<1>3. DaemonOK BY DEF Init, DaemonOK
<1>4. FlagsOK BY Zenon DEF Init, FlagsOK
<1>5. inputQueue \in Seq([key : Key, type : Type]) BY DEF Init
<1> QED BY <1>2, <1>3, <1>4, <1>5 DEF InputTypeOK

\* Only PressTimer can set stalled; the other steps set isr or leave it alone.
LEMMA NextFlags == FlagsOK /\ [Next]_vars => FlagsOK'
<1> SUFFICES ASSUME FlagsOK, [Next]_vars PROVE FlagsOK' OBVIOUS
<1> USE Zenon DEF FlagsOK, threadVars, daemonVars
<1>1. ASSUME NEW k \in Key, Edge(k) PROVE FlagsOK' BY <1>1 DEF Edge
<1>2. CASE GuiTakes BY <1>2 DEF GuiTakes
<1>3. CASE Scan BY <1>3 DEF Scan
<1>4. CASE Stopping BY <1>4 DEF Stopping
<1>5. CASE PublishShort BY <1>5 DEF PublishShort
<1>6. CASE PublishPressRelease BY <1>6 DEF PublishPressRelease
<1>7. CASE PassEnds BY <1>7 DEF PassEnds
<1>8. CASE Woken BY <1>8 DEF Woken
<1>9. CASE DaemonCommands BY <1>9 DEF DaemonCommands
<1>10. CASE DaemonPublish BY <1>10 DEF DaemonPublish
<1>11. ASSUME NEW k \in Key, PressTimer(k) PROVE FlagsOK' BY <1>11 DEF PressTimer
<1>12. CASE UNCHANGED vars BY <1>12 DEF vars
<1> QED BY <1>1, <1>2, <1>3, <1>4, <1>5, <1>6, <1>7, <1>8, <1>9, <1>10, <1>11, <1>12
        DEF Next, InputThread, Daemon

\* What the provers can decide together: the rest of the type invariant.
Typed == ThreadOK /\ DaemonOK /\ inputQueue \in Seq([key : Key, type : Type])

\* The thread's steps lead from one place of its loop to another.
LEMMA Places ==
  ASSUME at \in Place
  PROVE  /\ \A p \in Pc : [at EXCEPT !.pc = p] \in Place
              /\ [at EXCEPT !.pc = p].pc = p /\ [at EXCEPT !.pc = p].key = at.key
         /\ NextPin \in Place /\ NextPin.pc = "scan"
         /\ [NextPin EXCEPT !.changing = TRUE] \in Place
         /\ [NextPin EXCEPT !.changing = TRUE].pc = "scan"
         /\ [pc |-> "scan", key |-> 1, changing |-> FALSE] \in Place
<1>1. \A p \in Pc : [at EXCEPT !.pc = p] \in Place
         /\ [at EXCEPT !.pc = p].pc = p /\ [at EXCEPT !.pc = p].key = at.key
  BY DEF Place
<1>2. NextPin \in Place /\ NextPin.pc = "scan"
  <2>1. "scan" \in Pc /\ at.key + 1 \in Nat \ {0} BY DEF Place, Pc
  <2> QED BY <2>1 DEF Place, NextPin
<1>3. [NextPin EXCEPT !.changing = TRUE] \in Place
      /\ [NextPin EXCEPT !.changing = TRUE].pc = "scan"
  BY <1>2 DEF Place
<1>4. [pc |-> "scan", key |-> 1, changing |-> FALSE] \in Place BY DEF Place, Pc
<1> QED BY <1>1, <1>2, <1>3, <1>4

\* The press counter of one key changes, its state does not.
LEMMA CountSet ==
  ASSUME pin \in [Key -> PinState], NEW k \in Key, NEW n \in Nat,
         pin' = [pin EXCEPT ![k].count = n]
  PROVE  /\ pin' \in [Key -> PinState]
         /\ \A j \in Key : pin'[j].state = pin[j].state
         /\ \A j \in Key \ {k} : pin'[j].count = pin[j].count
         /\ pin'[k].count = n
  BY DEF PinState

\* One pin read: nothing is decided, or a change is and the timer is told.
ScanReads(k) ==
    /\ at'.pc = "scan" /\ commands' = commands
    /\ \A j \in Key : pin'[j].state = pin[j].state

ScanDecides(k) ==
    /\ at'.pc = (IF level[k] THEN "event" ELSE "stopping") /\ at'.key = k
    /\ commands' = Append(commands, <<IF level[k] THEN "start" ELSE "stop", k>>)
    /\ pin[k].state # level[k] /\ pin'[k].state = level[k]
    /\ \A j \in Key \ {k} : pin'[j].state = pin[j].state

LEMMA ScanSteps ==
  ASSUME ThreadOK, Scan
  PROVE  /\ at.key \in Key /\ at.pc = "scan"
         /\ pin' \in [Key -> PinState] /\ at' \in Place
         /\ \A j \in Key : pin'[j].count = pin[j].count
         /\ ScanReads(at.key) \/ ScanDecides(at.key)
<1> DEFINE k == at.key
           d == Counted(k)
           s == IF d \in {0, DebounceTicks} THEN level[k] ELSE pin[k].state
<1>1. k \in Key /\ at.pc = "scan" BY DEF Scan, ThreadOK, Key, Place
<1>2. d \in Nat
  BY <1>1, InputAssumption DEF Counted, ThreadOK, PinState
<1>3. s \in BOOLEAN BY <1>1 DEF ThreadOK, PinState
<1>4. pin' = [pin EXCEPT ![k].debounce = d, ![k].state = s] BY DEF Scan
<1> HIDE DEF d, s
<1>5. /\ pin' \in [Key -> PinState] /\ pin'[k].state = s
      /\ \A j \in Key : pin'[j].count = pin[j].count
      /\ \A j \in Key \ {k} : pin'[j].state = pin[j].state
  BY <1>1, <1>2, <1>3, <1>4 DEF ThreadOK, PinState
<1>6. at \in Place BY DEF ThreadOK
<1>7. CASE d \notin {0, DebounceTicks} /\ at' = [NextPin EXCEPT !.changing = TRUE]
           /\ UNCHANGED commands
  BY <1>1, <1>5, <1>6, <1>7, Places DEF ScanReads, s
<1>8. CASE /\ d \in {0, DebounceTicks} /\ Changed(k)
           /\ at' = [at EXCEPT !.pc = IF level[k] THEN "event" ELSE "stopping"]
           /\ commands' = Append(commands, <<IF level[k] THEN "start" ELSE "stop", k>>)
  <2> DEFINE p == IF level[k] THEN "event" ELSE "stopping"
  <2>1. p \in Pc BY DEF Pc
  <2>2. at' \in Place /\ at'.pc = p /\ at'.key = k BY <1>6, <1>8, <2>1, Places
  <2>3. s = level[k] /\ pin[k].state # level[k] BY <1>8 DEF s, Changed
  <2>4. ScanDecides(k) BY <1>5, <1>8, <2>2, <2>3 DEF ScanDecides
  <2> QED BY <1>1, <1>5, <2>2, <2>4
<1>9. CASE d \in {0, DebounceTicks} /\ ~Changed(k) /\ at' = NextPin /\ UNCHANGED commands
  <2>1. s = pin[k].state BY <1>9 DEF s, Changed
  <2>2. ScanReads(k) BY <1>5, <1>6, <1>9, <2>1, Places DEF ScanReads
  <2> QED BY <1>1, <1>5, <1>6, <1>9, <2>2, Places
<1> QED BY <1>7, <1>8, <1>9 DEF Scan, d

LEMMA ScanTyped == Typed /\ Scan => Typed'
<1> SUFFICES ASSUME Typed, Scan PROVE Typed' OBVIOUS
<1>1. ThreadOK BY DEF Typed
<1>2. /\ at.key \in Key /\ pin' \in [Key -> PinState] /\ at' \in Place
      /\ ScanReads(at.key) \/ ScanDecides(at.key)
  BY <1>1, ScanSteps
<1>3. at'.pc = "scan" \/ at'.key \in Key BY <1>2 DEF ScanReads, ScanDecides
<1>4. ThreadOK' BY <1>1, <1>2, <1>3 DEF Scan, ThreadOK
<1>5. commands' \in Seq({"start", "stop"} \X Key)
  <2> DEFINE c == <<IF level[at.key] THEN "start" ELSE "stop", at.key>>
  <2>1. c \in {"start", "stop"} \X Key BY <1>2
  <2>2. commands' = commands \/ commands' = Append(commands, c)
    BY <1>2 DEF ScanReads, ScanDecides
  <2> HIDE DEF c
  <2> QED BY <2>1, <2>2 DEF Typed, DaemonOK
<1>6. DaemonOK' BY <1>5 DEF Scan, Typed, DaemonOK
<1> QED BY <1>4, <1>6 DEF Scan, Typed

LEMMA ThreadTyped ==
  Typed /\ (Stopping \/ PublishShort \/ PublishPressRelease \/ PassEnds \/ Woken) => Typed'
<1> SUFFICES ASSUME Typed
             PROVE  (Stopping \/ PublishShort \/ PublishPressRelease \/ PassEnds \/ Woken)
                      => Typed'
  OBVIOUS
<1>0. ThreadOK /\ at \in Place /\ pin \in [Key -> PinState] BY DEF Typed, ThreadOK
<1>1. ASSUME Stopping PROVE Typed'
  <2>1. at.key \in Key BY <1>0, <1>1 DEF Stopping, ThreadOK
  <2>2. pin' \in [Key -> PinState] BY <1>0, <1>1, <2>1, CountSet DEF Stopping
  <2>3. at' \in Place /\ at'.key = at.key BY <1>0, <1>1, Places DEF Stopping, Pc
  <2>4. ThreadOK' BY <1>0, <1>1, <2>1, <2>2, <2>3 DEF Stopping, ThreadOK
  <2> QED BY <1>1, <2>4 DEF Stopping, Typed, DaemonOK, daemonVars
<1>2. ASSUME PublishShort PROVE Typed'
  <2>1. at.key \in Key BY <1>0, <1>2 DEF PublishShort, ThreadOK
  <2>2. pin' \in [Key -> PinState] BY <1>0, <1>2, <2>1, CountSet DEF PublishShort
  <2>3. at' \in Place /\ at'.key = at.key BY <1>0, <1>2, Places DEF PublishShort, Pc
  <2>4. ThreadOK' BY <1>0, <1>2, <2>1, <2>2, <2>3 DEF PublishShort, ThreadOK
  <2>5. inputQueue' \in Seq([key : Key, type : Type])
    <3>1. Ev(at.key, "Short") \in [key : Key, type : Type] BY <2>1 DEF Ev, Type
    <3> QED BY <1>2, <3>1 DEF PublishShort, Publish, Typed
  <2> QED BY <1>2, <2>4, <2>5 DEF PublishShort, Typed, DaemonOK, daemonVars
<1>3. ASSUME PublishPressRelease PROVE Typed'
  <2>1. at.key \in Key BY <1>0, <1>3 DEF PublishPressRelease, ThreadOK
  <2>2. ThreadOK' BY <1>0, <1>3, Places DEF PublishPressRelease, ThreadOK
  <2>3. inputQueue' \in Seq([key : Key, type : Type])
    <3> DEFINE e == Ev(at.key, IF pin[at.key].state THEN "Press" ELSE "Release")
    <3>1. e \in [key : Key, type : Type] BY <2>1 DEF Ev, Type
    <3> HIDE DEF e
    <3>2. inputQueue' = Append(inputQueue, e) BY <1>3 DEF PublishPressRelease, Publish, e
    <3> QED BY <3>1, <3>2 DEF Typed
  <2> QED BY <1>3, <2>2, <2>3 DEF PublishPressRelease, Typed, DaemonOK, daemonVars
<1>4. ASSUME PassEnds PROVE Typed'
  <2>1. at' \in Place /\ at'.pc \in {"scan", "wait"} BY <1>0, <1>4, Places DEF PassEnds, Pc
  <2>2. ThreadOK' BY <1>0, <1>4, <2>1 DEF PassEnds, ThreadOK
  <2> QED BY <1>4, <2>2 DEF PassEnds, Typed, DaemonOK, daemonVars
<1>5. ASSUME Woken PROVE Typed'
  <2>1. ThreadOK' BY <1>0, <1>5, Places DEF Woken, ThreadOK
  <2> QED BY <1>5, <2>1 DEF Woken, Typed, DaemonOK, daemonVars
<1> QED BY <1>1, <1>2, <1>3, <1>4, <1>5

LEMMA DaemonTyped == Typed /\ Daemon => Typed'
<1> SUFFICES ASSUME Typed, Daemon PROVE Typed' OBVIOUS
<1>1. CASE DaemonCommands
  BY <1>1 DEF DaemonCommands, Typed, ThreadOK, DaemonOK, threadVars
<1>2. CASE DaemonPublish
  <2>1. Head(daemon) \in [key : Key, type : Type]
    BY <1>2 DEF DaemonPublish, Ev, Type, Typed, DaemonOK
  <2>2. inputQueue' \in Seq([key : Key, type : Type])
    <3> DEFINE e == Head(daemon)
    <3>1. inputQueue' = Append(inputQueue, e) /\ e \in [key : Key, type : Type]
      BY <1>2, <2>1 DEF DaemonPublish, Publish
    <3> HIDE DEF e
    <3> QED BY <3>1 DEF Typed
  <2> QED BY <1>2, <2>2 DEF DaemonPublish, Typed, ThreadOK, DaemonOK, threadVars
<1>3. ASSUME NEW k \in Key, PressTimer(k) PROVE Typed'
  <2> DEFINE n == pin[k].count + 1
             c == IF n > LongCounts THEN n - 1 ELSE n
  <2>1. c \in Nat BY InputAssumption DEF Typed, ThreadOK, PinState
  <2>2. pin' = [pin EXCEPT ![k].count = c] BY <1>3 DEF PressTimer
  <2> HIDE DEF c
  <2>3. pin' \in [Key -> PinState] BY <2>1, <2>2, CountSet DEF Typed, ThreadOK
  <2>4. daemon' = <<>> \/ \E t \in {"Long", "Repeat"} : daemon' = <<Ev(k, t)>>
    BY <1>3 DEF PressTimer
  <2> QED BY <1>3, <2>3, <2>4 DEF PressTimer, Typed, ThreadOK, DaemonOK
<1> QED BY <1>1, <1>2, <1>3 DEF Daemon

LEMMA NextTyped == InputTypeOK /\ [Next]_vars => InputTypeOK'
<1> SUFFICES ASSUME InputTypeOK, [Next]_vars PROVE InputTypeOK' OBVIOUS
<1>0. Typed /\ FlagsOK' BY NextFlags DEF InputTypeOK, Typed
<1> SUFFICES Typed' BY <1>0 DEF InputTypeOK, Typed
<1>1. ASSUME NEW k \in Key, Edge(k) PROVE Typed'
  BY <1>0, <1>1 DEF Edge, Typed, ThreadOK, DaemonOK, daemonVars
<1>2. CASE GuiTakes
  BY <1>0, <1>2 DEF GuiTakes, Typed, ThreadOK, DaemonOK, daemonVars, threadVars
<1>3. CASE InputThread BY <1>0, <1>3, ScanTyped, ThreadTyped DEF InputThread
<1>4. CASE Daemon BY <1>0, <1>4, DaemonTyped
<1>5. CASE UNCHANGED vars BY <1>0, <1>5 DEF vars, Typed, ThreadOK, DaemonOK
<1> QED BY <1>1, <1>2, <1>3, <1>4, <1>5 DEF Next

-----------------------------------------------------------------------------
(* The commands to the timers                                                *)

\* A command appended is the last of its timer and none of the others'.
LEMMA CommandAppended ==
  ASSUME Typed, NEW k \in Key, NEW c \in {"start", "stop"},
         commands' = Append(commands, <<c, k>>), UNCHANGED running
  PROVE  /\ Commanded(k)' <=> c = "start"
         /\ \A j \in Key \ {k} : Commanded(j)' <=> Commanded(j)
<1> DEFINE n == Len(commands)
<1>1. /\ n \in Nat /\ Len(commands') = n + 1 /\ commands'[n + 1] = <<c, k>>
      /\ \A i \in 1 .. n : commands'[i] = commands[i]
  BY DEF Typed, DaemonOK
<1>2. Own(k)' = Own(k) \cup {n + 1} BY <1>1 DEF Own
<1>3. \A i \in Own(k) : i =< n BY <1>1 DEF Own
<1>4. Commanded(k)' <=> c = "start"
  BY <1>1, <1>2, <1>3 DEF Commanded, Own
<1>5. ASSUME NEW j \in Key \ {k} PROVE Commanded(j)' <=> Commanded(j)
  <2>1. Own(j)' = Own(j) BY <1>1 DEF Own
  <2> QED BY <1>1, <2>1 DEF Commanded, Own
<1> QED BY <1>4, <1>5

LEMMA CommandedFrame ==
  ASSUME UNCHANGED <<commands, running>>
  PROVE  \A k : Commanded(k)' <=> Commanded(k)
  BY DEF Commanded, Own

-----------------------------------------------------------------------------
(* The steps of the thread, of the daemon and of the others                  *)

LEMMA FrameSafe ==
  ASSUME Safe, UNCHANGED <<pin, at, commands, running, daemon, stalled>>
  PROVE  Safe' /\ Down' = Down
<1>1. Down' = Down BY DEF Down, Deciding
<1>2. UpWhenStopping' /\ CountsPress' BY DEF Safe, UpWhenStopping, CountsPress
<1>3. RunsWhileDown' BY CommandedFrame DEF Safe, RunsWhileDown
<1>4. HeldRuns' /\ HeldDown' BY <1>1 DEF Safe, HeldRuns, HeldDown
<1> QED BY <1>1, <1>2, <1>3, <1>4 DEF Safe

LEMMA ScanSafe ==
  ASSUME Typed, Safe, Scan
  PROVE  Safe' /\ Down' = Down
<1>0. PICK k : k = at.key OBVIOUS
<1>1. /\ k \in Key /\ at.pc = "scan" /\ ThreadOK
      /\ pin' \in [Key -> PinState]
      /\ \A j \in Key : pin'[j].count = pin[j].count
      /\ ScanReads(k) \/ ScanDecides(k)
  BY <1>0, ScanSteps DEF Typed
<1>2. UNCHANGED <<level, running, daemon, stalled>> BY DEF Scan
<1>3. CASE ScanReads(k)
  <2>1. Down' = Down BY <1>1, <1>3 DEF Down, Deciding, ScanReads
  <2>2. UpWhenStopping' BY <1>3 DEF UpWhenStopping, ScanReads
  <2>3. RunsWhileDown'
    BY <1>1, <1>2, <1>3, CommandedFrame DEF Safe, RunsWhileDown, ScanReads
  <2>4. HeldRuns' /\ HeldDown' BY <1>2, <2>1 DEF Safe, HeldRuns, HeldDown
  <2>5. CountsPress' BY <1>1, <1>2, <1>3 DEF Safe, CountsPress, ScanReads
  <2> QED BY <2>1, <2>2, <2>3, <2>4, <2>5 DEF Safe
<1>4. CASE ScanDecides(k)
  <2>0. pin[k].state \in BOOLEAN /\ level[k] \in BOOLEAN
    BY <1>1 DEF ThreadOK, PinState
  <2>1. Down' = Down BY <1>1, <1>4, <2>0 DEF Down, Deciding, ScanDecides
  <2>2. UpWhenStopping' BY <1>4 DEF UpWhenStopping, ScanDecides
  <2>3. RunsWhileDown'
    <3> DEFINE c == IF level[k] THEN "start" ELSE "stop"
    <3>1. c \in {"start", "stop"} /\ (c = "start" <=> level[k]) BY <2>0
    <3>2. commands' = Append(commands, <<c, k>>) BY <1>4 DEF ScanDecides
    <3> HIDE DEF c
    <3>3. (Commanded(k)' <=> level[k]) /\ \A j \in Key \ {k} : Commanded(j)' <=> Commanded(j)
      BY <1>1, <1>2, <3>1, <3>2, CommandAppended
    <3>4. \A j \in Key : Commanded(j)' => pin'[j].state
      <4>1. \A j \in Key : Commanded(j) => pin[j].state BY DEF Safe, RunsWhileDown
      <4>2. pin'[k].state = level[k] /\ \A j \in Key \ {k} : pin'[j].state = pin[j].state
        BY <1>4 DEF ScanDecides
      <4>3. Commanded(k)' => pin'[k].state BY <3>3, <4>2
      <4>4. \A j \in Key \ {k} : Commanded(j)' => pin'[j].state BY <3>3, <4>1, <4>2
      <4> QED BY <4>3, <4>4
    <3>5. \A j \in running \ {k} : Commanded(j)'
      BY <1>1, <3>3 DEF Safe, RunsWhileDown, Typed, DaemonOK
    <3>6. k \in running => Commanded(k)' \/ (at'.pc = "stopping" /\ at'.key = k)
      BY <1>4, <3>3 DEF ScanDecides
    <3>7. \A j \in running : Commanded(j)' \/ (at'.pc = "stopping" /\ at'.key = j)
      BY <3>5, <3>6
    <3> QED BY <1>2, <3>4, <3>7 DEF RunsWhileDown
  <2>4. HeldRuns' /\ HeldDown' BY <1>2, <2>1 DEF Safe, HeldRuns, HeldDown
  <2>5. CountsPress'
    <3>1. pin[k].count \in Nat BY <1>1 DEF ThreadOK, PinState
    <3>2. \A j \in Key : pin[j].count > 0 => pin[j].state BY <1>1 DEF Safe, CountsPress
    <3>3. level[k] => pin'[k].count = 0
      <4>1. level[k] => ~pin[k].state BY <1>4, <2>0 DEF ScanDecides
      <4> QED BY <1>1, <3>1, <3>2, <4>1
    <3>4. ~level[k] => at'.pc = "stopping" BY <1>4 DEF ScanDecides
    <3>5. at'.pc # "short" /\ (at'.pc = "event" => level[k]) BY <1>4 DEF ScanDecides
    <3> QED BY <1>1, <1>4, <3>2, <3>3, <3>4, <3>5 DEF CountsPress, ScanDecides
  <2> QED BY <2>1, <2>2, <2>3, <2>4, <2>5 DEF Safe
<1> QED BY <1>1, <1>3, <1>4

\* The thread goes on from a release: the timer of its key no longer runs.
LEMMA StoppingSafe ==
  ASSUME Typed, Safe, Stopping
  PROVE  Safe' /\ Down' = Down
<1> DEFINE k == at.key
<1>1. /\ k \in Key /\ at.pc = "stopping" /\ k \notin running /\ ~pin[k].state
      /\ ThreadOK /\ at \in Place /\ pin \in [Key -> PinState]
  BY DEF Stopping, Typed, ThreadOK, Safe, UpWhenStopping, TimerStopped
<1>2. UNCHANGED <<commands, running, daemon, stalled>> BY DEF Stopping, daemonVars
<1>3. /\ at'.key = k /\ at'.pc \in {"short", "event"}
      /\ \A j \in Key : pin'[j].state = pin[j].state
      /\ \A j \in Key \ {k} : pin'[j].count = pin[j].count
      /\ at'.pc = "short" => pin'[k].count < LongCounts
      /\ at'.pc = "event" => pin'[k].count = 0
  <2>1. CASE ShortPress(k)
    BY <1>1, <2>1, Places DEF Stopping, ShortPress, Pc
  <2>2. CASE ~ShortPress(k)
    <3>1. at' = [at EXCEPT !.pc = "event"] /\ pin' = [pin EXCEPT ![k].count = 0]
      BY <2>2 DEF Stopping
    <3>2. at'.key = k /\ at'.pc = "event" BY <1>1, <3>1, Places DEF Pc
    <3> QED BY <1>1, <3>1, <3>2, CountSet
  <2> QED BY <2>1, <2>2
<1>4. Down' = Down BY <1>1, <1>3 DEF Down, Deciding
<1>5. UpWhenStopping' BY <1>1, <1>3 DEF UpWhenStopping
<1>6. RunsWhileDown'
  BY <1>1, <1>2, <1>3, CommandedFrame DEF Safe, RunsWhileDown, Typed, DaemonOK
<1>7. HeldRuns' /\ HeldDown' BY <1>2, <1>4 DEF Safe, HeldRuns, HeldDown
<1>8. CountsPress' BY <1>1, <1>3 DEF Safe, CountsPress
<1> QED BY <1>4, <1>5, <1>6, <1>7, <1>8 DEF Safe

LEMMA ShortSafe ==
  ASSUME Typed, Safe, PublishShort
  PROVE  Safe' /\ Down' = Down /\ at.key \in Down /\ pin[at.key].count < LongCounts
<1> DEFINE k == at.key
<1>1. /\ k \in Key /\ at.pc = "short" /\ ~pin[k].state
      /\ ThreadOK /\ at \in Place /\ pin \in [Key -> PinState]
  BY DEF PublishShort, Typed, ThreadOK, Safe, UpWhenStopping
<1>2. UNCHANGED <<commands, running, daemon, stalled>> BY DEF PublishShort, daemonVars
<1>3. /\ at'.key = k /\ at'.pc = "event"
      /\ \A j \in Key : pin'[j].state = pin[j].state
      /\ \A j \in Key \ {k} : pin'[j].count = pin[j].count
      /\ pin'[k].count = 0
  BY <1>1, Places, CountSet DEF PublishShort, Pc
<1>4. Down' = Down /\ k \in Down BY <1>1, <1>3 DEF Down, Deciding
<1>5. UpWhenStopping' BY <1>3 DEF UpWhenStopping
<1>6. RunsWhileDown'
  BY <1>1, <1>2, <1>3, CommandedFrame DEF Safe, RunsWhileDown, Typed, DaemonOK
<1>7. HeldRuns' /\ HeldDown' BY <1>2, <1>4 DEF Safe, HeldRuns, HeldDown
<1>8. CountsPress' BY <1>1, <1>3 DEF Safe, CountsPress
<1>9. pin[k].count < LongCounts BY <1>1 DEF Safe, CountsPress
<1> QED BY <1>4, <1>5, <1>6, <1>7, <1>8, <1>9 DEF Safe

\* A Press makes its key down; a Release finds it down and makes it up, and no
\* Long or Repeat of it is held by the daemon.
LEMMA PressReleaseSafe ==
  ASSUME Typed, Safe, PublishPressRelease
  PROVE  /\ Safe' /\ at.key \in Key
         /\ pin[at.key].state => at.key \notin Down /\ Down' = Down \cup {at.key}
         /\ ~pin[at.key].state => at.key \in Down /\ Down' = Down \ {at.key}
         /\ ~stalled => pin[at.key].count = 0
<1> DEFINE k == at.key
<1>1. k \in Key /\ at.pc = "event" /\ at \in Place /\ pin \in [Key -> PinState]
  BY DEF PublishPressRelease, Typed, ThreadOK
<1>2. UNCHANGED <<pin, commands, running, daemon, stalled>> /\ at'.pc = "scan"
  BY <1>1, Places DEF PublishPressRelease, daemonVars
<1>3. pin[k].state => k \notin Down /\ Down' = Down \cup {k}
  BY <1>1, <1>2 DEF Down, Deciding
<1>4. ~pin[k].state => k \in Down /\ Down' = Down \ {k}
  <2>1. \A j \in Key : (j \in Down <=> (pin[j].state # (j = k)))
        /\ (j \in Down' <=> (pin[j].state # FALSE))
    BY <1>1, <1>2 DEF Down, Deciding
  <2>2. Down \subseteq Key /\ Down' \subseteq Key BY DEF Down
  <2>3. \A j \in Key : pin[j].state \in BOOLEAN BY <1>1 DEF PinState
  <2> QED BY <1>1, <2>1, <2>2, <2>3
<1>5. UpWhenStopping' BY <1>2 DEF UpWhenStopping
<1>6. RunsWhileDown' BY <1>1, <1>2, CommandedFrame DEF Safe, RunsWhileDown
<1>7. HeldRuns' /\ HeldDown'
  <2>1. k \in running => pin[k].state BY <1>1 DEF Safe, RunsWhileDown
  <2> QED BY <1>2, <1>3, <1>4, <2>1 DEF Safe, HeldRuns, HeldDown
<1>8. CountsPress' BY <1>1, <1>2 DEF Safe, CountsPress
<1>9. ~stalled => pin[k].count = 0 BY <1>1 DEF Safe, CountsPress
<1> QED BY <1>1, <1>3, <1>4, <1>5, <1>6, <1>7, <1>8, <1>9 DEF Safe

LEMMA CommandsSafe ==
  ASSUME Typed, Safe, DaemonCommands
  PROVE  Safe' /\ Down' = Down
<1>1. /\ UNCHANGED <<pin, at, stalled>> /\ daemon' = <<>> /\ commands' = <<>>
      /\ running' = {k \in Key : Commanded(k)}
  BY DEF DaemonCommands, threadVars
<1>2. \A k \in Key : Commanded(k)' <=> Commanded(k)
  <2>1. \A k \in Key : Own(k)' = {} BY <1>1 DEF Own
  <2> QED BY <1>1, <2>1 DEF Commanded
<1>3. Down' = Down BY <1>1 DEF Down, Deciding
<1>4. UpWhenStopping' /\ CountsPress' BY <1>1 DEF Safe, UpWhenStopping, CountsPress
<1>5. RunsWhileDown' BY <1>1, <1>2 DEF Safe, RunsWhileDown
<1>6. HeldRuns' /\ HeldDown' BY <1>1 DEF HeldRuns, HeldDown
<1> QED BY <1>3, <1>4, <1>5, <1>6 DEF Safe

LEMMA DaemonPublishSafe ==
  ASSUME Typed, Safe, DaemonPublish
  PROVE  /\ Safe' /\ Down' = Down
         /\ ~stalled => Head(daemon).key \in Down
<1>1. UNCHANGED <<pin, at, commands, running, stalled>> /\ daemon' = <<>> /\ daemon # <<>>
  BY DEF DaemonPublish, threadVars
<1>2. Down' = Down BY <1>1 DEF Down, Deciding
<1>3. UpWhenStopping' /\ CountsPress' BY <1>1 DEF Safe, UpWhenStopping, CountsPress
<1>4. RunsWhileDown' BY <1>1, CommandedFrame DEF Safe, RunsWhileDown
<1>5. HeldRuns' /\ HeldDown' BY <1>1 DEF HeldRuns, HeldDown
<1> QED BY <1>1, <1>2, <1>3, <1>4, <1>5 DEF Safe, HeldDown

LEMMA TimerSafe ==
  ASSUME Typed, Safe, NEW k \in Key, PressTimer(k)
  PROVE  Safe' /\ Down' = Down
<1> DEFINE n == pin[k].count + 1
           c == IF n > LongCounts THEN n - 1 ELSE n
<1>1. c \in Nat BY InputAssumption DEF Typed, ThreadOK, PinState
<1>2. pin' = [pin EXCEPT ![k].count = c] BY DEF PressTimer
<1> HIDE DEF c
<1>3. /\ \A j \in Key : pin'[j].state = pin[j].state
      /\ \A j \in Key \ {k} : pin'[j].count = pin[j].count
  BY <1>1, <1>2, CountSet DEF Typed, ThreadOK
<1>4. UNCHANGED <<at, commands, running>> /\ k \in running BY DEF PressTimer
<1>5. stalled' <=> stalled \/ PressPending(k) BY DEF PressTimer
<1>6. pin[k].state \/ (at.pc = "stopping" /\ at.key = k)
  BY <1>4 DEF Safe, RunsWhileDown
<1>7. at.pc \in {"stopping", "short"} => at.key \in Key /\ ~pin[at.key].state
  BY DEF Safe, UpWhenStopping, Typed, ThreadOK
<1>8. Down' = Down /\ (~PressPending(k) => k \in Down)
  <2>1. Down' = Down BY <1>3, <1>4 DEF Down, Deciding
  <2>2. CASE pin[k].state
    BY <1>7, <2>1, <2>2 DEF Down, Deciding, PressPending
  <2>3. CASE ~pin[k].state
    BY <1>6, <2>1, <2>3 DEF Down, Deciding
  <2> QED BY <2>2, <2>3
<1>9. UpWhenStopping' BY <1>3, <1>4, <1>7 DEF UpWhenStopping
<1>10. RunsWhileDown' BY <1>3, <1>4, CommandedFrame DEF Safe, RunsWhileDown
<1>11. HeldRuns' /\ HeldDown'
  <2>1. daemon' # <<>> => Head(daemon').key = k BY DEF PressTimer, Ev
  <2> QED BY <1>4, <1>5, <1>8, <2>1 DEF HeldRuns, HeldDown
<1>12. CountsPress'
  <2>1. \A j \in Key : pin'[j].count > 0 =>
          pin'[j].state \/ (at'.pc \in {"stopping", "short"} /\ at'.key = j)
    BY <1>3, <1>4, <1>6 DEF Safe, CountsPress
  <2>2. at'.pc = "short" => pin'[at'.key].count < LongCounts
    <3>1. at.pc = "short" => at.key # k BY <1>6, <1>7
    <3> QED BY <1>3, <1>4, <1>7, <3>1 DEF Safe, CountsPress
  <2>3. at'.pc = "event" /\ ~stalled' => pin'[at'.key].count = 0
    <3>1. at.pc = "event" /\ ~stalled' => at.key # k /\ ~stalled BY <1>5 DEF PressPending
    <3>2. at.pc = "event" => at.key \in Key BY DEF Typed, ThreadOK
    <3> QED BY <1>3, <1>4, <3>1, <3>2 DEF Safe, CountsPress
  <2> QED BY <2>1, <2>2, <2>3 DEF CountsPress
<1> QED BY <1>8, <1>9, <1>10, <1>11, <1>12 DEF Safe

-----------------------------------------------------------------------------
(* The inductive invariant                                                   *)

LEMMA InitSafe == Init => Safe
<1> SUFFICES ASSUME Init PROVE Safe OBVIOUS
<1>1. UpWhenStopping /\ HeldRuns /\ HeldDown BY DEF Init, UpWhenStopping, HeldRuns, HeldDown
<1>2. RunsWhileDown BY DEF Init, RunsWhileDown, Commanded, Own
<1>3. CountsPress BY DEF Init, CountsPress
<1> QED BY <1>1, <1>2, <1>3 DEF Safe

LEMMA NextSafe == InputInv /\ [Next]_vars => InputInv'
<1> SUFFICES ASSUME InputInv, [Next]_vars PROVE InputInv' OBVIOUS
<1>0. InputTypeOK' /\ Typed /\ Safe BY NextTyped DEF InputInv, InputTypeOK, Typed
<1> SUFFICES Safe' BY <1>0 DEF InputInv
<1>1. ASSUME NEW k \in Key, Edge(k) PROVE Safe'
  BY <1>0, <1>1, FrameSafe DEF Edge, daemonVars
<1>2. CASE GuiTakes BY <1>0, <1>2, FrameSafe DEF GuiTakes, threadVars, daemonVars
<1>3. CASE PassEnds \/ Woken
  <2>1. /\ UNCHANGED <<pin, commands, running, daemon, stalled>>
        /\ at.pc \in {"scan", "wait"} /\ at'.pc \in {"scan", "wait"}
    <3>1. at \in Place BY <1>0 DEF Typed, ThreadOK
    <3>2. CASE PassEnds BY <3>1, <3>2, Places DEF PassEnds, daemonVars, Pc
    <3>3. CASE Woken BY <3>3 DEF Woken, daemonVars
    <3> QED BY <1>3, <3>2, <3>3
  <2>2. Down' = Down BY <2>1 DEF Down, Deciding
  <2>3. RunsWhileDown' BY <1>0, <2>1, CommandedFrame DEF Safe, RunsWhileDown
  <2>4. HeldRuns' /\ HeldDown' BY <1>0, <2>1, <2>2 DEF Safe, HeldRuns, HeldDown
  <2>5. UpWhenStopping' /\ CountsPress' BY <1>0, <2>1 DEF Safe, UpWhenStopping, CountsPress
  <2> QED BY <2>3, <2>4, <2>5 DEF Safe
<1>4. CASE InputThread
  BY <1>0, <1>3, <1>4, ScanSafe, StoppingSafe, ShortSafe, PressReleaseSafe DEF InputThread
<1>5. CASE Daemon
  BY <1>0, <1>5, CommandsSafe, DaemonPublishSafe, TimerSafe DEF Daemon
<1>6. CASE UNCHANGED vars BY <1>0, <1>6, FrameSafe DEF vars
<1> QED BY <1>1, <1>2, <1>4, <1>5, <1>6 DEF Next

\* The inductive invariant of the input service holds: in particular the press
\* timer of a key runs only between the press and the release the thread reads.
THEOREM InputInvariant == Spec => []InputInv
<1>1. Init => InputInv BY InitTyped, InitSafe DEF InputInv
<1>2. InputInv /\ [Next]_vars => InputInv' BY NextSafe
<1> QED BY <1>1, <1>2, PTL DEF Spec

-----------------------------------------------------------------------------
(* The refinement: every step is a step of Keys or leaves its variables alone. *)

LEMMA InitMaps == Init => Promise!KeysInit
  BY DEF Init, Promise!KeysInit, Down

LEMMA StepMaps ==
  ASSUME InputInv, [Next]_vars
  PROVE  [Promise!KeysNext]_(Promise!keyVars)
<1>0. Typed /\ Safe BY DEF InputInv, InputTypeOK, Typed
<1> USE DEF Promise!keyVars
<1>1. ASSUME NEW k \in Key, Edge(k) PROVE UNCHANGED Promise!keyVars
  BY <1>0, <1>1, FrameSafe DEF Edge, daemonVars
<1>2. CASE GuiTakes
  <2>1. Down' = Down BY <1>0, <1>2, FrameSafe DEF GuiTakes, threadVars, daemonVars
  <2> QED BY <1>2, <2>1 DEF GuiTakes, Promise!KeysNext, Promise!TakeKey
<1>3. CASE Scan
  BY <1>0, <1>3, ScanSafe DEF Scan
<1>4. CASE Stopping
  BY <1>0, <1>4, StoppingSafe DEF Stopping
<1>5. CASE PublishShort
  <2>1. at.key \in Key BY <1>0, <1>5 DEF PublishShort, Typed, ThreadOK
  <2>2. Promise!ShortKey(at.key)
    BY <1>0, <1>5, ShortSafe
       DEF PublishShort, Publish, Ev, Promise!ShortKey, Promise!Publish, Promise!Ev
  <2> QED BY <2>1, <2>2 DEF Promise!KeysNext
<1>6. CASE PublishPressRelease
  <2>1. at.key \in Key BY <1>0, <1>6, PressReleaseSafe
  <2>2. CASE pin[at.key].state
    <3>1. Promise!PressKey(at.key)
      BY <1>0, <1>6, <2>2, PressReleaseSafe
         DEF PublishPressRelease, Publish, Ev, Promise!PressKey, Promise!Publish, Promise!Ev
    <3> QED BY <2>1, <3>1 DEF Promise!KeysNext
  <2>3. CASE ~pin[at.key].state
    <3>1. Promise!ReleaseKey(at.key)
      BY <1>0, <1>6, <2>3, PressReleaseSafe
         DEF PublishPressRelease, Publish, Ev, Promise!ReleaseKey, Promise!Publish, Promise!Ev
    <3> QED BY <2>1, <3>1 DEF Promise!KeysNext
  <2> QED BY <2>2, <2>3
<1>7. CASE PassEnds \/ Woken
  <2>1. /\ UNCHANGED <<pin, inputQueue>>
        /\ at.pc \in {"scan", "wait"} /\ at'.pc \in {"scan", "wait"}
    <3>1. at \in Place BY <1>0 DEF Typed, ThreadOK
    <3>2. CASE PassEnds BY <3>1, <3>2, Places DEF PassEnds, Pc
    <3>3. CASE Woken BY <3>3 DEF Woken
    <3> QED BY <1>7, <3>2, <3>3
  <2> QED BY <2>1 DEF Down, Deciding
<1>8. CASE DaemonCommands
  BY <1>0, <1>8, CommandsSafe DEF DaemonCommands
<1>9. CASE DaemonPublish
  <2>1. PICK k \in Key, t \in {"Long", "Repeat"} : daemon = <<Ev(k, t)>>
    BY <1>0, <1>9 DEF DaemonPublish, Typed, DaemonOK
  <2>2. Promise!LateKey(k)
    BY <1>0, <1>9, <2>1, DaemonPublishSafe
       DEF DaemonPublish, Publish, Ev, Promise!LateKey, Promise!Publish, Promise!Ev
  <2> QED BY <2>2 DEF Promise!KeysNext
<1>10. ASSUME NEW k \in Key, PressTimer(k) PROVE UNCHANGED Promise!keyVars
  BY <1>0, <1>10, TimerSafe DEF PressTimer
<1>11. CASE UNCHANGED vars
  BY <1>0, <1>11, FrameSafe DEF vars
<1> QED BY <1>1, <1>2, <1>3, <1>4, <1>5, <1>6, <1>7, <1>8, <1>9, <1>10, <1>11
        DEF Next, InputThread, Daemon

\* The input thread and the timer's callback together implement the protocol
\* of Keys that the GUI is written against (input.h): per key, Press and
\* Release alternate and Short comes between them.
THEOREM InputImplementsKeys == Spec => ImplementsKeys
<1>1. Init => Promise!KeysInit BY InitMaps
<1>2. InputInv /\ [Next]_vars => [Promise!KeysNext]_(Promise!keyVars) BY StepMaps
<1> QED BY <1>1, <1>2, InputInvariant, PTL DEF Spec, ImplementsKeys, Promise!KeysSpec

-----------------------------------------------------------------------------
(* A press has one meaning.                                                  *)

\* What a step that publishes e has to find.
MeansOne(e) ==
    /\ e.type \in {"Long", "Repeat"} => e.key \in Down
    /\ e.type = "Short" => pin[e.key].count < LongCounts
    /\ e.type = "Press" => pin[e.key].count = 0

LEMMA PublishedLast ==
  ASSUME Typed, NEW e \in [key : Key, type : Type], Publish(e)
  PROVE  inputQueue'[Len(inputQueue')] = e
<1> DEFINE n == Len(inputQueue)
<1>1. n \in Nat /\ Len(inputQueue') = n + 1 /\ inputQueue'[n + 1] = e
  BY DEF Typed, Publish
<1> QED BY <1>1

LEMMA StepMeansOne ==
  ASSUME InputInv, [Next]_vars, ~stalled, Len(inputQueue') > Len(inputQueue)
  PROVE  MeansOne(inputQueue'[Len(inputQueue')])
<1>0. Typed /\ Safe BY DEF InputInv, InputTypeOK, Typed
<1>1. Len(inputQueue) \in Nat BY <1>0 DEF Typed
<1>2. inputQueue' # inputQueue BY <1>1
<1>3. CASE GuiTakes
  <2>1. Len(inputQueue') = Len(inputQueue) - 1 BY <1>0, <1>3 DEF GuiTakes, Typed
  <2> QED BY <1>1, <2>1
<1>4. CASE PublishShort
  <2> DEFINE e == Ev(at.key, "Short")
  <2>1. at.key \in Key BY <1>0, <1>4 DEF PublishShort, Typed, ThreadOK
  <2>2. e \in [key : Key, type : Type] /\ e.key = at.key /\ e.type = "Short"
    BY <2>1 DEF Ev, Type
  <2>3. inputQueue'[Len(inputQueue')] = e BY <1>0, <1>4, <2>2, PublishedLast DEF PublishShort
  <2> QED BY <1>0, <1>4, <2>2, <2>3, ShortSafe DEF MeansOne
<1>5. CASE PublishPressRelease
  <2> DEFINE e == Ev(at.key, IF pin[at.key].state THEN "Press" ELSE "Release")
  <2>1. at.key \in Key /\ pin[at.key].count = 0 BY <1>0, <1>5, PressReleaseSafe
  <2>2. e \in [key : Key, type : Type] /\ e.key = at.key /\ e.type \in {"Press", "Release"}
    BY <2>1 DEF Ev, Type
  <2>3. Publish(e) BY <1>5 DEF PublishPressRelease
  <2> HIDE DEF e
  <2>4. inputQueue'[Len(inputQueue')] = e BY <1>0, <2>2, <2>3, PublishedLast
  <2> QED BY <2>1, <2>2, <2>4 DEF MeansOne
<1>6. CASE DaemonPublish
  <2>1. PICK k \in Key, t \in {"Long", "Repeat"} : daemon = <<Ev(k, t)>>
    BY <1>0, <1>6 DEF DaemonPublish, Typed, DaemonOK
  <2> DEFINE e == Ev(k, t)
  <2>2. e \in [key : Key, type : Type] /\ e.key = k /\ e.type = t
    BY DEF Ev, Type
  <2>3. Head(daemon) = e /\ Publish(e) BY <1>6, <2>1 DEF DaemonPublish
  <2> HIDE DEF e
  <2>4. inputQueue'[Len(inputQueue')] = e BY <1>0, <2>2, <2>3, PublishedLast
  <2>5. e.key \in Down BY <1>0, <1>6, <2>3, DaemonPublishSafe
  <2> QED BY <2>2, <2>4, <2>5 DEF MeansOne
<1> QED BY <1>2, <1>3, <1>4, <1>5, <1>6
        DEF Next, InputThread, Daemon, vars, Edge, Scan, Stopping, PassEnds, Woken,
            DaemonCommands, PressTimer

\* A press is short or long, never both, and Long and Repeat belong to a key
\* that is down (input_press_timer_callback against the thread's release).
THEOREM InputOneMeaning == Spec => OneMeaning
<1>1. ASSUME InputInv, [Next]_vars, ~stalled, inputQueue' # inputQueue,
             Len(inputQueue') > Len(inputQueue)
      PROVE  LET e == inputQueue'[Len(inputQueue')] IN
             /\ e.type \in {"Long", "Repeat"} => e.key \in Down
             /\ e.type = "Short" => pin[e.key].count < LongCounts
             /\ e.type = "Press" => pin[e.key].count = 0
  BY <1>1, StepMeansOne DEF MeansOne
<1>2. InputInv /\ [Next]_vars =>
        [~stalled /\ inputQueue' # inputQueue /\ Len(inputQueue') > Len(inputQueue) =>
         LET e == inputQueue'[Len(inputQueue')] IN
         /\ e.type \in {"Long", "Repeat"} => e.key \in Down
         /\ e.type = "Short" => pin[e.key].count < LongCounts
         /\ e.type = "Press" => pin[e.key].count = 0]_vars
  BY <1>1
<1> QED BY <1>2, InputInvariant, PTL DEF Spec, OneMeaning
=============================================================================
