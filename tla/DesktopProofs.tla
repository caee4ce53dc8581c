--------------------------- MODULE DesktopProofs ---------------------------
(* The lock, the penalty, auto-lock, the animation, Recent and the handshake  *)
(* with the loader, proved of the desktop for any queue, stack and settings.  *)
EXTENDS Desktop, FiniteSetTheorems, WellFoundedInduction, TLAPS

View == [state : {"Unlocked", "UnlockedHint", "Locked", "LockedHint", "DoorsClosing"},
         pin : BOOLEAN, timer : {"on", "off"}, count : Nat, remote : BOOLEAN]

Anim == [state : {"Idle", "Blocked", "FreezedIdle", "FreezedBlocked"}, loaded : BOOLEAN,
         frozen : BOOLEAN, dummy : {"off", "on"}, mail : {"none", "pending", "active"},
         forced : BOOLEAN]

\* Values of the lock's variables; Main is at the bottom of the stack.
LockTypeOK ==
    /\ locked \in BOOLEAN /\ lockdown \in BOOLEAN /\ cli \in BOOLEAN
    /\ rtc \in [lock : BOOLEAN, fails : Nat, pin : BOOLEAN]
    /\ view \in View
    /\ penalty \in [timer : {"on", "off"}, due : BOOLEAN]
    /\ scenes \in Seq(Scene) /\ scenes # <<>> /\ scenes[1] = "Main"

\* Values of the other variables; a line of the Recent list has an event.
RestTypeOK ==
    /\ events \in Seq(Event)
    /\ autoLock \in [timer : {"on", "off"}, sub : {"on", "off"}]
    /\ settings \in Settings /\ anim \in Anim
    /\ appRunning \in BOOLEAN /\ semaphore \in {0, 1}
    /\ loader \in {"idle", "waiting", "running"}
    /\ recent \in Seq(Names) /\ Len(recent) =< RecentMax
    /\ shown \in Seq(Names) /\ Len(shown) =< RecentMax
    /\ pendingName \in Names \cup {NoName} /\ history \in Seq(Names)

DesktopTypeOK == LockTypeOK /\ RestTypeOK

LockScene == {"Locked", "PinInput", "PinTimeout"}

\* What may be on top of the Locked scene: the keypad, the wait, a boot report.
Over == {<<>>, <<"PinInput">>, <<"PinTimeout">>, <<"PinInput", "PinTimeout">>,
         <<"Boot">>, <<"PinTimeout", "Boot">>}

\* The Locked scene is at l, with t on top of it and no lock scene below.
LockedAt(s, l, t) ==
    /\ l \in 2 .. Len(s) /\ t \in Over /\ Len(s) = l + Len(t)
    /\ s[l] = "Locked" /\ \A i \in 1 .. Len(t) : s[l + i] = t[i]
    /\ \A i \in 1 .. l - 1 : s[i] \notin LockScene

\* The stack of a locked and of an unlocked desktop.
StackAgrees ==
    IF locked THEN \E l \in 2 .. Len(scenes), t \in Over : LockedAt(scenes, l, t)
    ELSE \A i \in 1 .. Len(scenes) : scenes[i] \notin LockScene

\* The rest of LockStateAgrees.
LockAgrees ==
    /\ lockdown = locked /\ cli = ~(locked /\ PinSet)
    /\ locked => /\ rtc.lock /\ view.pin = PinSet
                 /\ view.state \in {"Locked", "DoorsClosing", "LockedHint"}
    /\ ~locked => view.state \in {"Unlocked", "UnlockedHint"}

\* The inductive invariant of the lock.
LockInv ==
    /\ DesktopTypeOK
    /\ halted \notin {"lock", "unlock"}
    /\ Running => StackAgrees /\ LockAgrees

\* An event is queued, none of some are, each of some at most once, and no
\* element of A comes before one of B.
Has(s, e) == \E i \in 1 .. Len(s) : s[i] = e

HasNone(s, A) == \A i \in 1 .. Len(s) : s[i] \notin A

OneEach(s, A) == \A i, j \in 1 .. Len(s) : s[i] = s[j] /\ s[i] \in A => i = j

NotBefore(s, A, B) ==
    \A i, j \in 1 .. Len(s) : i < j /\ s[i] \in A => s[j] \notin B

Queued(e) == Has(events, e)

\* Events of a press that unlock.
UnlockEvents == {"LockedUnlocked", "PinUnlocked"}

\* The label is only up on a home screen nothing is about to leave. What left
\* the home screen was pressed there, what unlocks on the lock screen: while
\* locked no unlocking event comes before one of the home screen, while
\* unlocked none comes after. An API unlock that overtakes one breaks this.
HintInv ==
    Running /\ ~view.remote =>
      /\ view.state = "UnlockedHint" => Top = "Main" /\ HasNone(events, HomeEvents)
      /\ IF locked THEN NotBefore(events, UnlockEvents, HomeEvents)
         ELSE NotBefore(events, HomeEvents, UnlockEvents)

\* LockedViewReady needs it.
ReadyInv == LockedViewReady /\ HintInv

\* The wrong PIN at place j starts the wait: no queued Back closes the keypad
\* before it, no exit event of an earlier wait comes after it.
Failure(s, j) ==
    /\ s[j] = "PinFailed"
    /\ \A i \in 1 .. Len(s) : (i < j => s[i] # "PinBack") /\ (i > j => s[i] # "PinTimeoutExit")

Coming(s) == \E j \in 1 .. Len(s) : Failure(s, j)

NoExit(s) == HasNone(s, {"PinTimeoutExit"})

\* The wait is still to start, or nothing ends it but its timer.
WaitComing(t) == t \in {<<"PinInput">>, <<"PinInput", "PinTimeout">>} /\ Coming(events)

WaitOn(t) ==
    /\ t \in {<<"PinTimeout">>, <<"PinInput", "PinTimeout">>, <<"PinTimeout", "Boot">>}
    /\ NoExit(events)

\* With t on top of the Locked scene the wait comes, or is on and timed.
Waits(t) == (WaitComing(t) \/ WaitOn(t)) /\ (t # <<"PinInput">> => penalty.timer = "on")

OwedWait ==
    penalty.due =>
      /\ locked /\ FailTimeout(rtc.fails)
      /\ \E l \in 2 .. Len(scenes), t \in Over :
           LockedAt(scenes, l, t) /\ Waits(t)

PenaltyInv == Running => OwedWait

\* The loader's events: one of each at most, the end of an application before
\* the start of the next.
LoaderEvents ==
    /\ OneEach(events, {"BeforeAppStarted", "AfterAppFinished"})
    /\ NotBefore(events, {"BeforeAppStarted"}, {"AfterAppFinished"})

HandshakeInv ==
    Running =>
      /\ LoaderEvents
      /\ Queued("BeforeAppStarted") <=> (loader = "waiting" /\ semaphore = 0)
      /\ semaphore = 1 => loader = "waiting"
      /\ loader = "running" \/ semaphore = 1 => appRunning /\ ~Queued("AfterAppFinished")
      /\ Queued("AfterAppFinished") => appRunning
      /\ loader = "idle" /\ appRunning => Queued("AfterAppFinished")

\* The animation manager keeps to one pair of flags.
AnimAgrees(a) ==
    /\ a.loaded = ~a.frozen
    /\ a.frozen <=> a.state \in {"FreezedIdle", "FreezedBlocked"}

\* The animation follows app_running until one is started over a stalled one.
AnimInv ==
    /\ halted = "animation" => anim.forced
    /\ Running /\ ~anim.forced => AnimAgrees(anim) /\ anim.frozen = appRunning

\* The launches the desktop handled; the name of the next one is still in
\* pending_app_name when its event is.
Handled == IF Queued("BeforeAppStarted") THEN Front(history) ELSE history

RecentInv ==
    Running =>
      /\ Latest(recent, Handled)
      /\ recent = <<>> <=> Handled = <<>>
      /\ recent # <<>> => recent[1] = Last(Handled)
      /\ Queued("BeforeAppStarted") => history # <<>> /\ pendingName = Last(history)

-----------------------------------------------------------------------------
(* Sequences                                                                 *)

LEMMA TailAt ==
  ASSUME NEW S, NEW s \in Seq(S), s # <<>>
  PROVE  /\ Tail(s) \in Seq(S) /\ Len(Tail(s)) = Len(s) - 1 /\ Len(s) \in Nat \ {0}
         /\ \A i \in 1 .. Len(s) - 1 : Tail(s)[i] = s[i + 1]
         /\ Head(s) = s[1] /\ Head(s) \in S
  OBVIOUS

LEMMA AppendAt ==
  ASSUME NEW S, NEW s \in Seq(S), NEW e \in S
  PROVE  /\ Append(s, e) \in Seq(S) /\ Len(Append(s, e)) = Len(s) + 1 /\ Len(s) \in Nat
         /\ \A i \in 1 .. Len(s) : Append(s, e)[i] = s[i]
         /\ Append(s, e)[Len(s) + 1] = e
  OBVIOUS

LEMMA AppendPair ==
  ASSUME NEW S, NEW a \in S, NEW b \in S
  PROVE  Append(<<a>>, b) = <<a, b>>
<1> DEFINE r == Append(<<a>>, b)
<1>1. <<a>> \in Seq(S) /\ Len(<<a>>) = 1 /\ <<a>>[1] = a OBVIOUS
<1>2. r \in Seq(S) /\ Len(r) = 2 /\ r[1] = a /\ r[2] = b
  BY <1>1, AppendAt
<1> HIDE DEF r
<1>3. r = <<a, b>> BY <1>2
<1> QED BY <1>3 DEF r

LEMMA PrefixAt ==
  ASSUME NEW S, NEW s \in Seq(S), NEW m \in 1 .. Len(s)
  PROVE  /\ SubSeq(s, 1, m) \in Seq(S) /\ Len(SubSeq(s, 1, m)) = m
         /\ \A i \in 1 .. m : SubSeq(s, 1, m)[i] = s[i]
  OBVIOUS

LEMMA FrontAt ==
  ASSUME NEW S, NEW s \in Seq(S), s # <<>>
  PROVE  /\ Front(s) \in Seq(S) /\ Len(Front(s)) = Len(s) - 1 /\ Len(s) \in Nat \ {0}
         /\ \A i \in 1 .. Len(s) - 1 : Front(s)[i] = s[i]
<1>1. Len(s) \in Nat \ {0} OBVIOUS
<1>2. CASE Len(s) = 1
  <2>1. Front(s) = <<>> BY <1>2 DEF Front
  <2> QED BY <1>2, <2>1
<1>3. CASE Len(s) # 1
  <2>1. Len(s) - 1 \in 1 .. Len(s) BY <1>1, <1>3
  <2> QED BY <1>1, <2>1, PrefixAt DEF Front
<1> QED BY <1>2, <1>3

LEMMA LastAt ==
  ASSUME NEW S, NEW s \in Seq(S), s # <<>>
  PROVE  Last(s) = s[Len(s)] /\ Len(s) \in Nat \ {0} /\ Last(s) \in S
  BY DEF Last

\* A bounded set of places has a last one.
LEMMA MaxIn ==
  ASSUME NEW n \in Nat, NEW P, P \subseteq 1 .. n, P # {}
  PROVE  Max(P) \in P /\ \A i \in P : i =< Max(P)
<1> DEFINE R == OpToRel(<, Nat)
           D == {n - i : i \in P}
<1>1. IsWellFoundedOn(R, Nat) BY NatLessThanWellFounded
<1>2. D \subseteq Nat /\ D # {}
  <2>1. ASSUME NEW i \in P PROVE n - i \in Nat
    <3>1. i \in 1 .. n OBVIOUS
    <3> QED BY <3>1
  <2> QED BY <2>1
<1> HIDE DEF D
<1>3. PICK d \in D : \A e \in D : ~(<<e, d>> \in R)
  <2> HIDE DEF R
  <2> QED BY <1>1, <1>2, WFMin
<1>4. PICK m \in P : d = n - m BY DEF D
<1>5. ASSUME NEW i \in P PROVE m >= i
  <2>1. n - i \in D /\ n - i \in Nat /\ d \in Nat BY <1>2 DEF D
  <2>2. ~(n - i < d) BY <1>3, <2>1 DEF OpToRel
  <2> QED BY <1>4, <2>1, <2>2
<1>6. Max(P) \in P /\ \A i \in P : Max(P) >= i BY <1>5 DEF Max
<1>7. ASSUME NEW i \in P PROVE i =< Max(P)
  <2>1. i \in 1 .. n /\ Max(P) \in 1 .. n BY <1>6
  <2> QED BY <1>6, <2>1
<1> QED BY <1>6, <1>7

\* What going back to an earlier scene leaves.
LEMMA BackToAt ==
  ASSUME NEW s \in Seq(Scene), NEW x, Earlier(s, x) # {}
  PROVE  \E m \in Earlier(s, x) :
           /\ BackTo(s, x) = SubSeq(s, 1, m) /\ m \in 1 .. Len(s) - 1 /\ s[m] = x
           /\ \A i \in Earlier(s, x) : i =< m
<1>1. Len(s) \in Nat /\ Earlier(s, x) \subseteq 1 .. Len(s) BY DEF Earlier
<1>2. Max(Earlier(s, x)) \in Earlier(s, x) /\ \A i \in Earlier(s, x) : i =< Max(Earlier(s, x))
  BY <1>1, MaxIn
<1>3. BackTo(s, x) = SubSeq(s, 1, Max(Earlier(s, x))) BY DEF BackTo
<1> QED BY <1>2, <1>3 DEF Earlier

-----------------------------------------------------------------------------
(* The scene stack                                                           *)

\* Scenes that lead to others of the open desktop, and those that are left by
\* Back or by their own exit event.
HomeScene == {"Main", "LockMenu", "Debug"}

LeftScene == {"LockMenu", "QuickSettings", "Favorites", "Recent", "PinTimeout", "Boot"}

\* What a step other than lock, unlock and restart does to the stack.
Opened ==
    /\ Top \in HomeScene
    /\ \E x \in Scene \ LockScene : scenes' = Append(scenes, x)

Entered ==
    \/ Top = "Locked" /\ scenes' = Append(scenes, "PinInput")
    \/ Top = "PinInput" /\ scenes' = Append(scenes, "PinTimeout")

Backed == Top \in LeftScene /\ scenes' = Front(scenes)

Returned ==
    \/ Top \in {"LockMenu", "QuickSettings"} /\ scenes' = BackTo(scenes, "Main")
    \/ Top = "PinInput" /\ scenes' = BackTo(scenes, "Locked")

SceneMove == UNCHANGED scenes \/ Opened \/ Entered \/ Backed \/ Returned

LEMMA TopAt ==
  ASSUME LockTypeOK
  PROVE  /\ Top = scenes[Len(scenes)] /\ Len(scenes) \in Nat \ {0} /\ Top \in Scene
         /\ Top # "Main" => Len(scenes) > 1
  BY LastAt DEF LockTypeOK, Top

\* The stack stays a stack with Main at its bottom.
LEMMA SceneMoveTyped ==
  ASSUME LockTypeOK, SceneMove
  PROVE  scenes' \in Seq(Scene) /\ scenes' # <<>> /\ scenes'[1] = "Main"
<1>0. scenes \in Seq(Scene) /\ scenes # <<>> /\ scenes[1] = "Main" BY DEF LockTypeOK
<1>1. CASE UNCHANGED scenes BY <1>0, <1>1
<1>2. ASSUME NEW x \in Scene, scenes' = Append(scenes, x)
      PROVE  scenes' \in Seq(Scene) /\ scenes' # <<>> /\ scenes'[1] = "Main"
  BY <1>0, <1>2
<1>3. CASE Backed
  <2>1. Len(scenes) > 1 /\ Len(scenes) \in Nat BY <1>3, TopAt DEF Backed, LeftScene
  <2>2. 1 \in 1 .. Len(scenes) - 1 BY <2>1
  <2>3. Front(scenes) \in Seq(Scene) /\ Len(Front(scenes)) = Len(scenes) - 1
        /\ Front(scenes)[1] = scenes[1]
    BY <1>0, <2>2, FrontAt
  <2>4. Front(scenes) # <<>> BY <2>1, <2>3
  <2> QED BY <1>0, <1>3, <2>3, <2>4 DEF Backed
<1>4. ASSUME NEW x, scenes' = BackTo(scenes, x)
      PROVE  scenes' \in Seq(Scene) /\ scenes' # <<>> /\ scenes'[1] = "Main"
  <2>1. CASE Earlier(scenes, x) = {} BY <1>0, <1>4, <2>1 DEF BackTo
  <2>2. CASE Earlier(scenes, x) # {}
    <3>1. PICK m \in 1 .. Len(scenes) - 1 : BackTo(scenes, x) = SubSeq(scenes, 1, m)
      BY <1>0, <2>2, BackToAt
    <3>2. m \in 1 .. Len(scenes) /\ 1 \in 1 .. m BY <1>0, <3>1
    <3>3. SubSeq(scenes, 1, m) \in Seq(Scene) /\ Len(SubSeq(scenes, 1, m)) = m
          /\ SubSeq(scenes, 1, m)[1] = scenes[1]
      BY <1>0, <3>2, PrefixAt
    <3>4. SubSeq(scenes, 1, m) # <<>> BY <3>2, <3>3
    <3> QED BY <1>0, <1>4, <3>1, <3>3, <3>4
  <2> QED BY <2>1, <2>2
<1> QED BY <1>1, <1>2, <1>3, <1>4 DEF SceneMove, Opened, Entered, Returned, Scene

\* The scene on top of a locked desktop.
LEMMA LockedTop ==
  ASSUME LockTypeOK, NEW l, NEW t, LockedAt(scenes, l, t)
  PROVE  /\ t = <<>> => Top = "Locked"
         /\ t = <<"PinInput">> => Top = "PinInput"
         /\ t = <<"PinTimeout">> => Top = "PinTimeout"
         /\ t = <<"PinInput", "PinTimeout">> => Top = "PinTimeout"
         /\ t = <<"Boot">> => Top = "Boot"
         /\ t = <<"PinTimeout", "Boot">> => Top = "Boot"
<1>1. /\ Top = scenes[Len(scenes)] /\ Len(scenes) = l + Len(t) /\ l \in Nat
      /\ scenes[l] = "Locked" /\ \A i \in 1 .. Len(t) : scenes[l + i] = t[i]
  BY TopAt DEF LockedAt
<1>2. t # <<>> => Len(t) \in 1 .. Len(t) /\ Top = t[Len(t)]
  <2>1. Len(t) \in Nat /\ (t # <<>> => Len(t) # 0) BY DEF LockedAt, Over
  <2> QED BY <1>1, <2>1
<1>3. t = <<>> => Top = "Locked" BY <1>1
<1>4. /\ t = <<"PinInput">> => Top = "PinInput"
      /\ t = <<"PinTimeout">> => Top = "PinTimeout"
      /\ t = <<"Boot">> => Top = "Boot"
  BY <1>2
<1>5. /\ t = <<"PinInput", "PinTimeout">> => Top = "PinTimeout"
      /\ t = <<"PinTimeout", "Boot">> => Top = "Boot"
  BY <1>2
<1> QED BY <1>3, <1>4, <1>5

\* What comes off a locked stack, and what goes on top of it.
LEMMA LockedPushed ==
  ASSUME LockTypeOK, NEW l, NEW t, LockedAt(scenes, l, t), NEW x \in Scene,
         Append(t, x) \in Over, scenes' = Append(scenes, x)
  PROVE  LockedAt(scenes', l, Append(t, x))
<1>1. scenes \in Seq(Scene) BY DEF LockTypeOK
<1>2. /\ l \in 2 .. Len(scenes) /\ t \in Over /\ Len(scenes) = l + Len(t) /\ scenes[l] = "Locked"
      /\ \A i \in 1 .. Len(t) : scenes[l + i] = t[i]
      /\ \A i \in 1 .. l - 1 : scenes[i] \notin LockScene
  BY DEF LockedAt
<1>3. t \in Seq(Scene)
  <2>1. \A y \in {"PinInput", "PinTimeout", "Boot"} : y \in Scene BY DEF Scene
  <2>2. \A y, z \in Scene : <<>> \in Seq(Scene) /\ <<y>> \in Seq(Scene) /\ <<y, z>> \in Seq(Scene)
    OBVIOUS
  <2> QED BY <1>2, <2>1, <2>2 DEF Over
<1>4. /\ Len(scenes') = Len(scenes) + 1 /\ Len(scenes) \in Nat
      /\ \A i \in 1 .. Len(scenes) : scenes'[i] = scenes[i]
      /\ scenes'[Len(scenes) + 1] = x
  BY <1>1, AppendAt
<1>5. /\ Len(Append(t, x)) = Len(t) + 1 /\ Len(t) \in Nat
      /\ \A i \in 1 .. Len(t) : Append(t, x)[i] = t[i]
      /\ Append(t, x)[Len(t) + 1] = x
  BY <1>3, AppendAt
<1>6. ASSUME NEW i \in 1 .. Len(t) + 1 PROVE scenes'[l + i] = Append(t, x)[i]
  <2>1. CASE i = Len(t) + 1
    <3>1. l + i = Len(scenes) + 1 BY <1>2, <1>5, <2>1
    <3> QED BY <1>4, <1>5, <2>1, <3>1
  <2>2. CASE i # Len(t) + 1
    <3>1. i \in 1 .. Len(t) /\ l + i \in 1 .. Len(scenes) BY <1>2, <1>5, <2>2
    <3> QED BY <1>2, <1>4, <1>5, <3>1
  <2> QED BY <2>1, <2>2
<1>7. scenes'[l] = "Locked" /\ \A i \in 1 .. l - 1 : scenes'[i] \notin LockScene
  BY <1>2, <1>4
<1>8. l \in 2 .. Len(scenes') /\ Len(scenes') = l + (Len(t) + 1) BY <1>2, <1>4, <1>5
<1> QED BY <1>5, <1>6, <1>7, <1>8 DEF LockedAt

LEMMA LockedPopped ==
  ASSUME NEW s \in Seq(Scene), NEW l, NEW t, LockedAt(s, l, t), NEW u \in Over,
         Len(u) =< Len(t), \A i \in 1 .. Len(u) : u[i] = t[i], NEW r \in Seq(Scene),
         Len(r) = l + Len(u), \A i \in 1 .. Len(r) : r[i] = s[i]
  PROVE  LockedAt(r, l, u)
<1>1. /\ l \in 2 .. Len(s) /\ Len(s) = l + Len(t) /\ s[l] = "Locked"
      /\ \A i \in 1 .. Len(t) : s[l + i] = t[i]
      /\ \A i \in 1 .. l - 1 : s[i] \notin LockScene
  BY DEF LockedAt
<1>2. Len(u) \in Nat /\ Len(s) \in Nat /\ Len(r) \in Nat /\ t \in Over /\ Len(t) \in Nat
  BY DEF Over, LockedAt
<1>3. ASSUME NEW i \in 1 .. Len(u) PROVE r[l + i] = u[i]
  <2>1. i \in 1 .. Len(t) /\ l + i \in 1 .. Len(r) BY <1>1, <1>2
  <2> QED BY <1>1, <2>1
<1>4. r[l] = "Locked" /\ \A i \in 1 .. l - 1 : r[i] \notin LockScene
  <2>1. l \in 1 .. Len(r) /\ \A i \in 1 .. l - 1 : i \in 1 .. Len(r) BY <1>1, <1>2
  <2> QED BY <1>1, <2>1
<1>5. l \in 2 .. Len(r) BY <1>1, <1>2
<1> QED BY <1>3, <1>4, <1>5 DEF LockedAt

\* Where the Locked scene is.
LEMMA LockedPlace ==
  ASSUME NEW s \in Seq(Scene), NEW l, NEW t, LockedAt(s, l, t)
  PROVE  \A i \in 1 .. Len(s) : (s[i] = "Locked" <=> i = l) /\ (s[i] = "Main" => i < l)
<1> SUFFICES ASSUME NEW i \in 1 .. Len(s)
             PROVE  (s[i] = "Locked" <=> i = l) /\ (s[i] = "Main" => i < l)
  OBVIOUS
<1>1. /\ l \in 2 .. Len(s) /\ t \in Over /\ Len(s) = l + Len(t) /\ s[l] = "Locked"
      /\ \A j \in 1 .. Len(t) : s[l + j] = t[j]
      /\ \A j \in 1 .. l - 1 : s[j] \notin LockScene
  BY DEF LockedAt
<1>2. Len(s) \in Nat /\ Len(t) \in Nat /\ l \in Nat BY <1>1 DEF Over
<1>3. CASE i < l
  <2>1. i \in 1 .. l - 1 BY <1>2, <1>3
  <2> QED BY <1>1, <1>3, <2>1 DEF LockScene
<1>4. CASE i = l BY <1>1, <1>4
<1>5. CASE i > l
  <2>1. i - l \in 1 .. Len(t) /\ l + (i - l) = i BY <1>1, <1>2, <1>5
  <2>2. s[i] = t[i - l] BY <1>1, <2>1
  <2>3. \A j \in 1 .. Len(t) : t[j] \notin {"Locked", "Main"} BY <1>1 DEF Over
  <2> QED BY <1>2, <1>5, <2>1, <2>2, <2>3
<1> QED BY <1>2, <1>3, <1>4, <1>5

\* How a step moves what is on top of the Locked scene.
OverMove(t, u) ==
    \/ UNCHANGED scenes /\ u = t
    \/ t = <<>> /\ u = <<"PinInput">> /\ scenes' = Append(scenes, "PinInput")
    \/ t = <<"PinInput">> /\ u = <<"PinInput", "PinTimeout">>
         /\ scenes' = Append(scenes, "PinTimeout")
    \/ t = <<"PinInput">> /\ u = <<>> /\ scenes' = BackTo(scenes, "Locked")
    \/ scenes' = Front(scenes) /\ (\/ t = <<"PinTimeout">> /\ u = <<>>
                                   \/ t = <<"PinInput", "PinTimeout">> /\ u = <<"PinInput">>
                                   \/ t = <<"Boot">> /\ u = <<>>
                                   \/ t = <<"PinTimeout", "Boot">> /\ u = <<"PinTimeout">>)

LEMMA LockedMoves ==
  ASSUME LockTypeOK, NEW l, NEW t, LockedAt(scenes, l, t), SceneMove
  PROVE  \E u \in Over : LockedAt(scenes', l, u) /\ OverMove(t, u)
<1>0. /\ scenes \in Seq(Scene) /\ scenes' \in Seq(Scene) /\ scenes # <<>> /\ t \in Over
      /\ l \in 2 .. Len(scenes) /\ Len(scenes) = l + Len(t) /\ Len(scenes) \in Nat
  BY SceneMoveTyped DEF LockTypeOK, LockedAt
<1>1. /\ t = <<>> => Top = "Locked"
      /\ t = <<"PinInput">> => Top = "PinInput"
      /\ t = <<"PinTimeout">> => Top = "PinTimeout"
      /\ t = <<"PinInput", "PinTimeout">> => Top = "PinTimeout"
      /\ t = <<"Boot">> => Top = "Boot"
      /\ t = <<"PinTimeout", "Boot">> => Top = "Boot"
  BY LockedTop
<1>2. Top \notin HomeScene /\ Top \notin {"LockMenu", "QuickSettings", "Favorites", "Recent"}
  BY <1>0, <1>1 DEF Over, HomeScene
<1>3. CASE UNCHANGED scenes
  <2>1. LockedAt(scenes', l, t) BY <1>3 DEF LockedAt
  <2> QED BY <1>0, <1>3, <2>1 DEF OverMove
<1>4. CASE Entered
  <2>1. CASE Top = "Locked" /\ scenes' = Append(scenes, "PinInput")
    <3>1. t = <<>> BY <1>0, <1>1, <2>1 DEF Over
    <3>2. Append(t, "PinInput") = <<"PinInput">> /\ <<"PinInput">> \in Over /\ "PinInput" \in Scene
      BY <3>1 DEF Over, Scene
    <3>3. LockedAt(scenes', l, <<"PinInput">>) BY <2>1, <3>2, LockedPushed
    <3> QED BY <2>1, <3>1, <3>2, <3>3 DEF OverMove
  <2>2. CASE Top = "PinInput" /\ scenes' = Append(scenes, "PinTimeout")
    <3>1. t = <<"PinInput">> BY <1>0, <1>1, <2>2 DEF Over
    <3>2. /\ Append(t, "PinTimeout") = <<"PinInput", "PinTimeout">>
          /\ <<"PinInput", "PinTimeout">> \in Over /\ "PinTimeout" \in Scene
      <4>1. "PinInput" \in Scene /\ "PinTimeout" \in Scene BY DEF Scene
      <4> QED BY <3>1, <4>1, AppendPair DEF Over
    <3>3. LockedAt(scenes', l, <<"PinInput", "PinTimeout">>) BY <2>2, <3>2, LockedPushed
    <3> QED BY <2>2, <3>1, <3>2, <3>3 DEF OverMove
  <2> QED BY <1>4, <2>1, <2>2 DEF Entered
<1>5. CASE Backed
  <2>1. scenes' = Front(scenes) /\ Top \in {"PinTimeout", "Boot"}
    BY <1>2, <1>5 DEF Backed, LeftScene
  <2>2. Len(scenes') = Len(scenes) - 1 /\ \A i \in 1 .. Len(scenes') : scenes'[i] = scenes[i]
    BY <1>0, <2>1, FrontAt
  <2>3. ASSUME NEW u \in Over, Len(u) = Len(t) - 1, Len(t) \in Nat, Len(u) \in Nat,
               \A i \in 1 .. Len(u) : u[i] = t[i]
        PROVE  LockedAt(scenes', l, u)
    <3>1. Len(u) =< Len(t) /\ Len(scenes') = l + Len(u) BY <1>0, <2>2, <2>3
    <3> QED BY <1>0, <2>2, <2>3, <3>1, LockedPopped
  <2>4. CASE t \in {<<"PinTimeout">>, <<"Boot">>}
    <3>1. LockedAt(scenes', l, <<>>) BY <2>3, <2>4 DEF Over
    <3> QED BY <2>1, <2>4, <3>1 DEF OverMove, Over
  <2>5. CASE t = <<"PinInput", "PinTimeout">>
    <3>1. LockedAt(scenes', l, <<"PinInput">>) BY <2>3, <2>5 DEF Over
    <3> QED BY <2>1, <2>5, <3>1 DEF OverMove, Over
  <2>6. CASE t = <<"PinTimeout", "Boot">>
    <3>1. LockedAt(scenes', l, <<"PinTimeout">>) BY <2>3, <2>6 DEF Over
    <3> QED BY <2>1, <2>6, <3>1 DEF OverMove, Over
  <2> QED BY <1>0, <1>1, <2>1, <2>4, <2>5, <2>6 DEF Over
<1>6. CASE Returned
  <2>1. Top = "PinInput" /\ scenes' = BackTo(scenes, "Locked") BY <1>2, <1>6 DEF Returned
  <2>2. t = <<"PinInput">> /\ Len(t) = 1 BY <1>0, <1>1, <2>1 DEF Over
  <2>3. \A i \in 1 .. Len(scenes) : scenes[i] = "Locked" <=> i = l BY <1>0, LockedPlace
  <2>4. Earlier(scenes, "Locked") = {l} BY <1>0, <2>2, <2>3 DEF Earlier
  <2>5. scenes' = SubSeq(scenes, 1, l) BY <1>0, <2>1, <2>4, BackToAt
  <2>6. l \in 1 .. Len(scenes) BY <1>0
  <2>7. Len(scenes') = l /\ \A i \in 1 .. Len(scenes') : scenes'[i] = scenes[i]
    BY <1>0, <2>5, <2>6, PrefixAt
  <2>8. <<>> \in Over /\ Len(<<>>) = 0 BY DEF Over
  <2>9. LockedAt(scenes', l, <<>>)
    <3>1. Len(scenes') = l + Len(<<>>) /\ Len(<<>>) =< Len(t) BY <2>2, <2>6, <2>7, <2>8
    <3>2. \A i \in 1 .. Len(<<>>) : <<>>[i] = t[i] OBVIOUS
    <3> QED BY <1>0, <2>7, <2>8, <3>1, <3>2, LockedPopped
  <2> QED BY <2>1, <2>2, <2>8, <2>9 DEF OverMove
<1> QED BY <1>2, <1>3, <1>4, <1>5, <1>6 DEF SceneMove, Opened

\* The stack of an open desktop stays open, that of a locked one locked.
LEMMA SceneMoveAgrees ==
  ASSUME LockTypeOK, StackAgrees, SceneMove, locked' = locked
  PROVE  StackAgrees'
<1>0. /\ scenes \in Seq(Scene) /\ scenes' \in Seq(Scene) /\ scenes # <<>>
      /\ Len(scenes) \in Nat /\ Len(scenes') \in Nat
  BY SceneMoveTyped DEF LockTypeOK
<1>1. CASE locked
  <2>1. PICK l \in 2 .. Len(scenes), t \in Over : LockedAt(scenes, l, t) BY <1>1 DEF StackAgrees
  <2>2. PICK u \in Over : LockedAt(scenes', l, u) BY <2>1, LockedMoves
  <2>3. l \in 2 .. Len(scenes') BY <2>2 DEF LockedAt
  <2> QED BY <1>1, <2>2, <2>3 DEF StackAgrees
<1>2. CASE ~locked
  <2>0. \A i \in 1 .. Len(scenes) : scenes[i] \notin LockScene BY <1>2 DEF StackAgrees
  <2>1. Top \notin LockScene BY <1>0, <2>0, TopAt
  <2>2. \A i \in 1 .. Len(scenes') : scenes'[i] \notin LockScene
    <3>1. CASE UNCHANGED scenes BY <2>0, <3>1
    <3>2. CASE Opened
      <4>1. PICK x \in Scene \ LockScene : scenes' = Append(scenes, x) BY <3>2 DEF Opened
      <4>2. /\ Len(scenes') = Len(scenes) + 1 /\ scenes'[Len(scenes) + 1] = x
            /\ \A i \in 1 .. Len(scenes) : scenes'[i] = scenes[i]
        BY <1>0, <4>1, AppendAt
      <4> QED BY <1>0, <2>0, <4>1, <4>2
    <3>3. CASE Backed
      <4>1. Len(scenes') = Len(scenes) - 1 /\ \A i \in 1 .. Len(scenes) - 1 : scenes'[i] = scenes[i]
        BY <1>0, <3>3, FrontAt DEF Backed
      <4> QED BY <1>0, <2>0, <4>1
    <3>4. ASSUME NEW x, scenes' = BackTo(scenes, x)
          PROVE  \A i \in 1 .. Len(scenes') : scenes'[i] \notin LockScene
      <4>1. CASE Earlier(scenes, x) = {} BY <2>0, <3>4, <4>1 DEF BackTo
      <4>2. CASE Earlier(scenes, x) # {}
        <5>1. PICK m \in 1 .. Len(scenes) - 1 : scenes' = SubSeq(scenes, 1, m)
          BY <1>0, <3>4, <4>2, BackToAt
        <5>2. m \in 1 .. Len(scenes) BY <1>0
        <5>3. Len(scenes') = m /\ \A i \in 1 .. m : scenes'[i] = scenes[i]
          BY <1>0, <5>1, <5>2, PrefixAt
        <5> QED BY <1>0, <2>0, <5>2, <5>3
      <4> QED BY <4>1, <4>2
    <3> QED BY <2>1, <3>1, <3>2, <3>3, <3>4 DEF SceneMove, Entered, Returned, LockScene
  <2> QED BY <1>2, <2>2 DEF StackAgrees
<1> QED BY <1>1, <1>2 DEF LockTypeOK

-----------------------------------------------------------------------------
(* The steps that move between scenes                                        *)

\* Where the events of a scene lead.
LEMMA NavigateLeads ==
  ASSUME NEW e, Navigate(e), Top \in Scene
  PROVE  \/ Top = "Main" /\ e \in {"OpenLockMenu", "OpenDebug", "OpenFavorites", "OpenRecent"}
              /\ \E x \in Scene \ LockScene : NextScene(x)
         \/ Top = "LockMenu" /\ e = "OpenQuickSettings" /\ NextScene("QuickSettings")
         \/ Top = "Debug" /\ e = "DebugExit" /\ NextScene("Main")
         \/ Top = "Locked" /\ e = "ShowPinInput" /\ NextScene("PinInput")
         \/ Top = "LockMenu" /\ e = "LockMenuToggle" /\ SwitchBack("Main")
         \/ Top = "PinInput" /\ e = "PinBack" /\ SwitchBack("Locked")
         \/ Top = "QuickSettings" /\ e = "QuickSettingsClose" /\ PreviousScene
         \/ Top = "PinTimeout" /\ e = "PinTimeoutExit" /\ PreviousScene
         \/ Top = "Boot" /\ e = "BootExit" /\ PreviousScene
<1>1. e \in Navigation[Top] BY DEF Navigate
<1>2. \/ Top = "Main" /\ e \in {"OpenLockMenu", "OpenDebug", "OpenFavorites", "OpenRecent"}
      \/ Top = "LockMenu" /\ e \in {"LockMenuToggle", "OpenQuickSettings"}
      \/ Top = "QuickSettings" /\ e = "QuickSettingsClose"
      \/ Top = "Debug" /\ e = "DebugExit"
      \/ Top = "Locked" /\ e = "ShowPinInput"
      \/ Top = "PinInput" /\ e = "PinBack"
      \/ Top = "PinTimeout" /\ e = "PinTimeoutExit"
      \/ Top = "Boot" /\ e = "BootExit"
  BY <1>1 DEF Navigation, Scene
<1>3. DOMAIN Opens = {"OpenLockMenu", "OpenDebug", "OpenFavorites", "OpenRecent",
                      "OpenQuickSettings", "DebugExit", "ShowPinInput"}
  BY DEF Opens
<1>4. e \in DOMAIN Opens => NextScene(Opens[e]) BY <1>3 DEF Navigate
<1>5. e = "LockMenuToggle" => SwitchBack("Main") BY <1>3 DEF Navigate
<1>6. e = "PinBack" => SwitchBack("Locked") BY <1>3 DEF Navigate
<1>7. e \in {"QuickSettingsClose", "PinTimeoutExit", "BootExit"} => PreviousScene
  BY <1>3 DEF Navigate
<1>8. /\ Opens["OpenLockMenu"] = "LockMenu" /\ Opens["OpenDebug"] = "Debug"
      /\ Opens["OpenFavorites"] = "Favorites" /\ Opens["OpenRecent"] = "Recent"
      /\ Opens["OpenQuickSettings"] = "QuickSettings" /\ Opens["DebugExit"] = "Main"
      /\ Opens["ShowPinInput"] = "PinInput"
  BY DEF Opens
<1>9. {"LockMenu", "Debug", "Favorites", "Recent"} \subseteq Scene \ LockScene
  BY DEF Scene, LockScene
<1> QED BY <1>2, <1>3, <1>4, <1>5, <1>6, <1>7, <1>8, <1>9

\* What entering a scene leaves, besides the stack.
EnteredOK ==
    /\ penalty' \in [timer : {"on", "off"}, due : BOOLEAN] /\ penalty'.due = penalty.due
    /\ penalty.timer = "on" => penalty'.timer = "on"
    /\ shown' \in Seq(Names) /\ Len(shown') =< RecentMax

LEMMA EnterOK ==
  ASSUME DesktopTypeOK, NEW s, Enter(s) \/ UNCHANGED sceneVars
  PROVE  EnteredOK
<1>0. /\ penalty \in [timer : {"on", "off"}, due : BOOLEAN]
      /\ recent \in Seq(Names) /\ Len(recent) =< RecentMax
      /\ shown \in Seq(Names) /\ Len(shown) =< RecentMax
  BY DEF DesktopTypeOK, LockTypeOK, RestTypeOK
<1>1. <<>> \in Seq(Names) /\ Len(<<>>) =< RecentMax BY ConstantsAssumption
<1>2. CASE Enter(s)
  <2>1. penalty' = [penalty EXCEPT !.timer = "on"] \/ penalty' = penalty BY <1>2 DEF Enter
  <2>2. shown' = recent \/ shown' = <<>> BY <1>2 DEF Enter
  <2> QED BY <1>0, <1>1, <2>1, <2>2 DEF EnteredOK
<1>3. CASE UNCHANGED sceneVars BY <1>0, <1>3 DEF EnteredOK, sceneVars
<1> QED BY <1>2, <1>3

LEMMA SwitchBackTo ==
  ASSUME NEW x, SwitchBack(x)
  PROVE  scenes' = BackTo(scenes, x) /\ (UNCHANGED sceneVars \/ Enter(BackTo(scenes, x)))
  BY DEF SwitchBack, Enter, BackTo, sceneVars

\* The steps that only move between scenes.
LEMMA MovesScenes ==
  ASSUME DesktopTypeOK, NEW e,
         \/ Navigate(e) \/ KeyBack \/ HandleDummyMode(e) \/ HandlePinFailed(e) \/ HandleList(e)
  PROVE  SceneMove /\ EnteredOK
<1>0. Top \in Scene BY TopAt DEF DesktopTypeOK
<1>1. ASSUME NEW x \in Scene \ LockScene, Top \in HomeScene, NextScene(x) PROVE SceneMove /\ EnteredOK
  BY <1>1, EnterOK DEF NextScene, Enter, SceneMove, Opened
<1>2. ASSUME Top = "PinInput", NextScene("PinTimeout") PROVE SceneMove /\ EnteredOK
  BY <1>2, EnterOK DEF NextScene, Enter, SceneMove, Entered
<1>b. ASSUME Top = "Locked", NextScene("PinInput") PROVE SceneMove /\ EnteredOK
  BY <1>b, EnterOK DEF NextScene, Enter, SceneMove, Entered
<1>3. ASSUME Top \in LeftScene, PreviousScene PROVE SceneMove /\ EnteredOK
  BY <1>3, EnterOK DEF PreviousScene, Enter, SceneMove, Backed
<1>4. ASSUME Top \in {"LockMenu", "QuickSettings"}, SwitchBack("Main") PROVE SceneMove /\ EnteredOK
  BY <1>4, EnterOK, SwitchBackTo DEF SceneMove, Returned
<1>a. ASSUME Top = "PinInput", SwitchBack("Locked") PROVE SceneMove /\ EnteredOK
  BY <1>a, EnterOK, SwitchBackTo DEF SceneMove, Returned
<1>5. ASSUME UNCHANGED sceneVars PROVE SceneMove /\ EnteredOK
  BY <1>5, EnterOK DEF SceneMove, sceneVars
<1>6. CASE Navigate(e)
  <2>1. "QuickSettings" \in Scene \ LockScene /\ "Main" \in Scene \ LockScene
    BY DEF Scene, LockScene
  <2>2. CASE Top \in HomeScene /\ \E x \in Scene \ LockScene : NextScene(x) BY <1>1, <2>2
  <2>3. CASE Top \in LeftScene /\ PreviousScene BY <1>3, <2>3
  <2> QED BY <1>0, <1>b, <1>4, <1>a, <1>6, <2>1, <2>2, <2>3, NavigateLeads DEF HomeScene, LeftScene
<1>7. CASE KeyBack BY <1>3, <1>4, <1>7 DEF KeyBack, LeftScene
<1>8. CASE HandleDummyMode(e) BY <1>4, <1>8 DEF HandleDummyMode
<1>9. CASE HandlePinFailed(e) BY <1>2, <1>5, <1>9 DEF HandlePinFailed
<1>10. CASE HandleList(e) BY <1>3, <1>5, <1>10 DEF HandleList, LeftScene
<1> QED BY <1>6, <1>7, <1>8, <1>9, <1>10

-----------------------------------------------------------------------------
(* Lock, unlock and restart                                                  *)

LEMMA ConcatAt ==
  ASSUME NEW S, NEW s \in Seq(S), NEW r \in Seq(S)
  PROVE  /\ s \o r \in Seq(S) /\ Len(s \o r) = Len(s) + Len(r)
         /\ Len(s) \in Nat /\ Len(r) \in Nat
         /\ \A i \in 1 .. Len(s) : (s \o r)[i] = s[i]
         /\ \A i \in 1 .. Len(r) : (s \o r)[Len(s) + i] = r[i]
  OBVIOUS

\* The lock screen's scenes: what is over the Locked scene.
OverLocked(fails) == IF PinSet /\ FailTimeout(fails) THEN <<"PinTimeout">> ELSE <<>>

LEMMA LockedScenesAt ==
  ASSUME NEW fails
  PROVE  /\ LockedScenes(fails) \in Seq(Scene) /\ Len(LockedScenes(fails)) \in Nat
         /\ OverLocked(fails) \in Over /\ Len(OverLocked(fails)) \in {0, 1}
         /\ Len(LockedScenes(fails)) = 1 + Len(OverLocked(fails))
         /\ LockedScenes(fails)[1] = "Locked"
         /\ \A i \in 1 .. Len(OverLocked(fails)) :
              LockedScenes(fails)[1 + i] = OverLocked(fails)[i]
<1>1. "Locked" \in Scene /\ "PinTimeout" \in Scene BY DEF Scene
<1>2. CASE PinSet /\ FailTimeout(fails)
  <2>1. LockedScenes(fails) = <<"Locked", "PinTimeout">> /\ OverLocked(fails) = <<"PinTimeout">>
    BY <1>2 DEF LockedScenes, OverLocked
  <2>2. \A i \in 1 .. Len(<<"PinTimeout">>) : i = 1 OBVIOUS
  <2> QED BY <1>1, <2>1, <2>2 DEF Over
<1>3. CASE ~(PinSet /\ FailTimeout(fails))
  <2>1. LockedScenes(fails) = <<"Locked">> /\ OverLocked(fails) = <<>>
    BY <1>3 DEF LockedScenes, OverLocked
  <2>2. \A i \in 1 .. Len(<<>>) : FALSE OBVIOUS
  <2> QED BY <1>1, <2>1, <2>2 DEF Over
<1> QED BY <1>2, <1>3

\* The lock screen goes on top of an open stack.
LEMMA StackLocked ==
  ASSUME NEW s \in Seq(Scene), s # <<>>, \A i \in 1 .. Len(s) : s[i] \notin LockScene, NEW fails
  PROVE  /\ s \o LockedScenes(fails) \in Seq(Scene)
         /\ Len(s \o LockedScenes(fails)) = Len(s) + Len(LockedScenes(fails))
         /\ (s \o LockedScenes(fails))[1] = s[1] /\ s \o LockedScenes(fails) # <<>>
         /\ LockedAt(s \o LockedScenes(fails), Len(s) + 1, OverLocked(fails))
<1> DEFINE k == LockedScenes(fails)
           t == OverLocked(fails)
           r == s \o k
<1>1. /\ k \in Seq(Scene) /\ t \in Over /\ Len(t) \in Nat /\ Len(k) = 1 + Len(t)
      /\ k[1] = "Locked" /\ \A i \in 1 .. Len(t) : k[1 + i] = t[i]
  BY LockedScenesAt
<1> HIDE DEF k, t
<1>2. /\ r \in Seq(Scene) /\ Len(r) = Len(s) + Len(k) /\ Len(s) \in Nat \ {0}
      /\ \A i \in 1 .. Len(s) : r[i] = s[i]
      /\ \A i \in 1 .. Len(k) : r[Len(s) + i] = k[i]
  <2>1. Len(s) \in Nat \ {0} OBVIOUS
  <2>2. k \in Seq(Scene) BY <1>1
  <2>3. /\ s \o k \in Seq(Scene) /\ Len(s \o k) = Len(s) + Len(k)
        /\ \A i \in 1 .. Len(s) : (s \o k)[i] = s[i]
        /\ \A i \in 1 .. Len(k) : (s \o k)[Len(s) + i] = k[i]
    BY <2>2, ConcatAt
  <2> QED BY <2>1, <2>3
<1> HIDE DEF r
<1>3. 1 \in 1 .. Len(s) /\ 1 \in 1 .. Len(k) BY <1>1, <1>2
<1>4. r[1] = s[1] /\ r[Len(s) + 1] = "Locked" /\ r # <<>> BY <1>1, <1>2, <1>3
<1>5. ASSUME NEW i \in 1 .. Len(t) PROVE r[(Len(s) + 1) + i] = t[i]
  <2>1. 1 + i \in 1 .. Len(k) /\ (Len(s) + 1) + i = Len(s) + (1 + i) BY <1>1, <1>2
  <2> QED BY <1>1, <1>2, <2>1
<1>6. \A i \in 1 .. (Len(s) + 1) - 1 : r[i] \notin LockScene BY <1>2
<1>7. Len(s) + 1 \in 2 .. Len(r) /\ Len(r) = (Len(s) + 1) + Len(t) BY <1>1, <1>2
<1>8. LockedAt(r, Len(s) + 1, t) BY <1>1, <1>4, <1>5, <1>6, <1>7 DEF LockedAt
<1> QED BY <1>2, <1>4, <1>8 DEF r, k, t

\* What unlocking leaves of the stack.
LEMMA StackUnlocked ==
  ASSUME LockTypeOK, StackAgrees, locked
  PROVE  LET s == BackTo(scenes, "Main") IN
         /\ s \in Seq(Scene) /\ s # <<>> /\ s[1] = "Main" /\ Last(s) = "Main"
         /\ \A i \in 1 .. Len(s) : s[i] \notin LockScene
<1>0. scenes \in Seq(Scene) /\ Len(scenes) \in Nat /\ scenes[1] = "Main" BY DEF LockTypeOK
<1>1. PICK l \in 2 .. Len(scenes), t \in Over : LockedAt(scenes, l, t) BY DEF StackAgrees
<1>2. 1 \in Earlier(scenes, "Main") BY <1>0, <1>1 DEF Earlier
<1>3. PICK m \in 1 .. Len(scenes) - 1 :
        BackTo(scenes, "Main") = SubSeq(scenes, 1, m) /\ scenes[m] = "Main"
  BY <1>0, <1>2, BackToAt
<1>4. m \in 1 .. Len(scenes) /\ 1 \in 1 .. m /\ m \in 1 .. m BY <1>0
<1>5. m < l BY <1>0, <1>1, <1>3, <1>4, LockedPlace
<1> DEFINE s == SubSeq(scenes, 1, m)
<1>6. s \in Seq(Scene) /\ Len(s) = m /\ \A i \in 1 .. m : s[i] = scenes[i]
  BY <1>0, <1>4, PrefixAt
<1>7. \A i \in 1 .. m : scenes[i] \notin LockScene
  <2>1. \A i \in 1 .. m : i \in 1 .. l - 1 BY <1>5
  <2> QED BY <1>1, <2>1 DEF LockedAt
<1> HIDE DEF s
<1>8. s # <<>> /\ Last(s) = "Main" BY <1>3, <1>4, <1>6 DEF Last
<1>9. s = BackTo(scenes, "Main") BY <1>3 DEF s
<1> QED BY <1>0, <1>4, <1>6, <1>7, <1>8, <1>9

\* The stack at the start of the service.
LEMMA StackBooted ==
  ASSUME NEW fails, NEW report \in BOOLEAN, PinSet \in BOOLEAN
  PROVE  LET s == BootScenes(fails, report) IN
         /\ s \in Seq(Scene) /\ s # <<>> /\ s[1] = "Main"
         /\ PinSet => \E t \in Over :
              LockedAt(s, 2, t) /\ (FailTimeout(fails) =>
                                      t \in {<<"PinTimeout">>, <<"PinTimeout", "Boot">>})
         /\ ~PinSet => \A i \in 1 .. Len(s) : s[i] \notin LockScene
<1> DEFINE s == BootScenes(fails, report)
           a == <<"Main">>
           b == IF PinSet THEN LockedScenes(fails) ELSE <<>>
           c == IF report THEN <<"Boot">> ELSE <<>>
<1>0. "Main" \in Scene /\ "Boot" \in Scene /\ {"Main", "Boot"} \cap LockScene = {}
  BY DEF Scene, LockScene
<1>1. a \in Seq(Scene) /\ Len(a) = 1 /\ a[1] = "Main" /\ a # <<>> BY <1>0
<1>2. c \in Seq(Scene) /\ (~report => c = <<>>) /\ (report => c = <<"Boot">>) BY <1>0
<1>3. s = (a \o b) \o c BY DEF BootScenes
<1> HIDE DEF s, a, c
<1>4. CASE PinSet
  <2>1. b = LockedScenes(fails) BY <1>4
  <2> HIDE DEF b
  <2> DEFINE r == a \o b
             t == OverLocked(fails)
  <2>2. /\ r \in Seq(Scene) /\ r # <<>> /\ r[1] = "Main" /\ LockedAt(r, 2, t)
        /\ Len(r) = 2 + Len(t)
    <3>1. \A i \in 1 .. Len(a) : a[i] \notin LockScene BY <1>0, <1>1
    <3>2. Len(a) + 1 = 2 BY <1>1
    <3>3. /\ r \in Seq(Scene) /\ r # <<>> /\ r[1] = "Main" /\ LockedAt(r, 2, t)
      BY <1>1, <2>1, <3>1, <3>2, StackLocked
    <3> QED BY <3>3 DEF LockedAt
  <2>3. t \in {<<>>, <<"PinTimeout">>} /\ (FailTimeout(fails) => t = <<"PinTimeout">>)
    BY <1>4 DEF OverLocked
  <2> HIDE DEF r, t
  <2>4. CASE ~report
    <3>1. s = r BY <1>2, <1>3, <2>2, <2>4 DEF r
    <3> QED BY <1>4, <2>2, <2>3, <3>1 DEF Over, s
  <2>5. CASE report
    <3>1. s = r \o <<"Boot">> BY <1>2, <1>3, <2>5 DEF r
    <3> DEFINE u == IF t = <<>> THEN <<"Boot">> ELSE <<"PinTimeout", "Boot">>
    <3>2. <<"Boot">> \in Seq(Scene) /\ Len(<<"Boot">>) = 1 /\ <<"Boot">>[1] = "Boot" BY <1>0
    <3>3. /\ s \in Seq(Scene) /\ Len(s) = Len(r) + 1 /\ Len(r) \in Nat
          /\ \A i \in 1 .. Len(r) : s[i] = r[i]
          /\ s[Len(r) + 1] = "Boot"
      BY <2>2, <3>1, <3>2, ConcatAt
    <3>4. u \in Over /\ Len(u) = Len(t) + 1 /\ Len(t) \in Nat /\ u[Len(t) + 1] = "Boot"
          /\ \A i \in 1 .. Len(t) : u[i] = t[i]
      <4>1. CASE t = <<>> BY <4>1 DEF Over
      <4>2. CASE t = <<"PinTimeout">>
        <5>1. u = <<"PinTimeout", "Boot">> /\ Len(t) = 1 /\ t[1] = "PinTimeout" BY <4>2
        <5> HIDE DEF u
        <5>2. u \in Over /\ Len(u) = 2 /\ u[1] = "PinTimeout" /\ u[2] = "Boot" BY <5>1 DEF Over
        <5> QED BY <5>1, <5>2
      <4> QED BY <2>3, <4>1, <4>2
    <3>5. /\ 2 \in 2 .. Len(r) /\ r[2] = "Locked"
          /\ \A i \in 1 .. Len(t) : r[2 + i] = t[i]
          /\ \A i \in 1 .. 2 - 1 : r[i] \notin LockScene
      BY <2>2 DEF LockedAt
    <3> HIDE DEF u
    <3>6. ASSUME NEW i \in 1 .. Len(u) PROVE s[2 + i] = u[i]
      <4>1. CASE i = Len(t) + 1
        <5>1. 2 + i = Len(r) + 1 BY <2>2, <3>4, <4>1
        <5> QED BY <3>3, <3>4, <4>1, <5>1
      <4>2. CASE i # Len(t) + 1
        <5>1. i \in 1 .. Len(t) /\ 2 + i \in 1 .. Len(r) BY <2>2, <3>4, <4>2
        <5> QED BY <3>3, <3>4, <3>5, <5>1
      <4> QED BY <4>1, <4>2
    <3>7. 2 \in 1 .. Len(r) /\ 1 \in 1 .. Len(r) BY <3>3, <3>5
    <3>8. s[2] = "Locked" /\ s[1] = "Main" /\ \A i \in 1 .. 2 - 1 : s[i] \notin LockScene
      BY <2>2, <3>3, <3>5, <3>7
    <3>9. LockedAt(s, 2, u)
      <4>1. 2 \in 2 .. Len(s) /\ Len(s) = 2 + Len(u) BY <2>2, <3>3, <3>4, <3>5
      <4> QED BY <3>4, <3>6, <3>8, <4>1 DEF LockedAt
    <3>10. FailTimeout(fails) => u = <<"PinTimeout", "Boot">> BY <2>3 DEF u
    <3>11. s # <<>> BY <3>3
    <3> QED BY <1>4, <3>3, <3>4, <3>8, <3>9, <3>10, <3>11 DEF s
  <2> QED BY <2>4, <2>5
<1>5. CASE ~PinSet
  <2>1. s = a \o c
    <3>1. b = <<>> BY <1>5
    <3>2. a \o <<>> = a BY <1>1
    <3> QED BY <1>3, <3>1, <3>2
  <2>2. /\ s \in Seq(Scene) /\ Len(s) = 1 + Len(c) /\ s[1] = "Main" /\ Len(c) \in Nat
        /\ \A i \in 1 .. Len(c) : s[1 + i] = c[i]
    BY <1>1, <1>2, <2>1, ConcatAt
  <2>3. ASSUME NEW i \in 1 .. Len(s) PROVE s[i] \notin LockScene
    <3>1. CASE i = 1 BY <1>0, <2>2, <3>1
    <3>2. CASE i # 1
      <4>1. i - 1 \in 1 .. Len(c) /\ 1 + (i - 1) = i BY <2>2, <3>2
      <4>2. s[i] = c[i - 1] BY <2>2, <4>1
      <4>3. \A j \in 1 .. Len(c) : c[j] = "Boot" BY <1>2
      <4> QED BY <1>0, <4>1, <4>2, <4>3
    <3> QED BY <3>1, <3>2
  <2>4. s # <<>> BY <2>2
  <2> QED BY <1>5, <2>2, <2>3, <2>4 DEF s
<1> QED BY <1>4, <1>5

\* What a step of the lock group establishes.
LockKept ==
    /\ LockTypeOK' /\ halted' \notin {"lock", "unlock"}
    /\ Running' => StackAgrees' /\ LockAgrees'

LEMMA LockedViewOK ==
  ASSUME NEW v \in View, NEW fails, PinSet \in BOOLEAN
  PROVE  /\ LockedView(v, fails) \in View /\ LockedView(v, fails).pin = PinSet
         /\ LockedView(v, fails).state \in {"Locked", "DoorsClosing"}
  BY DEF LockedView, View

LEMMA LockStep ==
  ASSUME LockInv, Running, ~locked, DesktopLock
  PROVE  LockKept /\ EnteredOK /\ autoLock' = Inhibit
<1>0. /\ DesktopTypeOK /\ LockTypeOK /\ StackAgrees /\ LockAgrees /\ PinSet \in BOOLEAN
      /\ scenes \in Seq(Scene) /\ scenes # <<>> /\ scenes[1] = "Main"
      /\ view \in View /\ rtc \in [lock : BOOLEAN, fails : Nat, pin : BOOLEAN] /\ cli \in BOOLEAN
      /\ penalty \in [timer : {"on", "off"}, due : BOOLEAN] /\ locked \in BOOLEAN
  BY DEF LockInv, DesktopTypeOK, LockTypeOK, PinSet
<1>1. /\ rtc' = [rtc EXCEPT !.lock = TRUE] /\ cli' = (cli /\ ~PinSet)
      /\ autoLock' = Inhibit /\ lockdown' = TRUE
  BY DEF DesktopLock
<1>2. /\ rtc' \in [lock : BOOLEAN, fails : Nat, pin : BOOLEAN] /\ rtc'.lock
      /\ PinSet' = PinSet /\ cli' = (~PinSet /\ cli) /\ cli' \in BOOLEAN
  BY <1>0, <1>1 DEF PinSet
<1>3. CASE view.state = "Unlocked"
  <2>1. /\ view' = LockedView(view, rtc.fails) /\ Enter(scenes \o LockedScenes(rtc.fails))
        /\ locked' = TRUE /\ halted' = halted
    BY <1>3 DEF DesktopLock
  <2>2. scenes' = scenes \o LockedScenes(rtc.fails) /\ EnteredOK
    BY <1>0, <2>1, EnterOK DEF Enter
  <2>3. \A i \in 1 .. Len(scenes) : scenes[i] \notin LockScene BY <1>0 DEF StackAgrees
  <2>4. /\ scenes' \in Seq(Scene) /\ scenes'[1] = "Main" /\ scenes' # <<>>
        /\ LockedAt(scenes', Len(scenes) + 1, OverLocked(rtc.fails))
    BY <1>0, <2>2, <2>3, StackLocked
  <2>5. StackAgrees'
    <3>1. Len(scenes) + 1 \in 2 .. Len(scenes') /\ OverLocked(rtc.fails) \in Over
      BY <2>4 DEF LockedAt
    <3> QED BY <2>1, <2>4, <3>1 DEF StackAgrees
  <2>6. /\ view' \in View /\ view'.pin = PinSet /\ view'.state \in {"Locked", "DoorsClosing"}
    BY <1>0, <2>1, LockedViewOK
  <2>7. LockAgrees'
    BY <1>0, <1>1, <1>2, <2>1, <2>6 DEF LockAgrees
  <2>8. LockTypeOK' BY <1>1, <1>2, <2>1, <2>2, <2>4, <2>6 DEF LockTypeOK, EnteredOK
  <2> QED BY <1>1, <2>1, <2>2, <2>5, <2>7, <2>8 DEF LockKept, Running
<1>4. CASE view.state # "Unlocked"
  <2>1. halted' = "lockedView" /\ UNCHANGED <<sceneVars, view, locked>>
    BY <1>4 DEF DesktopLock, Crash
  <2>2. EnteredOK BY <1>0, <2>1, EnterOK
  <2>3. LockTypeOK' BY <1>0, <1>1, <1>2, <2>1 DEF LockTypeOK, sceneVars
  <2> QED BY <1>1, <2>1, <2>2, <2>3 DEF LockKept, Running
<1> QED BY <1>3, <1>4

LEMMA UnlockStep ==
  ASSUME LockInv, Running, locked, DesktopUnlock
  PROVE  /\ LockKept /\ autoLock' = Arm(settings.delay) /\ shown' = <<>>
         /\ ~locked' /\ penalty'.due = FALSE /\ Running' /\ Top' = "Main"
         /\ view'.remote = (view.remote \/ Overtaken)
<1>0. /\ LockTypeOK /\ StackAgrees /\ LockAgrees /\ PinSet \in BOOLEAN
      /\ view \in View /\ rtc \in [lock : BOOLEAN, fails : Nat, pin : BOOLEAN] /\ cli \in BOOLEAN
      /\ penalty \in [timer : {"on", "off"}, due : BOOLEAN]
  BY DEF LockInv, DesktopTypeOK, LockTypeOK, PinSet
<1>1. /\ lockdown' = FALSE /\ locked' = FALSE /\ halted' = halted
      /\ view' = [state |-> "UnlockedHint", pin |-> FALSE, timer |-> "on", count |-> 0,
                   remote |-> view.remote \/ Overtaken]
      /\ scenes' = BackTo(scenes, "Main") /\ shown' = <<>>
      /\ penalty' = [penalty EXCEPT !.due = FALSE] /\ autoLock' = Arm(settings.delay)
      /\ rtc' = [rtc EXCEPT !.lock = FALSE, !.fails = 0] /\ cli' = (cli \/ PinSet)
  BY DEF DesktopUnlock
<1>2. /\ scenes' \in Seq(Scene) /\ scenes' # <<>> /\ scenes'[1] = "Main" /\ Top' = "Main"
      /\ \A i \in 1 .. Len(scenes') : scenes'[i] \notin LockScene
  BY <1>0, <1>1, StackUnlocked DEF Top
<1>3. /\ rtc' \in [lock : BOOLEAN, fails : Nat, pin : BOOLEAN] /\ PinSet' = PinSet
      /\ view' \in View /\ view'.state = "UnlockedHint" /\ cli' = TRUE
      /\ view'.remote = (view.remote \/ Overtaken)
      /\ penalty' \in [timer : {"on", "off"}, due : BOOLEAN] /\ penalty'.due = FALSE
  <2>1. (view.remote \/ Overtaken) \in BOOLEAN BY DEF Overtaken
  <2> QED BY <1>0, <1>1, <2>1 DEF View, PinSet, LockAgrees
<1>4. LockTypeOK' BY <1>1, <1>2, <1>3 DEF LockTypeOK
<1>5. StackAgrees' /\ LockAgrees' BY <1>1, <1>2, <1>3 DEF StackAgrees, LockAgrees
<1> QED BY <1>1, <1>2, <1>3, <1>4, <1>5 DEF LockKept, Running

\* The values the service starts with.
LEMMA BootValues ==
  ASSUME NEW fails \in Nat, PinSet \in BOOLEAN, NEW s \in SavedSettings, NEW running \in BOOLEAN
  PROVE  /\ BootView(fails) \in View /\ (~PinSet => BootView(fails).state = "Unlocked")
         /\ PinSet => /\ BootView(fails).pin = PinSet
                      /\ BootView(fails).state \in {"Locked", "DoorsClosing"}
         /\ BootPenalty(fails) \in [timer : {"on", "off"}, due : BOOLEAN]
         /\ BootPenalty(fails).due = (PinSet /\ FailTimeout(fails))
         /\ BootPenalty(fails).due => BootPenalty(fails).timer = "on"
         /\ BootAutoLock(s, running) \in [timer : {"on", "off"}, sub : {"on", "off"}]
         /\ BootAnim(s, running) \in Anim /\ s \in Settings
<1>1. OpenView \in View /\ OpenView.state = "Unlocked" BY DEF OpenView, View
<1>2. /\ BootView(fails) \in View /\ (~PinSet => BootView(fails).state = "Unlocked")
      /\ PinSet => /\ BootView(fails).pin = PinSet
                   /\ BootView(fails).state \in {"Locked", "DoorsClosing"}
  BY <1>1, LockedViewOK DEF BootView
<1>3. FailTimeout(fails) \in BOOLEAN BY ConstantsAssumption DEF FailTimeout
<1>4. /\ BootPenalty(fails) \in [timer : {"on", "off"}, due : BOOLEAN]
      /\ BootPenalty(fails).due = (PinSet /\ FailTimeout(fails))
      /\ BootPenalty(fails).due => BootPenalty(fails).timer = "on"
  BY <1>3 DEF BootPenalty
<1>5. BootAutoLock(s, running) \in [timer : {"on", "off"}, sub : {"on", "off"}]
  BY DEF BootAutoLock, Inhibit
<1>6. s \in Settings /\ s.dummy \in {"off", "on"} BY ConstantsAssumption DEF Settings
<1>7. BootAnim(s, running) \in Anim BY <1>6 DEF BootAnim, Stalled, Anim
<1> QED BY <1>2, <1>4, <1>5, <1>6, <1>7

\* The lock agrees at the start of the service.
LEMMA BootLocked ==
  ASSUME Reboot, LockInv
  PROVE  LockKept
<1>0. PinSet \in BOOLEAN /\ rtc \in [lock : BOOLEAN, fails : Nat, pin : BOOLEAN]
  BY DEF LockInv, DesktopTypeOK, LockTypeOK, PinSet
<1>1. /\ scenes' = BootScenes(rtc.fails, ~Running) /\ view' = BootView(rtc.fails)
      /\ locked' = PinSet /\ lockdown' = PinSet /\ cli' = ~PinSet
      /\ rtc' = [rtc EXCEPT !.lock = rtc.lock \/ PinSet]
      /\ penalty' = BootPenalty(rtc.fails) /\ halted' = "no"
  BY DEF Reboot
<1>2. rtc' \in [lock : BOOLEAN, fails : Nat, pin : BOOLEAN] /\ PinSet' = PinSet
      /\ (PinSet => rtc'.lock)
  BY <1>0, <1>1 DEF PinSet
<1>3. /\ scenes' \in Seq(Scene) /\ scenes' # <<>> /\ scenes'[1] = "Main"
      /\ PinSet => \E t \in Over : LockedAt(scenes', 2, t)
      /\ ~PinSet => \A i \in 1 .. Len(scenes') : scenes'[i] \notin LockScene
  <2>1. (~Running) \in BOOLEAN BY DEF Running
  <2> QED BY <1>0, <1>1, <2>1, StackBooted
<1>4. /\ view' \in View /\ (~PinSet => view'.state = "Unlocked")
      /\ PinSet => view'.pin = PinSet /\ view'.state \in {"Locked", "DoorsClosing"}
      /\ penalty' \in [timer : {"on", "off"}, due : BOOLEAN]
  <2>1. NoSettings \in SavedSettings /\ rtc.fails \in Nat BY <1>0, ConstantsAssumption
  <2> QED BY <1>0, <1>1, <2>1, BootValues
<1>5. StackAgrees'
  <2>1. CASE PinSet
    <3>1. PICK t \in Over : LockedAt(scenes', 2, t) BY <1>3, <2>1
    <3>2. 2 \in 2 .. Len(scenes') BY <3>1 DEF LockedAt
    <3> QED BY <1>1, <2>1, <3>1, <3>2 DEF StackAgrees
  <2>2. CASE ~PinSet BY <1>1, <1>3, <2>2 DEF StackAgrees
  <2> QED BY <2>1, <2>2
<1>6. LockAgrees' BY <1>0, <1>1, <1>2, <1>4 DEF LockAgrees
<1>7. LockTypeOK' BY <1>0, <1>1, <1>2, <1>3, <1>4 DEF LockTypeOK
<1> QED BY <1>1, <1>5, <1>6, <1>7 DEF LockKept

LEMMA InitLocked ==
  ASSUME Init
  PROVE  LockTypeOK /\ StackAgrees /\ LockAgrees
<1>1. PICK s \in SavedSettings, report \in BOOLEAN :
        /\ rtc \in [lock : Pins, fails : {0}, pin : Pins] /\ rtc.lock = PinSet
        /\ scenes = BootScenes(0, report) /\ view = BootView(0) /\ penalty = BootPenalty(0)
        /\ locked = PinSet /\ lockdown = PinSet /\ cli = ~PinSet
  BY DEF Init
<1>2. /\ rtc \in [lock : BOOLEAN, fails : Nat, pin : BOOLEAN] /\ PinSet \in BOOLEAN
      /\ rtc.lock = PinSet
  BY <1>1, ConstantsAssumption DEF PinSet
<1>3. /\ scenes \in Seq(Scene) /\ scenes # <<>> /\ scenes[1] = "Main"
      /\ PinSet => \E t \in Over : LockedAt(scenes, 2, t)
      /\ ~PinSet => \A i \in 1 .. Len(scenes) : scenes[i] \notin LockScene
  BY <1>1, <1>2, StackBooted
<1>4. /\ view \in View /\ (~PinSet => view.state = "Unlocked")
      /\ PinSet => view.pin = PinSet /\ view.state \in {"Locked", "DoorsClosing"}
      /\ penalty \in [timer : {"on", "off"}, due : BOOLEAN]
  BY <1>1, <1>2, BootValues
<1>5. StackAgrees
  <2>1. CASE PinSet
    <3>1. PICK t \in Over : LockedAt(scenes, 2, t) BY <1>3, <2>1
    <3>2. 2 \in 2 .. Len(scenes) BY <3>1 DEF LockedAt
    <3> QED BY <1>1, <2>1, <3>1, <3>2 DEF StackAgrees
  <2>2. CASE ~PinSet BY <1>1, <1>3, <2>2 DEF StackAgrees
  <2> QED BY <2>1, <2>2
<1>6. LockAgrees BY <1>1, <1>2, <1>4 DEF LockAgrees
<1>7. LockTypeOK BY <1>1, <1>2, <1>3, <1>4 DEF LockTypeOK
<1> QED BY <1>5, <1>6, <1>7

-----------------------------------------------------------------------------
(* Keys                                                                      *)

\* The events of the lines are the first six of the enumeration.
LEMMA Lines ==
  ASSUME NEW i \in 1 .. 6
  PROVE  IndexEvents[i] \in {"Lock", "OpenLockMenu", "FavoriteLeftShort", "FavoriteLeftLong",
                             "FavoriteRightShort", "FavoriteRightLong"}
<1>1. i = 1 \/ i = 2 \/ i = 3 \/ i = 4 \/ i = 5 \/ i = 6 OBVIOUS
<1> QED BY <1>1 DEF IndexEvents

\* What a key may post, by the scene on top.
LEMMA KeyPosts ==
  ASSUME DesktopTypeOK, NEW e \in (KeyEvents(Top) \cap Inputs) \cup LineEvents(Top)
  PROVE  /\ e \in UserEvents \ {"PinFailed", "LockedUnlocked", "ShowPinInput"}
         /\ Top \in LockScene \cup {"Boot"} => e \in {"PinBack", "PinUnlocked", "BootExit"}
         /\ e = "PinUnlocked" => Top = "PinInput"
         /\ e \in {"DummyModeOn", "DummyModeOff", "InteractAnimation"} => e \in Inputs
<1> DEFINE Indices == {"Lock", "OpenLockMenu", "FavoriteLeftShort", "FavoriteLeftLong",
                       "FavoriteRightShort", "FavoriteRightLong"}
<1>0. Top \in Scene /\ Len(shown) \in Nat /\ Len(shown) =< RecentMax
  BY TopAt DEF DesktopTypeOK, RestTypeOK
<1>1. Indices \subseteq Range(IndexEvents)
  <2>1. /\ DOMAIN IndexEvents = 1 .. 6
        /\ IndexEvents[1] = "Lock" /\ IndexEvents[2] = "OpenLockMenu"
        /\ IndexEvents[3] = "FavoriteLeftShort" /\ IndexEvents[4] = "FavoriteLeftLong"
        /\ IndexEvents[5] = "FavoriteRightShort" /\ IndexEvents[6] = "FavoriteRightLong"
    BY DEF IndexEvents
  <2>2. \A x \in Indices : \E i \in 1 .. 6 : IndexEvents[i] = x BY <2>1
  <2> QED BY <2>1, <2>2 DEF Range
<1>2. CASE e \in LineEvents(Top)
  <2>1. Top \in {"Favorites", "Recent"} BY <1>2 DEF LineEvents
  <2>2. e \in Indices
    <3>1. PICK i \in 1 .. 6 : e = IndexEvents[i]
      <4>1. CASE Top = "Favorites"
        <5>1. PICK i \in 1 .. Favorites : e = IndexEvents[i] BY <1>2, <4>1 DEF LineEvents
        <5>2. i \in 1 .. 6 BY ConstantsAssumption
        <5> QED BY <5>1, <5>2
      <4>2. CASE Top = "Recent"
        <5>1. PICK i \in 1 .. Len(shown) : e = IndexEvents[i] BY <1>2, <4>2 DEF LineEvents
        <5>2. i \in 1 .. 6 BY <1>0, ConstantsAssumption
        <5> QED BY <5>1, <5>2
      <4> QED BY <2>1, <4>1, <4>2
    <3> QED BY <3>1, Lines
  <2>3. e \in Event BY <1>1, <2>2 DEF Event
  <2>4. e \notin GlobalEvents BY <2>2 DEF GlobalEvents
  <2> QED BY <2>1, <2>2, <2>3, <2>4 DEF UserEvents, LockScene
<1>3. CASE e \in KeyEvents(Top) \cap Inputs
  <2>0. "Lock" \in Event /\ "OpenLockMenu" \in Event BY <1>1 DEF Event
  <2>1. CASE Top = "Main"
    <3>1. e \in {"OpenMenu", "OpenFavorites", "OpenLockMenu", "Lock", "OpenDebug",
                 "OpenRecent", "OpenPowerOff", "FavoriteLeftShort", "FavoriteLeftLong",
                 "FavoriteRightLong", "InteractAnimation", "DummyOpen", "DummyUpLong"}
      BY <1>3, <2>1 DEF KeyEvents
    <3>2. e \in Event BY <2>0, <3>1 DEF Event, LaunchEvents, AnimationEvents
    <3> QED BY <1>3, <2>1, <3>1, <3>2 DEF UserEvents, GlobalEvents, LockScene
  <2>2. CASE Top # "Main"
    <3>1. \/ Top = "LockMenu" /\ e \in {"LockMenuToggle", "OpenQuickSettings", "DummyModeOn",
                                        "DummyModeOff"}
          \/ Top = "QuickSettings" /\ e = "QuickSettingsClose"
          \/ Top = "Debug" /\ e = "DebugExit"
          \/ Top = "PinInput" /\ e \in {"PinBack", "PinUnlocked"}
          \/ Top = "Boot" /\ e = "BootExit"
      BY <1>0, <1>3, <2>2 DEF KeyEvents, Scene
    <3>2. e \in Event BY <3>1 DEF Event
    <3> QED BY <1>3, <3>1, <3>2 DEF UserEvents, GlobalEvents, LockScene
  <2> QED BY <2>1, <2>2
<1> QED BY <1>2, <1>3

-----------------------------------------------------------------------------
(* Values of the variables                                                   *)

AutoLockState == [timer : {"on", "off"}, sub : {"on", "off"}]

LEMMA AutoLockOK ==
  ASSUME autoLock \in AutoLockState
  PROVE  /\ \A d : Arm(d) \in AutoLockState
         /\ Inhibit \in AutoLockState
         /\ Pressed => autoLock' \in AutoLockState
  BY DEF Arm, Inhibit, Pressed, AutoLockState

\* What the animation manager makes of an animation.
LEMMA AnimOK ==
  ASSUME NEW a \in Anim
  PROVE  /\ NewIdle(a) \in Anim /\ Blockings(a) \subseteq Anim /\ Continued(a) \subseteq Anim
         /\ Stalled(a) \in Anim /\ Checked(a) \subseteq Anim /\ Renewed(a) \in Anim
         /\ Interacted(a) \subseteq Anim
         /\ \A d \in {"off", "on"} : AnimDummy(a, d) \in Anim
<1>1. NewIdle(a) \in Anim BY DEF NewIdle, Anim
<1>2. ASSUME NEW b \in Anim PROVE NewIdle(b) \in Anim /\ Blockings(b) \subseteq Anim
  <2>1. NewIdle(b) \in Anim BY DEF NewIdle, Anim
  <2>2. ASSUME NEW m \in {b.mail, "pending"}
        PROVE  [b EXCEPT !.state = "Blocked", !.loaded = TRUE, !.mail = m] \in Anim
    <3>1. m \in {"none", "pending", "active"} BY DEF Anim
    <3> QED BY <3>1 DEF Anim
  <2> QED BY <2>1, <2>2 DEF Blockings
<1>3. [a EXCEPT !.frozen = FALSE] \in Anim BY DEF Anim
<1>4. ASSUME NEW b \in Anim PROVE [b EXCEPT !.state = "Blocked", !.loaded = TRUE] \in Anim
  BY DEF Anim
<1>5. Continued(a) \subseteq Anim BY <1>2, <1>3, <1>4 DEF Continued
<1>6. Stalled(a) \in Anim BY DEF Stalled, Anim
<1>7. Checked(a) \subseteq Anim /\ Renewed(a) \in Anim BY <1>1, <1>2 DEF Checked, Renewed
<1>8. Interacted(a) \subseteq Anim
  <2>1. /\ [a EXCEPT !.mail = "active"] \in Anim
        /\ [NewIdle(a) EXCEPT !.mail = "none", !.forced = a.forced \/ a.frozen] \in Anim
    BY <1>1 DEF Anim
  <2>2. CASE a.mail = "pending" BY <2>1, <2>2 DEF Interacted
  <2>3. CASE a.mail = "active" BY <2>1, <2>3 DEF Interacted
  <2>4. CASE a.mail \notin {"pending", "active"} BY <1>1, <1>2, <2>4 DEF Interacted
  <2> QED BY <2>2, <2>3, <2>4
<1>9. ASSUME NEW d \in {"off", "on"} PROVE AnimDummy(a, d) \in Anim
  BY <1>1 DEF AnimDummy, Anim
<1> QED BY <1>1, <1>2, <1>5, <1>6, <1>7, <1>8, <1>9

\* desktop_recent_apps_push keeps the list within its size.
LEMMA PushOK ==
  ASSUME NEW r \in Seq(Names), Len(r) =< RecentMax, NEW n \in Names \cup {NoName}
  PROVE  Push(r, n) \in Seq(Names) /\ Len(Push(r, n)) =< RecentMax
<1>1. CASE n = NoName \/ (r # <<>> /\ r[1] = n) BY <1>1 DEF Push
<1>2. CASE ~(n = NoName \/ (r # <<>> /\ r[1] = n))
  <2> DEFINE q == <<n>> \o r
             m == Min({RecentMax, Len(r) + 1})
  <2>1. n \in Names /\ Len(r) \in Nat /\ RecentMax \in Nat \ {0} BY <1>2, ConstantsAssumption
  <2>2. q \in Seq(Names) /\ Len(q) = Len(r) + 1
    <3>1. <<n>> \in Seq(Names) /\ Len(<<n>>) = 1 BY <2>1
    <3> QED BY <2>1, <3>1, ConcatAt
  <2>3. m \in {RecentMax, Len(r) + 1} /\ m =< RecentMax /\ m =< Len(r) + 1
    <3>1. \E x \in {RecentMax, Len(r) + 1} : \A y \in {RecentMax, Len(r) + 1} : x =< y
      BY <2>1
    <3> QED BY <3>1 DEF Min
  <2>4. Push(r, n) = SubSeq(q, 1, m) BY <1>2 DEF Push
  <2> HIDE DEF q, m
  <2>5. m \in 1 .. Len(q) BY <2>1, <2>2, <2>3
  <2>6. SubSeq(q, 1, m) \in Seq(Names) /\ Len(SubSeq(q, 1, m)) = m BY <2>2, <2>5, PrefixAt
  <2> QED BY <2>1, <2>3, <2>4, <2>6
<1> QED BY <1>1, <1>2

-----------------------------------------------------------------------------
(* The lock, step by step                                                    *)

\* A step that leaves the lock alone.
LEMMA LockFrame ==
  ASSUME LockInv, UNCHANGED <<locked, lockdown, cli, rtc, view, scenes>>,
         penalty' \in [timer : {"on", "off"}, due : BOOLEAN],
         halted' \notin {"lock", "unlock"}, Running' => Running
  PROVE  LockKept
<1>1. LockTypeOK' BY DEF LockInv, DesktopTypeOK, LockTypeOK
<1>2. ASSUME Running' PROVE StackAgrees' /\ LockAgrees'
  <2>1. StackAgrees /\ LockAgrees /\ PinSet' = PinSet BY <1>2 DEF LockInv, PinSet
  <2>2. StackAgrees' BY <2>1 DEF StackAgrees, LockedAt
  <2>3. LockAgrees' BY <2>1 DEF LockAgrees
  <2> QED BY <2>2, <2>3
<1> QED BY <1>1, <1>2 DEF LockKept

\* A step that moves between scenes.
LEMMA LockMove ==
  ASSUME LockInv, Running, SceneMove, EnteredOK, UNCHANGED <<locked, lockdown, cli, rtc, view>>,
         halted' \notin {"lock", "unlock"}
  PROVE  LockKept
<1>0. LockTypeOK /\ StackAgrees /\ LockAgrees BY DEF LockInv, DesktopTypeOK
<1>1. LockTypeOK' BY <1>0, SceneMoveTyped DEF LockTypeOK, EnteredOK
<1>2. StackAgrees' BY <1>0, SceneMoveAgrees
<1>3. LockAgrees' BY <1>0 DEF LockAgrees, PinSet
<1> QED BY <1>1, <1>2, <1>3 DEF LockKept

\* A step that only changes the locked view.
LEMMA LockView ==
  ASSUME LockInv, Running, UNCHANGED <<locked, lockdown, cli, rtc, scenes, penalty, halted>>,
         view' \in View, view'.pin = view.pin,
         locked => view'.state \in {"Locked", "DoorsClosing", "LockedHint"},
         ~locked => view'.state \in {"Unlocked", "UnlockedHint"}
  PROVE  LockKept
<1>0. LockTypeOK /\ StackAgrees /\ LockAgrees BY DEF LockInv, DesktopTypeOK
<1>1. LockTypeOK' BY <1>0 DEF LockTypeOK
<1>2. StackAgrees' BY <1>0 DEF StackAgrees, LockedAt
<1>3. LockAgrees' BY <1>0 DEF LockAgrees, PinSet
<1> QED BY <1>1, <1>2, <1>3 DEF LockKept, LockInv

LEMMA UserStep ==
  ASSUME LockInv, User
  PROVE  LockInv'
<1>0. /\ DesktopTypeOK /\ LockTypeOK /\ RestTypeOK /\ halted \notin {"lock", "unlock"}
      /\ events \in Seq(Event) /\ autoLock \in AutoLockState /\ view \in View
      /\ penalty \in [timer : {"on", "off"}, due : BOOLEAN]
      /\ rtc \in [lock : BOOLEAN, fails : Nat, pin : BOOLEAN]
  BY DEF LockInv, DesktopTypeOK, LockTypeOK, RestTypeOK, AutoLockState
<1>1. Pressed /\ Running /\ UNCHANGED <<locked, lockdown, cli, halted, appVars, loaderVars, settings, anim>>
  BY DEF User, Key, KeyBack, WrongPin, LockedKey, lockVars
<1>2. autoLock' \in AutoLockState BY <1>0, <1>1, AutoLockOK
<1>3. StackAgrees /\ LockAgrees BY <1>1 DEF LockInv
<1>4. ASSUME LockKept, events' \in Seq(Event), shown' \in Seq(Names), Len(shown') =< RecentMax
      PROVE  LockInv'
  <2>1. RestTypeOK'
    BY <1>0, <1>1, <1>2, <1>4 DEF RestTypeOK, appVars, loaderVars, announced, AutoLockState
  <2> QED BY <1>4, <2>1 DEF LockKept, LockInv, DesktopTypeOK
<1>5. shown \in Seq(Names) /\ Len(shown) =< RecentMax BY <1>0 DEF RestTypeOK
<1>6. CASE Key
  <2>1. PICK e \in (KeyEvents(Top) \cap Inputs) \cup LineEvents(Top) : Post(e) BY <1>6 DEF Key
  <2>2. e \in Event BY <1>0, <2>1, KeyPosts DEF UserEvents
  <2>3. events' \in Seq(Event) BY <1>0, <2>1, <2>2 DEF Post
  <2>4. UNCHANGED <<rtc, scenes, shown, penalty>> /\ view' = HintDropped
    BY <1>6 DEF Key, lockVars, sceneVars
  <2>5. /\ view' \in View /\ view'.pin = view.pin
        /\ \/ view'.state = view.state
           \/ view.state = "UnlockedHint" /\ view'.state = "Unlocked"
    <3>1. CASE UNCHANGED view BY <1>0, <3>1
    <3>2. CASE view.state = "UnlockedHint" /\ view' = [view EXCEPT !.state = "Unlocked"]
      BY <1>0, <3>2 DEF View
    <3> QED BY <2>4, <3>1, <3>2 DEF HintDropped
  <2>6. LockKept BY <1>1, <1>3, <2>4, <2>5, LockView DEF LockAgrees
  <2> QED BY <1>4, <1>5, <2>3, <2>4, <2>6
<1>7. CASE KeyBack
  <2>1. SceneMove /\ EnteredOK BY <1>0, <1>7, MovesScenes
  <2>2. UNCHANGED <<rtc, view, events>> BY <1>7 DEF KeyBack, lockVars
  <2>3. LockKept BY <1>0, <1>1, <2>1, <2>2, LockMove
  <2> QED BY <1>0, <1>4, <2>1, <2>2, <2>3 DEF EnteredOK
<1>8. CASE WrongPin
  <2>1. /\ rtc' = [rtc EXCEPT !.fails = rtc.fails + 1] /\ UNCHANGED <<scenes, shown, view>>
        /\ \E d \in BOOLEAN : penalty' = [penalty EXCEPT !.due = d]
        /\ Post("PinFailed")
    <3>1. FailTimeout(rtc.fails + 1) \in BOOLEAN /\ penalty.due \in BOOLEAN
      BY <1>0 DEF FailTimeout
    <3> QED BY <1>8, <3>1 DEF WrongPin
  <2>2. /\ rtc' \in [lock : BOOLEAN, fails : Nat, pin : BOOLEAN] /\ rtc'.lock = rtc.lock
        /\ rtc'.pin = rtc.pin
    BY <1>0, <2>1
  <2>3. penalty' \in [timer : {"on", "off"}, due : BOOLEAN] BY <1>0, <2>1
  <2>4. LockTypeOK' BY <1>0, <1>1, <2>1, <2>2, <2>3 DEF LockTypeOK
  <2>5. StackAgrees' BY <1>1, <1>3, <2>1 DEF StackAgrees, LockedAt
  <2>6. LockAgrees' BY <1>1, <1>3, <2>1, <2>2 DEF LockAgrees, PinSet
  <2>7. "PinFailed" \in Event BY DEF Event
  <2>8. events' \in Seq(Event) BY <1>0, <2>1, <2>7 DEF Post
  <2> QED BY <1>0, <1>1, <1>4, <1>5, <2>1, <2>4, <2>5, <2>6, <2>8 DEF LockKept
<1>9. CASE LockedKey
  <2>1. UNCHANGED <<rtc, scenes, shown, penalty>> /\ Top = "Locked"
    BY <1>9 DEF LockedKey, lockVars, sceneVars
  <2>2. locked
    <3>1. Top \in LockScene /\ Len(scenes) \in 1 .. Len(scenes) /\ Top = scenes[Len(scenes)]
      BY <1>0, <2>1, TopAt DEF LockScene
    <3> QED BY <1>3, <3>1 DEF StackAgrees
  <2>3. "ShowPinInput" \in Event /\ "LockedUnlocked" \in Event BY DEF Event
  <2>4. events' \in Seq(Event)
    <3>1. events' = events \/ \E e \in Event : events' = Append(events, e)
      BY <1>9, <2>3 DEF LockedKey, Post
    <3> QED BY <1>0, <3>1, AppendAt
  <2>5. /\ view' \in View /\ view'.pin = view.pin /\ view'.state \in {view.state, "LockedHint"}
    <3>1. CASE UNCHANGED view BY <1>0, <3>1
    <3>2. ASSUME NEW n \in {0, 1, view.count + 1},
                 view' = [view EXCEPT !.state = "LockedHint", !.timer = "on", !.count = n]
          PROVE  /\ view' \in View /\ view'.pin = view.pin
                 /\ view'.state \in {view.state, "LockedHint"}
      <4>1. view.count \in Nat BY <1>0 DEF View
      <4>2. n \in Nat BY <4>1
      <4> QED BY <1>0, <3>2, <4>2 DEF View
    <3> QED BY <1>9, <3>1, <3>2 DEF LockedKey
  <2>6. LockKept BY <1>1, <1>3, <2>1, <2>2, <2>5, LockView DEF LockAgrees
  <2> QED BY <1>4, <1>5, <2>1, <2>4, <2>6
<1> QED BY <1>6, <1>7, <1>8, <1>9 DEF User

\* A step that leaves the lock's variables alone keeps LockInv.
LEMMA FrameKept ==
  ASSUME LockInv, Running, UNCHANGED <<lockVars, sceneVars, view>>,
         halted' \notin {"lock", "unlock"}, RestTypeOK'
  PROVE  LockInv'
<1>1. penalty' \in [timer : {"on", "off"}, due : BOOLEAN]
  BY DEF LockInv, DesktopTypeOK, LockTypeOK, sceneVars
<1>2. LockKept BY <1>1, LockFrame DEF lockVars, sceneVars
<1> QED BY <1>2 DEF LockKept, LockInv, DesktopTypeOK

LEMMA PostOK ==
  ASSUME RestTypeOK, NEW e \in Event, Post(e)
  PROVE  events' \in Seq(Event)
  BY AppendAt DEF RestTypeOK, Post

\* What a handler leaves in the queue.
LEMMA TailOK ==
  ASSUME RestTypeOK, events # <<>>
  PROVE  Tail(events) \in Seq(Event) /\ Head(events) \in Event
  BY TailAt DEF RestTypeOK

\* All but the loader's queue.
deskVars == <<events, lockVars, sceneVars, appVars, announced, view, autoLock, settings, anim,
              halted>>

\* Messages of others come and go in the loader's queue, unseen by the desktop.
LEMMA QuietSteps ==
  ASSUME OtherPuts \/ LoaderServes \/ UNCHANGED vars
  PROVE  UNCHANGED deskVars
  BY DEF OtherPuts, LoaderServes, vars, deskVars, loaderVars

LEMMA LockStutters ==
  ASSUME LockInv, UNCHANGED deskVars
  PROVE  LockInv'
<1>1. UNCHANGED <<locked, lockdown, cli, rtc, view, scenes, shown, penalty, halted, events,
                  appRunning, recent, semaphore, pendingName, loader, history, autoLock,
                  settings, anim>>
  BY DEF deskVars, lockVars, sceneVars, appVars, announced
<1>2. RestTypeOK' BY <1>1 DEF LockInv, DesktopTypeOK, RestTypeOK
<1>3. LockKept
  <2>1. penalty' \in [timer : {"on", "off"}, due : BOOLEAN] /\ halted' \notin {"lock", "unlock"}
    BY <1>1 DEF LockInv, DesktopTypeOK, LockTypeOK
  <2>2. Running' => Running BY <1>1 DEF Running
  <2> QED BY <1>1, <2>1, <2>2, LockFrame
<1> QED BY <1>2, <1>3 DEF LockKept, LockInv, DesktopTypeOK

LEMMA EnvironmentStep ==
  ASSUME LockInv, Environment
  PROVE  LockInv'
<1>0. DesktopTypeOK /\ LockTypeOK /\ RestTypeOK /\ halted \notin {"lock", "unlock"}
  BY DEF LockInv, DesktopTypeOK
<1>e. /\ {"BeforeAppStarted", "AfterAppFinished", "SaveSettings", "ApiUnlock", "ReloadSettings",
          "NewIdleAnimation", "CheckAnimation", "PinBack", "LockedUpdate", "AutoLock",
          "PinTimeoutExit"} \subseteq Event
  BY DEF Event, GlobalEvents, AnimationEvents
<1>8. CASE OtherPuts \/ LoaderServes BY <1>8, QuietSteps, LockStutters
<1>9. CASE LoaderGivesUp
  <2>1. RestTypeOK'
    BY <1>0, <1>9 DEF LoaderGivesUp, RestTypeOK, appVars, sceneVars, loaderVars, announced
  <2> QED BY <1>9, <2>1, FrameKept DEF LoaderGivesUp, Crash
<1>1. CASE LoaderBeforeLoad
  <2>1. PICK n \in Names : pendingName' = n /\ history' = Append(history, n)
    BY <1>1 DEF LoaderBeforeLoad
  <2>2. events' \in Seq(Event) /\ loader' = "waiting" BY <1>0, <1>1, <1>e, PostOK DEF LoaderBeforeLoad
  <2>3. history' \in Seq(Names) BY <1>0, <2>1, AppendAt DEF RestTypeOK
  <2>4. RestTypeOK'
    BY <1>0, <1>1, <2>1, <2>2, <2>3 DEF LoaderBeforeLoad, RestTypeOK, appVars, sceneVars
  <2> QED BY <1>0, <1>1, <2>4, FrameKept DEF LoaderBeforeLoad
<1>2. CASE LoaderNoMoreApps
  <2>1. events' \in Seq(Event) /\ loader' = "idle" BY <1>0, <1>2, <1>e, PostOK DEF LoaderNoMoreApps
  <2>2. RestTypeOK' BY <1>0, <1>2, <2>1 DEF LoaderNoMoreApps, RestTypeOK, appVars, sceneVars
  <2> QED BY <1>0, <1>2, <2>2, FrameKept DEF LoaderNoMoreApps
<1>3. CASE SetSettings
  <2>1. PICK d \in {s.delay : s \in SavedSettings} : settings' = [settings EXCEPT !.delay = d]
    BY <1>3 DEF SetSettings
  <2>2. d \in {0, 10} BY ConstantsAssumption DEF Settings
  <2>3. settings' \in Settings BY <1>0, <2>1, <2>2 DEF RestTypeOK, Settings
  <2>4. events' \in Seq(Event) BY <1>0, <1>3, <1>e, PostOK DEF SetSettings
  <2>5. RestTypeOK'
    BY <1>0, <1>3, <2>3, <2>4 DEF SetSettings, RestTypeOK, appVars, sceneVars, loaderVars, announced
  <2> QED BY <1>0, <1>3, <2>5, FrameKept DEF SetSettings
<1>4. CASE SetPin
  <2>1. /\ Running /\ ~lockdown /\ rtc' = [rtc EXCEPT !.pin = ~rtc.pin]
        /\ UNCHANGED <<events, locked, lockdown, cli, sceneVars, appVars, loaderVars, view,
                       autoLock, settings, anim, halted>>
    BY <1>4 DEF SetPin
  <2>2. rtc' \in [lock : BOOLEAN, fails : Nat, pin : BOOLEAN] BY <1>0, <2>1 DEF LockTypeOK
  <2>3. LockTypeOK' BY <1>0, <2>1, <2>2 DEF LockTypeOK, sceneVars
  <2>4. RestTypeOK' BY <1>0, <2>1 DEF RestTypeOK, appVars, sceneVars, loaderVars, announced
  <2>5. StackAgrees /\ LockAgrees /\ ~locked BY <2>1 DEF LockInv, LockAgrees
  <2>6. StackAgrees' BY <2>1, <2>5 DEF StackAgrees, sceneVars
  <2>7. LockAgrees' BY <2>1, <2>5 DEF LockAgrees
  <2> QED BY <1>0, <2>1, <2>3, <2>4, <2>6, <2>7 DEF LockInv, DesktopTypeOK
<1>5. CASE Reported \/ PinIdle \/ LockedTimer
  <2>1. /\ \E e \in Event : Post(e)
        /\ Running
        /\ UNCHANGED <<lockVars, sceneVars, appVars, loaderVars, view, autoLock,
                       settings, anim, halted>>
    BY <1>5, <1>e DEF Reported, PinIdle, LockedTimer
  <2>2. events' \in Seq(Event) BY <1>0, <2>1, PostOK
  <2>3. RestTypeOK' BY <1>0, <2>1, <2>2 DEF RestTypeOK, appVars, sceneVars, loaderVars, announced
  <2> QED BY <1>0, <2>1, <2>3, FrameKept
<1>6. CASE AutoLockTimer
  <2>1. events' \in Seq(Event) BY <1>0, <1>6, <1>e, PostOK DEF AutoLockTimer
  <2>2. autoLock' \in AutoLockState
    BY <1>0, <1>6 DEF AutoLockTimer, RestTypeOK, AutoLockState
  <2>3. RestTypeOK'
    BY <1>0, <1>6, <2>1, <2>2
    DEF AutoLockTimer, RestTypeOK, AutoLockState, appVars, sceneVars, loaderVars, announced
  <2> QED BY <1>0, <1>6, <2>3, FrameKept DEF AutoLockTimer
<1>7. CASE Reboot
  <2>1. PICK s \in SavedSettings : /\ settings' = s /\ autoLock' = BootAutoLock(s, FALSE)
                                   /\ anim' = BootAnim(s, FALSE)
    BY <1>7 DEF Reboot
  <2>2. PinSet \in BOOLEAN /\ rtc.fails \in Nat BY <1>0 DEF LockTypeOK, PinSet
  <2>3. /\ autoLock' \in [timer : {"on", "off"}, sub : {"on", "off"}]
        /\ anim' \in Anim /\ settings' \in Settings
    BY <2>1, <2>2, BootValues
  <2>4. /\ <<>> \in Seq(Event) /\ <<>> \in Seq(Names) /\ Len(<<>>) =< RecentMax
    BY ConstantsAssumption
  <2>5. RestTypeOK' BY <1>7, <2>3, <2>4 DEF Reboot, RestTypeOK
  <2> QED BY <1>7, <2>5, BootLocked DEF LockKept, LockInv, DesktopTypeOK
<1> QED BY <1>1, <1>2, <1>3, <1>4, <1>5, <1>6, <1>7, <1>8, <1>9 DEF Environment, LoaderSteps

LEMMA OtherStep ==
  ASSUME LockInv, LoaderAcquire \/ PinTimeoutTimer
  PROVE  LockInv'
<1>0. DesktopTypeOK /\ LockTypeOK /\ RestTypeOK /\ halted \notin {"lock", "unlock"}
  BY DEF LockInv, DesktopTypeOK
<1>1. CASE LoaderAcquire
  <2>1. RestTypeOK' BY <1>0, <1>1 DEF LoaderAcquire, RestTypeOK, sceneVars
  <2> QED BY <1>0, <1>1, <2>1, FrameKept DEF LoaderAcquire
<1>2. CASE PinTimeoutTimer
  <2>1. "PinTimeoutExit" \in Event BY DEF Event
  <2>2. events' \in Seq(Event) BY <1>0, <1>2, <2>1, PostOK DEF PinTimeoutTimer
  <2>3. RestTypeOK'
    BY <1>0, <1>2, <2>2 DEF PinTimeoutTimer, RestTypeOK, appVars, loaderVars, announced
  <2>4. penalty' \in [timer : {"on", "off"}, due : BOOLEAN] BY <1>2 DEF PinTimeoutTimer
  <2>5. LockKept BY <1>0, <1>2, <2>4, LockFrame DEF PinTimeoutTimer, lockVars, Running
  <2> QED BY <2>3, <2>5 DEF LockKept, LockInv, DesktopTypeOK
<1> QED BY <1>1, <1>2

LEMMA GlobalStep ==
  ASSUME LockInv, Running, events # <<>>, NEW e, HandleGlobal(e), events' = Tail(events),
         UNCHANGED announced
  PROVE  LockInv'
<1>0. /\ DesktopTypeOK /\ LockTypeOK /\ RestTypeOK /\ halted \notin {"lock", "unlock"}
      /\ autoLock \in AutoLockState /\ anim \in Anim /\ settings \in Settings
      /\ appRunning \in BOOLEAN /\ semaphore \in {0, 1}
      /\ recent \in Seq(Names) /\ Len(recent) =< RecentMax
      /\ shown \in Seq(Names) /\ Len(shown) =< RecentMax
      /\ pendingName \in Names \cup {NoName}
  BY DEF LockInv, DesktopTypeOK, RestTypeOK, AutoLockState
<1>1. events' \in Seq(Event) BY <1>0, TailOK
<1>2. ASSUME autoLock' \in AutoLockState, anim' \in Anim, settings' \in Settings,
             appRunning' \in BOOLEAN, semaphore' \in {0, 1},
             recent' \in Seq(Names), Len(recent') =< RecentMax,
             shown' \in Seq(Names), Len(shown') =< RecentMax
      PROVE  RestTypeOK'
  BY <1>0, <1>1, <1>2 DEF RestTypeOK, AutoLockState, loaderVars, announced
<1>3. CASE e = "BeforeAppStarted" /\ BeforeAppStarted /\ UNCHANGED <<lockVars, sceneVars, view, settings>>
  <2>1. CASE halted' = "animation" /\ UNCHANGED <<anim, autoLock, appVars>>
    <3>1. RestTypeOK' BY <1>0, <1>2, <1>3, <2>1 DEF appVars, sceneVars
    <3> QED BY <1>3, <2>1, <3>1, FrameKept
  <2>2. CASE /\ anim' = IF anim.loaded THEN Stalled(anim) ELSE anim
             /\ autoLock' = Inhibit /\ appRunning' = TRUE
             /\ recent' = Push(recent, pendingName) /\ semaphore' = 1 /\ UNCHANGED halted
    <3>1. anim' \in Anim BY <1>0, <2>2, AnimOK
    <3>2. autoLock' \in AutoLockState BY <1>0, <2>2, AutoLockOK
    <3>3. recent' \in Seq(Names) /\ Len(recent') =< RecentMax BY <1>0, <2>2, PushOK
    <3>4. RestTypeOK' BY <1>0, <1>2, <1>3, <2>2, <3>1, <3>2, <3>3 DEF sceneVars
    <3> QED BY <1>0, <1>3, <2>2, <3>4, FrameKept
  <2> QED BY <1>3, <2>1, <2>2 DEF BeforeAppStarted, Crash
<1>4. CASE e = "AfterAppFinished" /\ AfterAppFinished /\ UNCHANGED <<lockVars, sceneVars, view, settings>>
  <2>1. CASE halted' = "animation" /\ UNCHANGED <<anim, autoLock, appVars>>
    <3>1. RestTypeOK' BY <1>0, <1>2, <1>4, <2>1 DEF appVars, sceneVars
    <3> QED BY <1>4, <2>1, <3>1, FrameKept
  <2>2. CASE /\ anim' \in Continued(anim) /\ autoLock' = Arm(settings.delay)
             /\ appRunning' = FALSE /\ UNCHANGED <<recent, semaphore, halted>>
    <3>1. anim' \in Anim BY <1>0, <2>2, AnimOK
    <3>2. autoLock' \in AutoLockState BY <1>0, <2>2, AutoLockOK
    <3>3. RestTypeOK' BY <1>0, <1>2, <1>4, <2>2, <3>1, <3>2 DEF sceneVars
    <3> QED BY <1>0, <1>4, <2>2, <3>3, FrameKept
  <2> QED BY <1>4, <2>1, <2>2 DEF AfterAppFinished, Crash
<1>5. CASE /\ e = "AutoLock" /\ UNCHANGED <<appVars, settings, anim>>
           /\ IF AutoLocks THEN DesktopLock
              ELSE UNCHANGED <<lockVars, sceneVars, autoLock, view, halted>>
  <2>1. CASE AutoLocks
    <3>1. LockKept /\ EnteredOK /\ autoLock' = Inhibit
      BY <1>5, <2>1, LockStep DEF AutoLocks
    <3>2. autoLock' \in AutoLockState BY <1>0, <3>1, AutoLockOK
    <3>3. RestTypeOK' BY <1>0, <1>2, <1>5, <3>1, <3>2 DEF appVars, EnteredOK
    <3> QED BY <3>1, <3>3 DEF LockKept, LockInv, DesktopTypeOK
  <2>2. CASE ~AutoLocks
    <3>1. RestTypeOK' BY <1>0, <1>2, <1>5, <2>2 DEF appVars, sceneVars
    <3> QED BY <1>0, <1>5, <2>2, <3>1, FrameKept
  <2> QED BY <2>1, <2>2
<1>6. CASE \E s \in Settings : SettingsChanged(s) /\ UNCHANGED <<lockVars, sceneVars, appVars, view, halted>>
  <2>1. PICK s \in Settings : SettingsChanged(s) /\ UNCHANGED <<lockVars, sceneVars, appVars, view, halted>>
    BY <1>6
  <2>2. settings' = s /\ anim' = AnimDummy(anim, s.dummy)
        /\ (autoLock' = autoLock \/ autoLock' = Arm(s.delay))
    BY <2>1 DEF SettingsChanged, ApplySettings
  <2>3. s.dummy \in {"off", "on"} BY DEF Settings
  <2>4. anim' \in Anim BY <1>0, <2>2, <2>3, AnimOK
  <2>5. autoLock' \in AutoLockState BY <1>0, <2>2, AutoLockOK
  <2>6. RestTypeOK' BY <1>0, <1>2, <2>1, <2>2, <2>4, <2>5 DEF appVars, sceneVars
  <2> QED BY <1>0, <2>1, <2>6, FrameKept
<1> QED
  <2>1. SavedSettings \subseteq Settings BY ConstantsAssumption
  <2> QED BY <1>0, <1>3, <1>4, <1>5, <1>6, <2>1 DEF HandleGlobal

\* The scene on top tells whether the desktop is locked.
LEMMA TopTells ==
  ASSUME LockInv, Running
  PROVE  /\ Top \in LockScene => locked
         /\ Top \notin LockScene \cup {"Boot"} => ~locked
<1>0. LockTypeOK /\ StackAgrees BY DEF LockInv, DesktopTypeOK
<1>1. Top = scenes[Len(scenes)] /\ Len(scenes) \in 1 .. Len(scenes) BY <1>0, TopAt
<1>2. CASE locked
  <2>1. PICK l \in 2 .. Len(scenes), t \in Over : LockedAt(scenes, l, t)
    BY <1>0, <1>2 DEF StackAgrees
  <2>2. Top \in LockScene \cup {"Boot"}
    BY <1>0, <2>1, LockedTop DEF Over, LockScene
  <2> QED BY <1>2, <2>2
<1>3. CASE ~locked BY <1>0, <1>1, <1>3 DEF StackAgrees
<1> QED BY <1>2, <1>3

LEMMA SceneStep ==
  ASSUME LockInv, Running, events # <<>>, NEW e, HandleScene(e)
  PROVE  LockInv'
<1>0. /\ DesktopTypeOK /\ LockTypeOK /\ RestTypeOK /\ halted \notin {"lock", "unlock"}
      /\ autoLock \in AutoLockState /\ anim \in Anim /\ settings \in Settings
      /\ appRunning \in BOOLEAN /\ semaphore \in {0, 1} /\ view \in View
      /\ recent \in Seq(Names) /\ Len(recent) =< RecentMax
      /\ shown \in Seq(Names) /\ Len(shown) =< RecentMax
      /\ LockAgrees
  BY DEF LockInv, DesktopTypeOK, RestTypeOK, LockTypeOK, AutoLockState
<1>1. Tail(events) \in Seq(Event) BY <1>0, TailOK
<1>2. ASSUME events' \in Seq(Event), autoLock' \in AutoLockState, anim' \in Anim,
             settings' \in Settings, shown' \in Seq(Names), Len(shown') =< RecentMax,
             UNCHANGED <<appVars, announced>>
      PROVE  RestTypeOK'
  BY <1>0, <1>2 DEF RestTypeOK, AutoLockState, appVars, loaderVars, announced
<1>3. ASSUME events' = Tail(events), SceneMove, EnteredOK, anim' \in Anim, settings' \in Settings,
             UNCHANGED <<lockVars, appVars, announced, view, autoLock>>,
             halted' \notin {"lock", "unlock"}
      PROVE  LockInv'
  <2>1. RestTypeOK' BY <1>0, <1>1, <1>2, <1>3 DEF EnteredOK
  <2>2. LockKept BY <1>3, LockMove DEF lockVars
  <2> QED BY <2>1, <2>2 DEF LockKept, LockInv, DesktopTypeOK
<1>4. UNCHANGED sceneVars => SceneMove /\ EnteredOK
  BY <1>0, EnterOK DEF SceneMove, sceneVars
<1>5. CASE Navigate(e)
  BY <1>0, <1>3, <1>5, MovesScenes DEF Navigate, rest, loaderVars
<1>6. CASE HandleLock(e)
  <2>1. ~locked BY <1>6, TopTells DEF HandleLock, LockScene
  <2>2. LockKept /\ EnteredOK /\ autoLock' = Inhibit BY <1>6, <2>1, LockStep DEF HandleLock
  <2>3. autoLock' \in AutoLockState BY <1>0, <2>2, AutoLockOK
  <2>4. RestTypeOK' BY <1>0, <1>1, <1>2, <1>6, <2>2, <2>3 DEF HandleLock, rest, loaderVars, EnteredOK
  <2> QED BY <2>2, <2>4 DEF LockKept, LockInv, DesktopTypeOK
<1>7. CASE HandleLaunch(e) BY <1>0, <1>3, <1>4, <1>7 DEF HandleLaunch
<1>8. CASE HandleUnlock(e)
  <2>1. locked BY <1>8, TopTells DEF HandleUnlock, LockScene
  <2>2. LockKept /\ autoLock' = Arm(settings.delay) /\ shown' = <<>>
    BY <1>8, <2>1, UnlockStep DEF HandleUnlock
  <2>3. autoLock' \in AutoLockState BY <1>0, <2>2, AutoLockOK
  <2>4. <<>> \in Seq(Names) /\ Len(<<>>) =< RecentMax BY ConstantsAssumption
  <2>5. RestTypeOK' BY <1>0, <1>1, <1>2, <1>8, <2>2, <2>3, <2>4 DEF HandleUnlock, rest, loaderVars
  <2> QED BY <2>2, <2>5 DEF LockKept, LockInv, DesktopTypeOK
<1>9. CASE HandleUpdate(e)
  <2>1. /\ UNCHANGED <<lockVars, sceneVars, rest, autoLock, anim, halted>>
        /\ view' \in Updated(view)
        /\ events' \in {Append(Tail(events), "DoorsClosed"), Tail(events)}
    BY <1>9 DEF HandleUpdate, UpdateView
  <2>2. events' \in Seq(Event)
    <3>1. "DoorsClosed" \in Event BY DEF Event
    <3> QED BY <1>1, <2>1, <3>1, AppendAt
  <2>3. /\ view' \in View /\ view'.pin = view.pin
        /\ view.state \in {"Unlocked", "UnlockedHint"} => view'.state = "Unlocked"
        /\ view.state \in {"Locked", "DoorsClosing", "LockedHint"} =>
             view'.state \in {"Locked", "DoorsClosing"}
    <3>1. CASE view.state = "DoorsClosing" BY <1>0, <2>1, <3>1 DEF Updated, View
    <3>2. CASE view.state = "LockedHint" BY <1>0, <2>1, <3>2 DEF Updated, View
    <3>3. CASE view.state = "UnlockedHint" BY <1>0, <2>1, <3>3 DEF Updated, View
    <3>4. CASE view.state \in {"Locked", "Unlocked"} BY <1>0, <2>1, <3>4 DEF Updated, View
    <3> QED BY <1>0, <3>1, <3>2, <3>3, <3>4 DEF View
  <2>4. LockKept BY <1>0, <2>1, <2>3, LockView DEF LockAgrees, lockVars, sceneVars
  <2>5. RestTypeOK' BY <1>0, <1>2, <2>1, <2>2 DEF rest, loaderVars, sceneVars
  <2> QED BY <2>4, <2>5 DEF LockKept, LockInv, DesktopTypeOK
<1>10. CASE HandleAnimation(e)
  <2>1. anim' \in Anim BY <1>0, <1>10, AnimOK DEF HandleAnimation
  <2> QED BY <1>0, <1>3, <1>4, <1>10, <2>1 DEF HandleAnimation, rest, loaderVars
<1>11. CASE HandleDummyMode(e)
  <2>1. PICK d \in {"on", "off"} : /\ settings' = [settings EXCEPT !.dummy = d]
                                   /\ anim' = AnimDummy(anim, d)
    BY <1>11 DEF HandleDummyMode
  <2>2. settings' \in Settings BY <1>0, <2>1 DEF Settings
  <2>3. anim' \in Anim BY <1>0, <2>1, AnimOK
  <2> QED BY <1>0, <1>3, <1>11, <2>2, <2>3, MovesScenes DEF HandleDummyMode, loaderVars
<1>12. CASE HandlePinFailed(e)
  BY <1>0, <1>3, <1>12, MovesScenes DEF HandlePinFailed, rest, loaderVars
<1>13. CASE HandleList(e)
  <2>1. halted' \notin {"lock", "unlock"} BY <1>0, <1>13 DEF HandleList, Crash
  <2> QED BY <1>0, <1>3, <1>13, <2>1, MovesScenes DEF HandleList
<1>14. CASE Dropped(e) BY <1>0, <1>3, <1>4, <1>14 DEF Dropped, rest, loaderVars
<1>15. CASE HandleInteract(e)
  <2>1. anim' \in Anim BY <1>0, <1>15, AnimOK DEF HandleInteract
  <2> QED BY <1>0, <1>3, <1>4, <1>15, <2>1 DEF HandleInteract
<1> QED
  BY <1>5, <1>6, <1>7, <1>8, <1>9, <1>10, <1>11, <1>12, <1>13, <1>14, <1>15 DEF HandleScene

LEMMA LockInduction == LockInv /\ [Next]_vars => LockInv'
<1> SUFFICES ASSUME LockInv, [Next]_vars PROVE LockInv' OBVIOUS
<1>1. CASE HandleEvent
  <2>1. /\ Running /\ events # <<>>
        /\ \/ HandleGlobal(Head(events)) /\ events' = Tail(events) /\ UNCHANGED announced
           \/ HandleScene(Head(events))
    BY <1>1 DEF HandleEvent
  <2> QED BY <2>1, GlobalStep, SceneStep
<1> QED BY <1>1, UserStep, EnvironmentStep, OtherStep, QuietSteps, LockStutters DEF Next

LEMMA LockInitially == Init => LockInv
<1> SUFFICES ASSUME Init PROVE LockInv OBVIOUS
<1>1. LockTypeOK /\ StackAgrees /\ LockAgrees BY InitLocked
<1>2. PICK s \in SavedSettings, running \in BOOLEAN :
        /\ settings = s /\ autoLock = BootAutoLock(s, running) /\ anim = BootAnim(s, running)
        /\ appRunning = running /\ loader = IF running THEN "running" ELSE "idle"
  BY DEF Init
<1>3. PinSet \in BOOLEAN /\ rtc.fails \in Nat BY <1>1 DEF LockTypeOK, PinSet
<1>4. /\ autoLock \in [timer : {"on", "off"}, sub : {"on", "off"}]
      /\ anim \in Anim /\ settings \in Settings
  BY <1>2, <1>3, BootValues
<1>5. <<>> \in Seq(Event) /\ <<>> \in Seq(Names) /\ Len(<<>>) =< RecentMax
  BY ConstantsAssumption
<1>6. RestTypeOK BY <1>2, <1>4, <1>5 DEF Init, RestTypeOK
<1> QED BY <1>1, <1>6 DEF Init, LockInv, DesktopTypeOK

\* The lock's variables keep their values and agree after every handler.
THEOREM LockInvariant == Spec => []LockInv
  BY LockInitially, LockInduction, PTL DEF Spec

\* desktop->locked, the scene stack, the lockdown, the backup flag, the CLI and
\* the locked view agree (desktop_lock, desktop_unlock, desktop_srv).
THEOREM LockStateAlwaysAgrees == Spec => []LockStateAgrees
<1>1. LockInv => LockStateAgrees
  <2> SUFFICES ASSUME LockInv, Running PROVE LockStateAgrees BY DEF LockStateAgrees
  <2>1. StackAgrees /\ LockAgrees /\ LockTypeOK /\ locked \in BOOLEAN
    BY DEF LockInv, DesktopTypeOK, LockTypeOK
  <2>2. scenes \in Seq(Scene) /\ DOMAIN scenes = 1 .. Len(scenes) BY <2>1 DEF LockTypeOK
  <2>3. Range(scenes) = {scenes[i] : i \in 1 .. Len(scenes)} BY <2>2 DEF Range
  <2>4. locked => "Locked" \in Range(scenes)
    <3>1. ASSUME locked PROVE \E i \in 1 .. Len(scenes) : scenes[i] = "Locked"
      <4>1. PICK l \in 2 .. Len(scenes), t \in Over : LockedAt(scenes, l, t)
        BY <2>1, <3>1 DEF StackAgrees
      <4>2. l \in 1 .. Len(scenes) /\ scenes[l] = "Locked" BY <2>2, <4>1 DEF LockedAt
      <4> QED BY <4>2
    <3> QED BY <2>3, <3>1
  <2>5. "Locked" \in Range(scenes) => locked BY <2>1, <2>3 DEF StackAgrees, LockScene
  <2>6. locked => Top \in {"Locked", "PinInput", "PinTimeout", "Boot"}
    <3>1. Top \notin LockScene \cup {"Boot"} => ~locked BY TopTells
    <3> QED BY <3>1 DEF LockScene
  <2> QED BY <2>1, <2>4, <2>5, <2>6 DEF LockStateAgrees, LockAgrees
<1> QED BY <1>1, LockInvariant, PTL

\* The assertions that a locked desktop is not locked again and an unlocked one
\* not unlocked never fail (desktop_lock, desktop_unlock).
THEOREM LockAssertsAlwaysHold == Spec => []LockAssertsHold
<1>1. LockInv => LockAssertsHold BY DEF LockInv, LockAssertsHold
<1> QED BY <1>1, LockInvariant, PTL

-----------------------------------------------------------------------------
(* The queue                                                                 *)

LEMMA AppendHas ==
  ASSUME NEW S, NEW s \in Seq(S), NEW e \in S
  PROVE  /\ \A x : Has(Append(s, e), x) <=> Has(s, x) \/ x = e
         /\ \A A : HasNone(Append(s, e), A) <=> HasNone(s, A) /\ e \notin A
         /\ \A A : OneEach(s, A) /\ (e \in A => ~Has(s, e)) => OneEach(Append(s, e), A)
         /\ \A A, B : NotBefore(s, A, B) /\ (e \in B => HasNone(s, A)) => NotBefore(Append(s, e), A, B)
<1> DEFINE r == Append(s, e)
<1>1. /\ Len(r) = Len(s) + 1 /\ Len(s) \in Nat /\ r[Len(s) + 1] = e
      /\ \A i \in 1 .. Len(s) : r[i] = s[i]
  BY AppendAt
<1> HIDE DEF r
<1>2. \A i \in 1 .. Len(r) : i \in 1 .. Len(s) \/ i = Len(s) + 1 BY <1>1
<1>3. \A i \in 1 .. Len(s) : i \in 1 .. Len(r) BY <1>1
<1>4. Len(s) + 1 \in 1 .. Len(r) BY <1>1
<1>5. \A x : Has(r, x) <=> Has(s, x) \/ x = e BY <1>1, <1>2, <1>3, <1>4 DEF Has
<1>6. \A A : HasNone(r, A) <=> HasNone(s, A) /\ e \notin A
  BY <1>1, <1>2, <1>3, <1>4 DEF HasNone
<1>7. ASSUME NEW A, OneEach(s, A), e \in A => ~Has(s, e) PROVE OneEach(r, A)
  <2> SUFFICES ASSUME NEW i \in 1 .. Len(r), NEW j \in 1 .. Len(r), r[i] = r[j], r[i] \in A
               PROVE  i = j
    BY DEF OneEach
  <2>1. CASE i \in 1 .. Len(s) /\ j \in 1 .. Len(s) BY <1>1, <1>7, <2>1 DEF OneEach
  <2>2. CASE i = Len(s) + 1 /\ j \in 1 .. Len(s) BY <1>1, <1>7, <2>2 DEF Has
  <2>3. CASE j = Len(s) + 1 /\ i \in 1 .. Len(s) BY <1>1, <1>7, <2>3 DEF Has
  <2> QED BY <1>2, <2>1, <2>2, <2>3
<1>8. ASSUME NEW A, NEW B, NotBefore(s, A, B), e \in B => HasNone(s, A) PROVE NotBefore(r, A, B)
  <2> SUFFICES ASSUME NEW i \in 1 .. Len(r), NEW j \in 1 .. Len(r), i < j, r[i] \in A
               PROVE  r[j] \notin B
    BY DEF NotBefore
  <2>1. i \in 1 .. Len(s) BY <1>1, <1>2
  <2>2. CASE j \in 1 .. Len(s) BY <1>1, <1>8, <2>1, <2>2 DEF NotBefore
  <2>3. CASE j = Len(s) + 1 BY <1>1, <1>8, <2>1, <2>3 DEF HasNone
  <2> QED BY <1>2, <2>2, <2>3
<1> QED BY <1>5, <1>6, <1>7, <1>8 DEF r

LEMMA TailHas ==
  ASSUME NEW S, NEW s \in Seq(S), s # <<>>
  PROVE  /\ \A x : Has(s, x) <=> Has(Tail(s), x) \/ x = Head(s)
         /\ \A A : HasNone(s, A) <=> HasNone(Tail(s), A) /\ Head(s) \notin A
         /\ \A A : OneEach(s, A) => /\ OneEach(Tail(s), A)
                                    /\ Head(s) \in A => ~Has(Tail(s), Head(s))
         /\ \A A, B : NotBefore(s, A, B) => /\ NotBefore(Tail(s), A, B)
                                            /\ Head(s) \in A => HasNone(Tail(s), B)
<1> DEFINE r == Tail(s)
           h == Head(s)
<1>1. /\ Len(r) = Len(s) - 1 /\ Len(s) \in Nat \ {0} /\ h = s[1]
      /\ \A i \in 1 .. Len(r) : r[i] = s[i + 1]
  BY TailAt
<1> HIDE DEF r, h
<1>2. \A i \in 1 .. Len(r) : i + 1 \in 2 .. Len(s) /\ i + 1 \in 1 .. Len(s) BY <1>1
<1>3. ASSUME NEW i \in 1 .. Len(s) PROVE i = 1 \/ (i - 1 \in 1 .. Len(r) /\ s[i] = r[i - 1])
  <2>1. CASE i # 1
    <3>1. i - 1 \in 1 .. Len(r) /\ (i - 1) + 1 = i BY <1>1, <2>1
    <3> QED BY <1>1, <3>1
  <2> QED BY <2>1
<1>4. 1 \in 1 .. Len(s) BY <1>1
<1>5. \A x : Has(s, x) <=> Has(r, x) \/ x = h
  <2>1. ASSUME NEW x, Has(s, x) PROVE Has(r, x) \/ x = h BY <1>1, <1>3, <2>1 DEF Has
  <2>2. ASSUME NEW x, Has(r, x) \/ x = h PROVE Has(s, x) BY <1>1, <1>2, <1>4, <2>2 DEF Has
  <2> QED BY <2>1, <2>2
<1>6. \A A : HasNone(s, A) <=> HasNone(r, A) /\ h \notin A
  <2>1. ASSUME NEW A, HasNone(s, A) PROVE HasNone(r, A) /\ h \notin A
    BY <1>1, <1>2, <1>4, <2>1 DEF HasNone
  <2>2. ASSUME NEW A, HasNone(r, A), h \notin A PROVE HasNone(s, A)
    BY <1>1, <1>3, <2>2 DEF HasNone
  <2> QED BY <2>1, <2>2
<1>7. ASSUME NEW A, OneEach(s, A) PROVE OneEach(r, A) /\ (h \in A => ~Has(r, h))
  <2>1. ASSUME NEW i \in 1 .. Len(r), NEW j \in 1 .. Len(r), r[i] = r[j], r[i] \in A PROVE i = j
    <3>1. i + 1 = j + 1 BY <1>1, <1>2, <1>7, <2>1 DEF OneEach
    <3> QED BY <3>1
  <2>2. ASSUME NEW i \in 1 .. Len(r), h \in A PROVE r[i] # h
    <3>1. i + 1 # 1 BY <1>2
    <3> QED BY <1>1, <1>2, <1>4, <1>7, <2>2, <3>1 DEF OneEach
  <2> QED BY <2>1, <2>2 DEF OneEach, Has
<1>8. ASSUME NEW A, NEW B, NotBefore(s, A, B)
      PROVE  NotBefore(r, A, B) /\ (h \in A => HasNone(r, B))
  <2>1. ASSUME NEW i \in 1 .. Len(r), NEW j \in 1 .. Len(r), i < j, r[i] \in A PROVE r[j] \notin B
    <3>1. i + 1 < j + 1 BY <2>1
    <3> QED BY <1>1, <1>2, <1>8, <2>1, <3>1 DEF NotBefore
  <2>2. ASSUME NEW j \in 1 .. Len(r), h \in A PROVE r[j] \notin B
    <3>1. 1 < j + 1 BY <1>2
    <3> QED BY <1>1, <1>2, <1>4, <1>8, <2>2, <3>1 DEF NotBefore
  <2> QED BY <2>1, <2>2 DEF NotBefore, HasNone
<1> QED BY <1>5, <1>6, <1>7, <1>8 DEF r, h

LEMMA RangeHas ==
  ASSUME NEW S, NEW s \in Seq(S)
  PROVE  \A x : x \in Range(s) <=> Has(s, x)
  BY DEF Range, Has

LEMMA EmptyHas ==
  /\ \A x : ~Has(<<>>, x)
  /\ \A A : HasNone(<<>>, A) /\ OneEach(<<>>, A)
  /\ \A A, B : NotBefore(<<>>, A, B)
  BY DEF Has, HasNone, OneEach, NotBefore

LEMMA NoneHas ==
  ASSUME NEW s, NEW A, HasNone(s, A), NEW x \in A
  PROVE  ~Has(s, x)
  BY DEF Has, HasNone

\* A step that neither posts nor takes an event of A.
Keeps(A) ==
    \/ UNCHANGED events
    \/ \E e \in Event \ A : events' = Append(events, e)
    \/ /\ events # <<>> /\ Head(events) \notin A
       /\ events' = Tail(events) \/ events' = Append(Tail(events), "DoorsClosed")

LEMMA KeepsHas ==
  ASSUME RestTypeOK, NEW A, "DoorsClosed" \notin A, Keeps(A)
  PROVE  /\ \A x \in A : Has(events', x) <=> Has(events, x)
         /\ HasNone(events, A) => HasNone(events', A)
         /\ OneEach(events, A) => OneEach(events', A)
         /\ \A B, C \in SUBSET A : NotBefore(events, B, C) => NotBefore(events', B, C)
<1>0. events \in Seq(Event) /\ "DoorsClosed" \in Event BY DEF RestTypeOK, Event
<1>1. CASE UNCHANGED events BY <1>1
<1>2. CASE \E e \in Event \ A : events' = Append(events, e)
  <2>1. PICK e \in Event \ A : events' = Append(events, e) BY <1>2
  <2> QED BY <1>0, <2>1, AppendHas
<1>3. CASE /\ events # <<>> /\ Head(events) \notin A
           /\ events' = Tail(events) \/ events' = Append(Tail(events), "DoorsClosed")
  <2> DEFINE r == Tail(events)
  <2>1. r \in Seq(Event) BY <1>0, <1>3, TailAt
  <2>2. /\ \A x \in A : Has(r, x) <=> Has(events, x)
        /\ HasNone(events, A) => HasNone(r, A)
        /\ OneEach(events, A) => OneEach(r, A)
        /\ \A B, C \in SUBSET A : NotBefore(events, B, C) => NotBefore(r, B, C)
    BY <1>0, <1>3, TailHas
  <2> HIDE DEF r
  <2>3. CASE events' = r BY <2>2, <2>3
  <2>4. CASE events' = Append(r, "DoorsClosed")
    <3>1. /\ \A x : Has(events', x) <=> Has(r, x) \/ x = "DoorsClosed"
          /\ HasNone(events', A) <=> HasNone(r, A)
          /\ OneEach(r, A) => OneEach(events', A)
          /\ \A B, C \in SUBSET A : NotBefore(r, B, C) => NotBefore(events', B, C)
      BY <1>0, <2>1, <2>4, AppendHas
    <3> QED BY <2>2, <3>1
  <2> QED BY <1>3, <2>3, <2>4 DEF r
<1> QED BY <1>1, <1>2, <1>3 DEF Keeps

\* What the handlers of the scenes leave to the global ones.
LEMMA SceneKeeps ==
  ASSUME NEW e, events # <<>>, e = Head(events), e \notin GlobalEvents, HandleScene(e)
  PROVE  Keeps(GlobalEvents) /\ UNCHANGED <<appVars, announced>>
<1>1. UNCHANGED <<appVars, announced>>
  BY DEF HandleScene, Navigate, HandleLock, HandleLaunch, HandleUnlock, HandleUpdate,
         HandleAnimation, HandleInteract, HandleDummyMode, HandlePinFailed, HandleList, Dropped,
         rest, loaderVars
<1>2. events' = Tail(events) \/ events' = Append(Tail(events), "DoorsClosed")
  BY DEF HandleScene, Navigate, HandleLock, HandleLaunch, HandleUnlock, HandleUpdate,
         HandleAnimation, HandleInteract, HandleDummyMode, HandlePinFailed, HandleList, Dropped,
         UpdateView
<1> QED BY <1>1, <1>2 DEF Keeps

\* The steps no global event is posted by.
LEMMA QuietKeeps ==
  ASSUME LockInv, User \/ SetPin \/ PinIdle \/ LockedTimer \/ PinTimeoutTimer
  PROVE  /\ Keeps(GlobalEvents) /\ Running
         /\ UNCHANGED <<appVars, loaderVars, settings, anim, halted>>
<1>1. UNCHANGED <<appVars, loaderVars, settings, anim, halted>> /\ Running
  BY DEF User, Key, KeyBack, WrongPin, LockedKey, SetPin, PinIdle, LockedTimer, PinTimeoutTimer
<1>2. /\ {"PinFailed", "ShowPinInput", "LockedUnlocked", "PinBack", "LockedUpdate",
          "PinTimeoutExit"} \subseteq Event \ GlobalEvents
  BY DEF Event, GlobalEvents
<1>3. CASE Key
  <2>1. PICK e \in (KeyEvents(Top) \cap Inputs) \cup LineEvents(Top) : Post(e) BY <1>3 DEF Key
  <2>2. e \in Event \ GlobalEvents BY <2>1, KeyPosts DEF UserEvents, LockInv
  <2> QED BY <1>1, <2>1, <2>2 DEF Keeps, Post
<1>4. CASE KeyBack \/ SetPin BY <1>1, <1>4 DEF KeyBack, SetPin, Keeps
<1>5. CASE WrongPin BY <1>1, <1>2, <1>5 DEF WrongPin, Post, Keeps
<1>6. CASE LockedKey BY <1>1, <1>2, <1>6 DEF LockedKey, Post, Keeps
<1>7. CASE PinIdle \/ LockedTimer \/ PinTimeoutTimer
  BY <1>1, <1>2, <1>7 DEF PinIdle, LockedTimer, PinTimeoutTimer, Post, Keeps
<1> QED BY <1>3, <1>4, <1>5, <1>6, <1>7 DEF User

-----------------------------------------------------------------------------
(* The handshake with the loader                                             *)

LoaderNews == {"BeforeAppStarted", "AfterAppFinished"}

\* A step that the loader and its events do not take part in.
LEMMA HandshakeQuiet ==
  ASSUME LockInv, HandshakeInv, Running, Keeps(LoaderNews), UNCHANGED <<appVars, announced>>
  PROVE  HandshakeInv'
<1>1. /\ UNCHANGED <<appRunning, semaphore, loader>> /\ "DoorsClosed" \notin LoaderNews
      /\ {"BeforeAppStarted"} \in SUBSET LoaderNews /\ {"AfterAppFinished"} \in SUBSET LoaderNews
  BY DEF appVars, announced, LoaderNews
<1>2. /\ \A x \in LoaderNews : Has(events', x) <=> Has(events, x)
      /\ LoaderEvents => LoaderEvents'
  BY <1>1, KeepsHas DEF LockInv, DesktopTypeOK, LoaderEvents, LoaderNews
<1>3. /\ Queued("BeforeAppStarted")' <=> Queued("BeforeAppStarted")
      /\ Queued("AfterAppFinished")' <=> Queued("AfterAppFinished")
  BY <1>2 DEF Queued, LoaderNews
<1> QED BY <1>1, <1>2, <1>3 DEF HandshakeInv

\* What the handler of another global event does not touch.
LEMMA GlobalKeeps ==
  ASSUME NEW e, events # <<>>, e = Head(events), HandleGlobal(e), events' = Tail(events),
         e \notin LoaderNews
  PROVE  Keeps(LoaderNews) /\ UNCHANGED appVars
  BY DEF HandleGlobal, Keeps, LoaderNews

LEMMA HandshakeInduction == LockInv /\ HandshakeInv /\ [Next]_vars => HandshakeInv'
<1> SUFFICES ASSUME LockInv, HandshakeInv, [Next]_vars PROVE HandshakeInv' OBVIOUS
<1>0. /\ RestTypeOK /\ events \in Seq(Event) /\ LoaderNews \subseteq Event
      /\ LoaderNews \subseteq GlobalEvents /\ semaphore \in {0, 1}
  BY DEF LockInv, DesktopTypeOK, RestTypeOK, Event, GlobalEvents, LoaderNews
<1>1. CASE User \/ SetPin \/ PinIdle \/ LockedTimer \/ PinTimeoutTimer
  <2>1. Keeps(GlobalEvents) /\ UNCHANGED <<appVars, announced>> /\ Running
    BY <1>1, QuietKeeps DEF loaderVars
  <2>2. Keeps(LoaderNews) BY <1>0, <2>1 DEF Keeps
  <2> QED BY <2>1, <2>2, HandshakeQuiet
<1>2. CASE SetSettings \/ Reported \/ AutoLockTimer
  <2>1. {"SaveSettings", "ApiUnlock", "ReloadSettings", "NewIdleAnimation", "CheckAnimation",
         "AutoLock"} \subseteq Event \ LoaderNews
    BY DEF Event, GlobalEvents, AnimationEvents, LoaderNews
  <2>2. Keeps(LoaderNews) /\ UNCHANGED <<appVars, announced>> /\ Running
    BY <1>2, <2>1 DEF SetSettings, Reported, AutoLockTimer, Post, Keeps, loaderVars
  <2> QED BY <2>2, HandshakeQuiet
<1>3. CASE LoaderBeforeLoad
  <2>1. /\ Running /\ loader \in {"idle", "running"} /\ loader' = "waiting" /\ UNCHANGED appVars
        /\ events' = Append(events, "BeforeAppStarted")
    BY <1>3 DEF LoaderBeforeLoad, Post
  <2>2. ~Queued("BeforeAppStarted") /\ semaphore = 0 BY <1>0, <2>1 DEF HandshakeInv
  <2>3. "BeforeAppStarted" \in Event BY <1>0 DEF LoaderNews
  <2>4. Queued("BeforeAppStarted")' /\ (Queued("AfterAppFinished")' <=> Queued("AfterAppFinished"))
    BY <1>0, <2>1, <2>3, AppendHas DEF Queued
  <2>5. LoaderEvents'
    BY <1>0, <2>1, <2>2, <2>3, AppendHas DEF LoaderEvents, HandshakeInv, Queued
  <2> QED BY <2>1, <2>2, <2>4, <2>5 DEF HandshakeInv, appVars
<1>4. CASE LoaderNoMoreApps
  <2>1. /\ Running /\ loader = "running" /\ loader' = "idle" /\ UNCHANGED appVars
        /\ events' = Append(events, "AfterAppFinished")
    BY <1>4 DEF LoaderNoMoreApps, Post
  <2>2. /\ ~Queued("BeforeAppStarted") /\ ~Queued("AfterAppFinished") /\ appRunning /\ semaphore = 0
    BY <1>0, <2>1 DEF HandshakeInv
  <2>3. "AfterAppFinished" \in Event BY <1>0 DEF LoaderNews
  <2>4. Queued("AfterAppFinished")' /\ ~Queued("BeforeAppStarted")'
    BY <1>0, <2>1, <2>2, <2>3, AppendHas DEF Queued
  <2>5. LoaderEvents'
    <3>1. HasNone(events, {"BeforeAppStarted"}) BY <2>2 DEF Queued, Has, HasNone
    <3> QED BY <1>0, <2>1, <2>2, <2>3, <3>1, AppendHas DEF LoaderEvents, HandshakeInv, Queued
  <2> QED BY <2>1, <2>2, <2>4, <2>5 DEF HandshakeInv, appVars
<1>5. CASE LoaderAcquire
  <2>1. /\ Running /\ loader' = "running" /\ semaphore = 1 /\ semaphore' = 0
        /\ UNCHANGED <<events, appRunning>>
    BY <1>5 DEF LoaderAcquire
  <2>2. /\ Queued("BeforeAppStarted")' <=> Queued("BeforeAppStarted")
        /\ Queued("AfterAppFinished")' <=> Queued("AfterAppFinished")
        /\ LoaderEvents' <=> LoaderEvents
    BY <2>1 DEF Queued, LoaderEvents
  <2> QED BY <2>1, <2>2 DEF HandshakeInv
<1>6. CASE Reboot
  <2>1. events' = <<>> /\ loader' = "idle" /\ semaphore' = 0 /\ appRunning' = FALSE
    BY <1>6 DEF Reboot
  <2>2. ~Queued("BeforeAppStarted")' /\ ~Queued("AfterAppFinished")' /\ LoaderEvents'
    BY <2>1, EmptyHas DEF Queued, LoaderEvents
  <2> QED BY <2>1, <2>2 DEF HandshakeInv
<1>7. CASE HandleEvent
  <2> DEFINE e == Head(events)
  <2>1. /\ Running /\ events # <<>>
        /\ \/ HandleGlobal(e) /\ events' = Tail(events) /\ UNCHANGED announced
           \/ e \notin GlobalEvents /\ HandleScene(e)
    BY <1>7 DEF HandleEvent
  <2>2. CASE e \notin GlobalEvents /\ HandleScene(e)
    <3>1. Keeps(GlobalEvents) /\ UNCHANGED <<appVars, announced>> BY <2>1, <2>2, SceneKeeps
    <3>2. Keeps(LoaderNews) BY <1>0, <3>1 DEF Keeps
    <3> QED BY <2>1, <3>1, <3>2, HandshakeQuiet
  <2>3. CASE HandleGlobal(e) /\ events' = Tail(events) /\ UNCHANGED announced
    <3>0. LoaderEvents /\ UNCHANGED loader BY <2>1, <2>3 DEF HandshakeInv, announced
    <3>1. CASE e \notin LoaderNews
      BY <2>1, <2>3, <3>1, GlobalKeeps, HandshakeQuiet
    <3>2. LoaderEvents' BY <1>0, <2>1, <2>3, <3>0, TailHas DEF LoaderEvents
    <3>3. Queued(e) BY <1>0, <2>1, TailHas DEF Queued
    <3>4. CASE e = "BeforeAppStarted"
      <4>1. ~Queued("BeforeAppStarted")'
        BY <1>0, <2>1, <2>3, <3>0, <3>4, TailHas DEF Queued, LoaderEvents
      <4>2. ~Queued("AfterAppFinished")'
        <5>1. HasNone(Tail(events), {"AfterAppFinished"})
          BY <1>0, <2>1, <3>0, <3>4, TailHas DEF LoaderEvents
        <5> QED BY <2>3, <5>1, NoneHas DEF Queued
      <4>3. halted' = "animation" \/ (appRunning' = TRUE /\ semaphore' = 1)
        BY <2>3, <3>4 DEF HandleGlobal, BeforeAppStarted, Crash
      <4>4. loader = "waiting" BY <2>1, <3>3, <3>4 DEF HandshakeInv
      <4> QED BY <3>0, <3>2, <4>1, <4>2, <4>3, <4>4 DEF HandshakeInv, Running
    <3>5. CASE e = "AfterAppFinished"
      <4>1. ~Queued("AfterAppFinished")'
        BY <1>0, <2>1, <2>3, <3>0, <3>5, TailHas DEF Queued, LoaderEvents
      <4>2. Queued("BeforeAppStarted")' <=> Queued("BeforeAppStarted")
        BY <1>0, <2>1, <2>3, <3>5, TailHas DEF Queued
      <4>3. halted' = "animation" \/ (appRunning' = FALSE /\ semaphore' = semaphore)
        BY <2>3, <3>5 DEF HandleGlobal, AfterAppFinished, Crash
      <4>4. loader # "running" /\ semaphore # 1 BY <2>1, <3>3, <3>5 DEF HandshakeInv
      <4> QED BY <2>1, <3>0, <3>2, <4>1, <4>2, <4>3, <4>4 DEF HandshakeInv, Running
    <3> QED BY <3>1, <3>4, <3>5 DEF LoaderNews
  <2> QED BY <2>1, <2>2, <2>3
<1>8. CASE OtherPuts \/ LoaderServes \/ UNCHANGED vars
  <2>1. UNCHANGED <<events, loader, semaphore, appRunning, halted>>
    BY <1>8, QuietSteps DEF deskVars, appVars, announced
  <2> QED BY <2>1 DEF HandshakeInv, Running, Queued, LoaderEvents
<1>9. CASE LoaderGivesUp BY <1>9 DEF LoaderGivesUp, Crash, HandshakeInv, Running
<1> QED
  BY <1>1, <1>2, <1>3, <1>4, <1>5, <1>6, <1>7, <1>8, <1>9 DEF Next, Environment, LoaderSteps

LEMMA HandshakeInitially == Init => HandshakeInv
<1> SUFFICES ASSUME Init PROVE HandshakeInv OBVIOUS
<1>1. /\ events = <<>> /\ semaphore = 0
      /\ (loader = "running" /\ appRunning) \/ (loader = "idle" /\ ~appRunning)
  BY DEF Init
<1>2. ~Queued("BeforeAppStarted") /\ ~Queued("AfterAppFinished") /\ LoaderEvents
  BY <1>1, EmptyHas DEF Queued, LoaderEvents
<1> QED BY <1>1, <1>2 DEF HandshakeInv

LEMMA HandshakeInvariant == Spec => [](LockInv /\ HandshakeInv)
  BY HandshakeInitially, HandshakeInduction, LockInvariant, PTL DEF Spec

\* No launch passes before the desktop handled its own event, and app_running
\* is right whenever the loader and the desktop are at rest
\* (desktop_loader_callback, desktop_custom_event_callback).
THEOREM HandshakeHolds == Spec => []Handshake
<1>1. LockInv /\ HandshakeInv => Handshake
  <2> SUFFICES ASSUME LockInv, HandshakeInv, Running PROVE Handshake BY DEF Handshake
  <2> DEFINE P == {i \in DOMAIN events : events[i] = "BeforeAppStarted"}
  <2>0. events \in Seq(Event) /\ DOMAIN events = 1 .. Len(events) /\ semaphore \in {0, 1}
    BY DEF LockInv, DesktopTypeOK, RestTypeOK
  <2>1. Cardinality(P) = IF loader = "waiting" THEN 1 - semaphore ELSE 0
    <3>1. CASE Queued("BeforeAppStarted")
      <4>1. PICK i \in 1 .. Len(events) : events[i] = "BeforeAppStarted" BY <3>1 DEF Queued, Has
      <4>2. P = {i} BY <2>0, <4>1 DEF HandshakeInv, LoaderEvents, OneEach
      <4>3. Cardinality(P) = 1 BY <4>2, FS_Singleton
      <4> QED BY <3>1, <4>3 DEF HandshakeInv
    <3>2. CASE ~Queued("BeforeAppStarted")
      <4>1. P = {} BY <2>0, <3>2 DEF Queued, Has
      <4>2. Cardinality(P) = 0 BY <4>1, FS_EmptySet
      <4> QED BY <2>0, <3>2, <4>2 DEF HandshakeInv
    <3> QED BY <3>1, <3>2
  <2>2. "AfterAppFinished" \in Range(events) <=> Queued("AfterAppFinished")
    BY <2>0, RangeHas DEF Queued
  <2> HIDE DEF P
  <2>3. /\ semaphore = 1 => loader = "waiting"
        /\ loader = "running" => appRunning
        /\ (loader = "idle" /\ "AfterAppFinished" \notin Range(events)) => ~appRunning
    BY <2>2 DEF HandshakeInv
  <2> QED BY <2>1, <2>3 DEF Handshake, P
<1> QED BY <1>1, HandshakeInvariant, PTL

-----------------------------------------------------------------------------
(* The animation                                                             *)

LEMMA AnimSteps ==
  ASSUME NEW a \in Anim, AnimAgrees(a)
  PROVE  /\ a.loaded => StallAsserts(a) /\ AnimAgrees(Stalled(a)) /\ Stalled(a).frozen
         /\ a.frozen => /\ ContinueAsserts(a)
                        /\ \A b \in Continued(a) : AnimAgrees(b) /\ ~b.frozen
         /\ \A b \in Checked(a) \cup {Renewed(a)} : AnimAgrees(b) /\ b.frozen = a.frozen
         /\ \A d : LET b == AnimDummy(a, d) IN
              ~b.forced => AnimAgrees(b) /\ b.frozen = a.frozen
         /\ Interacts(a) => \A b \in Interacted(a) :
              ~b.forced => AnimAgrees(b) /\ b.frozen = a.frozen
<1>1. a.loaded => StallAsserts(a) /\ AnimAgrees(Stalled(a)) /\ Stalled(a).frozen
  BY DEF Anim, AnimAgrees, StallAsserts, Stalled
<1>3. ASSUME NEW b \in Anim, b.frozen = FALSE
      PROVE  /\ AnimAgrees(NewIdle(b)) /\ NewIdle(b).frozen = FALSE
             /\ \A c \in Blockings(b) : AnimAgrees(c) /\ c.frozen = FALSE
             /\ LET c == [b EXCEPT !.state = "Blocked", !.loaded = TRUE] IN
                  AnimAgrees(c) /\ c.frozen = FALSE
  <2>1. AnimAgrees(NewIdle(b)) /\ NewIdle(b).frozen = FALSE
    BY <1>3 DEF Anim, AnimAgrees, NewIdle
  <2>2. ASSUME NEW m \in {b.mail, "pending"}
        PROVE  LET c == [b EXCEPT !.state = "Blocked", !.loaded = TRUE, !.mail = m] IN
                 AnimAgrees(c) /\ c.frozen = FALSE
    BY <1>3 DEF Anim, AnimAgrees
  <2>3. LET c == [b EXCEPT !.state = "Blocked", !.loaded = TRUE] IN
          AnimAgrees(c) /\ c.frozen = FALSE
    BY <1>3 DEF Anim, AnimAgrees
  <2>4. \A c \in Blockings(b) : AnimAgrees(c) /\ c.frozen = FALSE BY <2>2 DEF Blockings
  <2> QED BY <2>1, <2>3, <2>4
<1>4. ASSUME a.frozen
      PROVE  ContinueAsserts(a) /\ \A b \in Continued(a) : AnimAgrees(b) /\ ~b.frozen
  <2>1. ContinueAsserts(a) BY <1>4 DEF Anim, AnimAgrees, ContinueAsserts
  <2> DEFINE b == [a EXCEPT !.frozen = FALSE]
  <2>2. b \in Anim /\ b.frozen = FALSE BY DEF Anim, AnimAgrees
  <2>3. Continued(a) \subseteq {NewIdle(b), [b EXCEPT !.state = "Blocked", !.loaded = TRUE]}
                               \cup Blockings(b)
    BY DEF Continued
  <2> HIDE DEF b
  <2> QED BY <1>3, <2>1, <2>2, <2>3
<1>5. \A b \in Checked(a) \cup {Renewed(a)} : AnimAgrees(b) /\ b.frozen = a.frozen
  <2>1. CASE a.state = "Idle"
    <3>1. a.frozen = FALSE BY <2>1 DEF Anim, AnimAgrees
    <3>2. Checked(a) \cup {Renewed(a)} \subseteq {a, NewIdle(a)} \cup Blockings(a)
      BY <2>1 DEF Checked, Renewed
    <3> QED BY <1>3, <3>1, <3>2
  <2>2. CASE a.state # "Idle" BY <2>2 DEF Checked, Renewed
  <2> QED BY <2>1, <2>2
\* An animation started over a stalled one is marked.
<1>6. ASSUME NEW b, ~b.forced,
             \/ \E d : b = [NewIdle(a) EXCEPT !.dummy = d, !.forced = a.forced \/ a.frozen]
             \/ b = [NewIdle(a) EXCEPT !.mail = "none", !.forced = a.forced \/ a.frozen]
      PROVE  AnimAgrees(b) /\ b.frozen = a.frozen
  <2>1. NewIdle(a) \in Anim BY AnimOK
  <2>2. b.forced = (a.forced \/ a.frozen) BY <1>6, <2>1 DEF Anim
  <2>3. a.frozen = FALSE BY <1>6, <2>2 DEF Anim
  <2>4. AnimAgrees(NewIdle(a)) /\ NewIdle(a).frozen = FALSE BY <1>3, <2>3
  <2>5. b.loaded = NewIdle(a).loaded /\ b.frozen = NewIdle(a).frozen /\ b.state = NewIdle(a).state
    BY <1>6, <2>1 DEF Anim
  <2> QED BY <2>3, <2>4, <2>5 DEF AnimAgrees
<1>7. ASSUME NEW d, ~AnimDummy(a, d).forced
      PROVE  AnimAgrees(AnimDummy(a, d)) /\ AnimDummy(a, d).frozen = a.frozen
  <2>1. CASE a.dummy = d BY <2>1 DEF AnimDummy
  <2>2. CASE a.dummy # d BY <1>6, <1>7, <2>2 DEF AnimDummy
  <2> QED BY <2>1, <2>2
<1>8. ASSUME Interacts(a), NEW b \in Interacted(a), ~b.forced
      PROVE  AnimAgrees(b) /\ b.frozen = a.frozen
  <2>1. CASE a.mail = "pending"
    <3>1. b = [a EXCEPT !.mail = "active"] BY <1>8, <2>1 DEF Interacted
    <3> QED BY <3>1 DEF Anim, AnimAgrees
  <2>2. CASE a.mail = "active" BY <1>6, <1>8, <2>2 DEF Interacted
  <2>3. CASE a.mail \notin {"pending", "active"}
    <3>1. a.frozen = FALSE BY <1>8, <2>3 DEF Interacts, Anim, AnimAgrees
    <3>2. b \in Blockings(a) \cup {NewIdle(a)} BY <1>8, <2>3 DEF Interacted
    <3> QED BY <1>3, <3>1, <3>2
  <2> QED BY <2>1, <2>2, <2>3
<1> QED BY <1>1, <1>4, <1>5, <1>7, <1>8

\* The mark stays until the next start.
LEMMA ForcedStays ==
  ASSUME NEW a \in Anim, a.forced
  PROVE  /\ Stalled(a).forced
         /\ \A b \in Continued(a) \cup Checked(a) \cup {Renewed(a)} \cup Interacted(a) : b.forced
         /\ \A d : AnimDummy(a, d).forced
<1>1. ASSUME NEW b \in Anim, b.forced
      PROVE  /\ NewIdle(b).forced /\ \A c \in Blockings(b) : c.forced
             /\ [b EXCEPT !.state = "Blocked", !.loaded = TRUE].forced
  <2>1. NewIdle(b).forced /\ [b EXCEPT !.state = "Blocked", !.loaded = TRUE].forced
    BY <1>1 DEF NewIdle, Anim
  <2>2. ASSUME NEW m
        PROVE  [b EXCEPT !.state = "Blocked", !.loaded = TRUE, !.mail = m].forced
    BY <1>1 DEF Anim
  <2> QED BY <2>1, <2>2 DEF Blockings
<1>2. Stalled(a).forced BY DEF Stalled, Anim
<1>3. ASSUME NEW b \in Continued(a) PROVE b.forced
  <2> DEFINE c == [a EXCEPT !.frozen = FALSE]
  <2>1. c \in Anim /\ c.forced BY DEF Anim
  <2>2. b \in {NewIdle(c), [c EXCEPT !.state = "Blocked", !.loaded = TRUE]} \cup Blockings(c)
    BY DEF Continued
  <2> HIDE DEF c
  <2> QED BY <1>1, <2>1, <2>2
<1>4. ASSUME NEW b \in Checked(a) \cup {Renewed(a)} PROVE b.forced
  <2>1. b \in {a, NewIdle(a)} \cup Blockings(a) BY DEF Checked, Renewed
  <2> QED BY <1>1, <2>1
<1>5. NewIdle(a) \in Anim BY AnimOK
<1>6. ASSUME NEW b \in Interacted(a) PROVE b.forced
  <2>1. CASE a.mail = "pending"
    <3>1. b = [a EXCEPT !.mail = "active"] BY <2>1 DEF Interacted
    <3> QED BY <3>1 DEF Anim
  <2>2. CASE a.mail = "active"
    <3>1. b = [NewIdle(a) EXCEPT !.mail = "none", !.forced = a.forced \/ a.frozen]
      BY <2>2 DEF Interacted
    <3> QED BY <1>5, <3>1 DEF Anim
  <2>3. CASE a.mail \notin {"pending", "active"}
    <3>1. b \in Blockings(a) \cup {NewIdle(a)} BY <2>3 DEF Interacted
    <3> QED BY <1>1, <3>1
  <2> QED BY <2>1, <2>2, <2>3
<1>7. ASSUME NEW d PROVE AnimDummy(a, d).forced
  <2>1. CASE a.dummy = d BY <2>1 DEF AnimDummy
  <2>2. CASE a.dummy # d BY <1>5, <2>2 DEF AnimDummy, Anim
  <2> QED BY <2>1, <2>2
<1> QED BY <1>2, <1>3, <1>4, <1>6, <1>7

\* What a handler makes of the animation.
LEMMA AnimMoves ==
  ASSUME HandleEvent
  PROVE  \/ anim' \in {anim, Stalled(anim), Renewed(anim)} \cup Continued(anim) \cup Checked(anim)
                      \cup Interacted(anim)
         \/ \E d : anim' = AnimDummy(anim, d)
<1>1. ASSUME NEW e, HandleGlobal(e)
      PROVE  \/ anim' \in {anim, Stalled(anim)} \cup Continued(anim)
             \/ \E d : anim' = AnimDummy(anim, d)
  BY <1>1 DEF HandleGlobal, BeforeAppStarted, AfterAppFinished, SettingsChanged, ApplySettings
<1>2. ASSUME NEW e, HandleScene(e)
      PROVE  \/ anim' \in {anim, Renewed(anim)} \cup Checked(anim) \cup Interacted(anim)
             \/ \E d : anim' = AnimDummy(anim, d)
  BY <1>2 DEF HandleScene, Navigate, HandleLock, HandleLaunch, HandleUnlock, HandleUpdate,
     HandleAnimation, HandleInteract, HandleDummyMode, HandlePinFailed, HandleList, Dropped
<1> QED BY <1>1, <1>2 DEF HandleEvent

LEMMA AnimInduction == LockInv /\ HandshakeInv /\ AnimInv /\ [Next]_vars => AnimInv'
<1> SUFFICES ASSUME LockInv, HandshakeInv, AnimInv, [Next]_vars PROVE AnimInv' OBVIOUS
<1>0. /\ RestTypeOK /\ events \in Seq(Event) /\ anim \in Anim /\ appRunning \in BOOLEAN
  BY DEF LockInv, DesktopTypeOK, RestTypeOK
<1>2. ASSUME halted' # "animation", ~anim'.forced => AnimAgrees(anim') /\ anim'.frozen = appRunning'
      PROVE  AnimInv'
  BY <1>2 DEF AnimInv
<1>3. ASSUME Running, halted' # "animation", UNCHANGED <<anim, appRunning>> PROVE AnimInv'
  BY <1>2, <1>3 DEF AnimInv
<1>4. CASE User \/ SetPin \/ PinIdle \/ LockedTimer \/ PinTimeoutTimer
  BY <1>3, <1>4, QuietKeeps DEF appVars, Running
<1>5. CASE LoaderBeforeLoad \/ LoaderNoMoreApps \/ LoaderAcquire \/ Reported \/ AutoLockTimer
           \/ SetSettings
  <2>1. Running /\ UNCHANGED <<anim, appRunning, halted>>
    BY <1>5
    DEF LoaderBeforeLoad, LoaderNoMoreApps, LoaderAcquire, Reported, AutoLockTimer, SetSettings,
        appVars
  <2> QED BY <1>3, <2>1 DEF Running
<1>6. CASE LoaderGivesUp
  BY <1>3, <1>6 DEF LoaderGivesUp, Crash, appVars
<1>7. CASE Reboot
  <2>1. PICK s \in SavedSettings : /\ anim' = BootAnim(s, FALSE)
                                   /\ appRunning' = FALSE /\ halted' = "no"
    BY <1>7 DEF Reboot
  <2>2. AnimAgrees(anim') /\ anim'.frozen = FALSE BY <2>1 DEF BootAnim, AnimAgrees
  <2> QED BY <1>2, <2>1, <2>2
<1>8. CASE HandleEvent /\ anim.forced
  <2>1. anim'.forced BY <1>0, <1>8, AnimMoves, ForcedStays
  <2> QED BY <2>1 DEF AnimInv
<1>10. CASE HandleEvent /\ ~anim.forced
  <2> DEFINE e == Head(events)
  <2>1. /\ Running /\ events # <<>>
        /\ \/ HandleGlobal(e) /\ events' = Tail(events)
           \/ e \notin GlobalEvents /\ HandleScene(e)
    BY <1>10 DEF HandleEvent
  <2>2. Queued(e) BY <1>0, <2>1, TailHas DEF Queued
  <2>3. AnimAgrees(anim) /\ anim.frozen = appRunning BY <1>10, <2>1 DEF AnimInv
  <2> HIDE DEF e
  <2>0. halted # "animation" BY <2>1 DEF Running
  <2>4. ASSUME DesktopLock PROVE halted' # "animation" BY <2>0, <2>4 DEF DesktopLock, Crash
  <2>5. CASE e = "BeforeAppStarted" /\ BeforeAppStarted
    <3>1. anim.loaded => StallAsserts(anim) BY <1>0, <2>3, AnimSteps
    <3>2. /\ anim' = IF anim.loaded THEN Stalled(anim) ELSE anim
          /\ appRunning' = TRUE /\ UNCHANGED halted
      BY <2>5, <3>1 DEF BeforeAppStarted
    <3>3. AnimAgrees(anim') /\ anim'.frozen = TRUE
      <4>1. CASE anim.loaded
        <5>1. Stalled(anim).frozen \in BOOLEAN BY <1>0, AnimOK DEF Anim
        <5> QED BY <1>0, <2>3, <3>2, <4>1, <5>1, AnimSteps
      <4>2. CASE ~anim.loaded BY <1>0, <2>3, <3>2, <4>2 DEF AnimAgrees, Anim
      <4> QED BY <4>1, <4>2
    <3> QED BY <1>2, <2>0, <3>2, <3>3
  <2>6. CASE e = "AfterAppFinished" /\ AfterAppFinished
    <3>1. appRunning BY <2>1, <2>2, <2>6 DEF HandshakeInv
    <3>2. ContinueAsserts(anim) /\ \A b \in Continued(anim) : AnimAgrees(b) /\ ~b.frozen
      BY <1>0, <2>3, <3>1, AnimSteps
    <3>3. anim' \in Continued(anim) /\ appRunning' = FALSE /\ UNCHANGED halted
      BY <2>6, <3>2 DEF AfterAppFinished
    <3>4. anim'.frozen \in BOOLEAN BY <1>0, <3>3, AnimOK DEF Anim
    <3> QED BY <1>2, <2>0, <3>2, <3>3, <3>4
  <2>7. CASE /\ e = "AutoLock" /\ UNCHANGED <<appVars, settings, anim, request>>
             /\ IF AutoLocks THEN DesktopLock
                ELSE UNCHANGED <<lockVars, sceneVars, autoLock, view, halted>>
    <3>1. halted' # "animation" BY <2>0, <2>4, <2>7
    <3> QED BY <1>3, <2>1, <2>7, <3>1 DEF appVars
  <2>8. ASSUME UNCHANGED <<appVars, halted>>, NEW d, anim' = AnimDummy(anim, d) PROVE AnimInv'
    <3>1. ~anim'.forced => AnimAgrees(anim') /\ anim'.frozen = anim.frozen
      BY <1>0, <2>3, <2>8, AnimSteps
    <3> QED BY <1>2, <2>0, <2>3, <2>8, <3>1 DEF appVars
  <2>9. CASE HandleScene(e) /\ e \notin GlobalEvents
    <3>1. UNCHANGED appVars BY <2>1, <2>9, SceneKeeps DEF e
    <3>4. halted' # "animation"
      BY <2>0, <2>4, <2>9 DEF HandleScene, Navigate, HandleLock, HandleLaunch, HandleUnlock,
         HandleUpdate, HandleAnimation, HandleInteract, HandleDummyMode, HandlePinFailed,
         HandleList, Dropped, DesktopUnlock, Crash
    <3>5. CASE HandleAnimation(e)
      <4>1. anim' \in Checked(anim) \cup {Renewed(anim)} BY <3>5 DEF HandleAnimation
      <4>2. AnimAgrees(anim') /\ anim'.frozen = anim.frozen BY <1>0, <2>3, <4>1, AnimSteps
      <4> QED BY <1>2, <2>3, <3>1, <3>4, <4>2 DEF appVars
    <3>6. CASE HandleInteract(e) /\ ~UNCHANGED anim
      <4>1. Interacts(anim) /\ anim' \in Interacted(anim) BY <3>6 DEF HandleInteract
      <4>2. ~anim'.forced => AnimAgrees(anim') /\ anim'.frozen = anim.frozen
        BY <1>0, <2>3, <4>1, AnimSteps
      <4> QED BY <1>2, <2>3, <3>1, <3>4, <4>2 DEF appVars
    <3>7. CASE HandleDummyMode(e) BY <2>8, <3>1, <3>7 DEF HandleDummyMode
    <3>8. CASE UNCHANGED anim BY <1>3, <2>1, <3>1, <3>4, <3>8 DEF appVars
    <3> QED
      BY <2>9, <3>5, <3>6, <3>7, <3>8 DEF HandleScene, Navigate, HandleLock, HandleLaunch,
         HandleUnlock, HandleUpdate, HandlePinFailed, HandleList, Dropped
  <2>10. CASE \E s : SettingsChanged(s) /\ UNCHANGED <<appVars, halted>>
    BY <2>8, <2>10 DEF SettingsChanged, ApplySettings
  <2> QED BY <2>1, <2>5, <2>6, <2>7, <2>9, <2>10 DEF HandleGlobal
<1>9. CASE OtherPuts \/ LoaderServes \/ UNCHANGED vars
  <2>1. UNCHANGED <<halted, anim, appRunning>> BY <1>9, QuietSteps DEF deskVars, appVars
  <2> QED BY <2>1 DEF AnimInv, Running
<1> QED
  BY <1>4, <1>5, <1>6, <1>7, <1>8, <1>9, <1>10 DEF Next, Environment, LoaderSteps

LEMMA AnimInitially == Init => AnimInv
<1> SUFFICES ASSUME Init PROVE AnimInv OBVIOUS
<1>1. PICK s \in SavedSettings, running \in BOOLEAN :
        /\ anim = BootAnim(s, running) /\ appRunning = running /\ halted = "no"
  BY DEF Init
<1>2. AnimAgrees(anim) /\ anim.frozen = running BY <1>1 DEF BootAnim, Stalled, AnimAgrees
<1> QED BY <1>1, <1>2 DEF AnimInv

\* The animation is out of memory exactly while an application runs, and the
\* assertions of animation_manager_unload_and_stall_animation and of
\* animation_manager_load_and_continue_animation hold, whatever is pressed, until
\* a switch of dummy mode or the dismissal of the level-up starts a new animation
\* over a stalled one.
THEOREM AnimationAlwaysInStep == Spec => []AnimationInStep
<1>1. LockInv /\ AnimInv => AnimationInStep
  BY DEF AnimInv, AnimationInStep, AnimAgrees, LockInv, DesktopTypeOK, RestTypeOK, Anim
<1> QED BY <1>1, AnimInitially, AnimInduction, HandshakeInvariant, PTL DEF Spec

-----------------------------------------------------------------------------
(* Auto-lock                                                                 *)

\* What AutoLockArmed is about, and what it promises.
Idle ==
    /\ Running /\ ~locked /\ ~appRunning /\ settings.delay > 0
    /\ ~Queued("SaveSettings") /\ ~Queued("ReloadSettings")

Armed == autoLock.sub = "on" /\ (autoLock.timer = "on" \/ Queued("AutoLock"))

LEMMA ArmedIs ==
  ASSUME RestTypeOK
  PROVE  AutoLockArmed <=> (Idle => Armed)
<1>1. \A x : x \in Range(events) <=> Queued(x) BY RangeHas DEF RestTypeOK, Queued
<1>2. Range(events) \cap {"SaveSettings", "ReloadSettings"} = {}
      <=> ~Queued("SaveSettings") /\ ~Queued("ReloadSettings")
  BY <1>1
<1> QED BY <1>1, <1>2 DEF AutoLockArmed, Idle, Armed

\* The timer started by arming.
LEMMA ArmArms ==
  ASSUME NEW d \in {0, 10}, d > 0, autoLock' = Arm(d)
  PROVE  Armed'
<1>1. d # 0 OBVIOUS
<1>2. autoLock' = [timer |-> "on", sub |-> "on"] BY <1>1 DEF Arm
<1> QED BY <1>2 DEF Armed

LEMMA ArmedInduction ==
  ASSUME UsbInhibits = FALSE
  PROVE  LockInv /\ LockInv' /\ AutoLockArmed /\ [Next]_vars => AutoLockArmed'
<1> SUFFICES ASSUME LockInv, LockInv', AutoLockArmed, [Next]_vars PROVE AutoLockArmed'
  OBVIOUS
<1> SUFFICES ASSUME Idle' PROVE Armed'
  <2>1. AutoLockArmed' <=> (Idle' => Armed')
    <3>1. RestTypeOK' BY DEF LockInv, DesktopTypeOK
    <3>2. \A x : x \in Range(events') <=> Has(events', x) BY <3>1, RangeHas DEF RestTypeOK
    <3>3. Range(events') \cap {"SaveSettings", "ReloadSettings"} = {}
          <=> ~Has(events', "SaveSettings") /\ ~Has(events', "ReloadSettings")
      BY <3>2
    <3> QED BY <3>2, <3>3 DEF AutoLockArmed, Idle, Armed, Queued
  <2> QED BY <2>1
<1>0. /\ RestTypeOK /\ events \in Seq(Event) /\ settings \in Settings
      /\ settings' \in Settings /\ autoLock \in AutoLockState
  BY DEF LockInv, DesktopTypeOK, RestTypeOK, AutoLockState
<1>1. Idle => Armed BY <1>0, ArmedIs
<1>2. /\ Running' /\ ~locked' /\ ~appRunning' /\ settings'.delay > 0
      /\ ~Has(events', "SaveSettings") /\ ~Has(events', "ReloadSettings")
  BY DEF Idle, Queued
\* A step that only the queue or a press takes part in.
<1>3. ASSUME Running, UNCHANGED <<locked, appRunning>>, settings'.delay = settings.delay,
             \A x \in {"SaveSettings", "ReloadSettings", "AutoLock"} :
               Has(events, x) => Has(events', x),
             autoLock' = autoLock \/ Pressed
      PROVE  Armed'
  <2>1. Armed BY <1>1, <1>2, <1>3 DEF Idle, Queued
  <2>2. CASE autoLock' = autoLock BY <1>3, <2>1, <2>2 DEF Armed, Queued
  <2>3. CASE Pressed
    <3>1. autoLock' = [autoLock EXCEPT !.timer = "on"] BY <2>1, <2>3 DEF Pressed, Armed
    <3> QED BY <1>0, <2>1, <3>1 DEF Armed, AutoLockState
  <2> QED BY <1>3, <2>2, <2>3
<1>4. ASSUME Keeps(GlobalEvents)
      PROVE  \A x \in {"SaveSettings", "ReloadSettings", "AutoLock"} : Has(events, x) => Has(events', x)
  <2>1. /\ "DoorsClosed" \notin GlobalEvents
        /\ {"SaveSettings", "ReloadSettings", "AutoLock"} \subseteq GlobalEvents
    BY DEF GlobalEvents
  <2> QED BY <1>0, <1>4, <2>1, KeepsHas
<1>5. CASE User \/ SetPin \/ PinIdle \/ LockedTimer \/ PinTimeoutTimer
  <2>1. /\ Keeps(GlobalEvents) /\ Running /\ UNCHANGED <<appRunning, settings>>
    BY <1>5, QuietKeeps DEF appVars
  <2>2. UNCHANGED locked /\ (autoLock' = autoLock \/ Pressed)
    BY <1>5 DEF User, Key, KeyBack, WrongPin, LockedKey, SetPin, PinIdle, LockedTimer,
       PinTimeoutTimer, lockVars
  <2> QED BY <1>3, <1>4, <2>1, <2>2
<1>6. ASSUME NEW e \in Event, events' = Append(events, e), Running,
             UNCHANGED <<locked, appRunning, settings, autoLock>>
      PROVE  Armed'
  <2>1. \A x : Has(events, x) => Has(events', x) BY <1>0, <1>6, AppendHas
  <2> QED BY <1>3, <1>6, <2>1
<1>7. {"BeforeAppStarted", "AfterAppFinished", "ApiUnlock", "ReloadSettings", "NewIdleAnimation",
       "CheckAnimation", "SaveSettings", "AutoLock"} \subseteq Event
  BY DEF Event, GlobalEvents, AnimationEvents
<1>8. CASE LoaderBeforeLoad \/ LoaderNoMoreApps \/ Reported
  <2>1. /\ \E e \in Event : events' = Append(events, e)
        /\ Running /\ UNCHANGED <<locked, appRunning, settings, autoLock>>
    BY <1>7, <1>8 DEF LoaderBeforeLoad, LoaderNoMoreApps, Reported, Post, lockVars, appVars
  <2> QED BY <1>6, <2>1
<1>9. CASE SetSettings
  <2>1. Has(events', "SaveSettings") BY <1>0, <1>7, <1>9, AppendHas DEF SetSettings, Post
  <2> QED BY <1>2, <2>1
<1>10. CASE AutoLockTimer
  <2>1. events' = Append(events, "AutoLock") /\ Running
        /\ autoLock' = [autoLock EXCEPT !.timer = "off"]
        /\ UNCHANGED <<locked, appRunning, settings>>
    BY <1>10 DEF AutoLockTimer, Post, lockVars, appVars
  <2>2. \A x : Has(events', x) <=> Has(events, x) \/ x = "AutoLock"
    BY <1>0, <1>7, <2>1, AppendHas
  <2>3. Armed BY <1>1, <1>2, <2>1, <2>2 DEF Idle, Queued
  <2>4. autoLock'.sub = "on" BY <1>0, <2>1, <2>3 DEF Armed, AutoLockState
  <2> QED BY <2>2, <2>4 DEF Armed, Queued
<1>11. CASE LoaderAcquire
  BY <1>3, <1>11 DEF LoaderAcquire, lockVars
<1>12. CASE Reboot
  <2>1. PICK s \in SavedSettings : /\ settings' = s /\ autoLock' = BootAutoLock(s, FALSE)
                                   /\ locked' = PinSet
    BY <1>12 DEF Reboot
  <2>2. s.delay # 0 /\ ~PinSet BY <1>0, <1>2, <2>1 DEF Settings
  <2>3. autoLock' = [timer |-> "on", sub |-> "on"] BY <2>1, <2>2 DEF BootAutoLock
  <2> QED BY <2>3 DEF Armed
<1>13. CASE HandleEvent
  <2> DEFINE e == Head(events)
  <2>1. /\ Running /\ events # <<>>
        /\ \/ HandleGlobal(e) /\ events' = Tail(events) /\ UNCHANGED announced
           \/ e \notin GlobalEvents /\ HandleScene(e)
    BY <1>13 DEF HandleEvent
  <2> HIDE DEF e
  <2>2. ASSUME DesktopLock PROVE FALSE
    <3>1. locked' \/ ~Running' BY <2>2 DEF DesktopLock, Crash, Running
    <3> QED BY <1>2, <3>1
  <2>3. settings'.delay \in {0, 10} BY <1>0 DEF Settings
  <2>4. CASE HandleGlobal(e)
    <3>1. CASE BeforeAppStarted BY <1>2, <3>1 DEF BeforeAppStarted, Crash, Running
    <3>2. CASE AfterAppFinished /\ UNCHANGED settings
      <4>1. autoLock' = Arm(settings'.delay) BY <1>2, <3>2 DEF AfterAppFinished, Crash, Running
      <4> QED BY <1>2, <2>3, <4>1, ArmArms
    <3>3. CASE /\ UNCHANGED appVars
               /\ IF AutoLocks THEN DesktopLock
                  ELSE UNCHANGED <<lockVars, sceneVars, autoLock, view, halted>>
      <4>1. ~AutoLocks /\ UNCHANGED <<appRunning, locked>>
        BY <2>2, <3>3 DEF appVars, lockVars
      <4> QED BY <1>2, <4>1 DEF AutoLocks
    <3>4. ASSUME NEW s, SettingsChanged(s), UNCHANGED <<lockVars, appVars>> PROVE Armed'
      <4>1. UNCHANGED <<appRunning, locked>> BY <3>4 DEF appVars, lockVars
      <4>2. settings' = s /\ autoLock' = Arm(settings'.delay)
        BY <1>2, <3>4, <4>1 DEF SettingsChanged, ApplySettings
      <4> QED BY <1>2, <2>3, <4>2, ArmArms
    <3> QED BY <2>4, <3>1, <3>2, <3>3, <3>4 DEF HandleGlobal
  <2>5. CASE e \notin GlobalEvents /\ HandleScene(e)
    <3>1. Keeps(GlobalEvents) /\ UNCHANGED appRunning
      BY <2>1, <2>5, SceneKeeps DEF appVars, e
    <3>2. CASE HandleUnlock(e)
      <4>1. locked BY <2>1, <3>2, TopTells DEF HandleUnlock, LockScene
      <4>2. autoLock' = Arm(settings'.delay) BY <3>2, <4>1 DEF HandleUnlock, DesktopUnlock, rest
      <4> QED BY <1>2, <2>3, <4>2, ArmArms
    <3>3. CASE HandleLock(e) BY <2>2, <3>3 DEF HandleLock
    <3>4. CASE ~HandleUnlock(e) /\ ~HandleLock(e)
      <4>1. UNCHANGED <<locked, autoLock>>
        BY <2>5, <3>4 DEF HandleScene, Navigate, HandleLaunch, HandleUpdate, HandleAnimation,
           HandleInteract, HandleDummyMode, HandlePinFailed, HandleList, Dropped, lockVars
      <4>2. settings'.delay = settings.delay
        <5>1. CASE HandleDummyMode(e) BY <1>0, <5>1 DEF HandleDummyMode, Settings
        <5>2. CASE ~HandleDummyMode(e)
          BY <2>5, <3>4, <5>2 DEF HandleScene, Navigate, HandleLaunch, HandleUpdate,
             HandleAnimation, HandleInteract, HandlePinFailed, HandleList, Dropped, rest
        <5> QED BY <5>1, <5>2
      <4> QED BY <1>3, <1>4, <2>1, <3>1, <4>1, <4>2
    <3> QED BY <3>2, <3>3, <3>4
  <2> QED BY <2>1, <2>4, <2>5
<1>14. CASE OtherPuts \/ LoaderServes \/ UNCHANGED vars
  <2>1. UNCHANGED <<halted, locked, appRunning, settings, autoLock, events>>
    BY <1>14, QuietSteps DEF deskVars, lockVars, appVars
  <2>2. Running BY <1>2, <2>1 DEF Running
  <2> QED BY <1>3, <2>1, <2>2
<1>15. CASE LoaderGivesUp BY <1>2, <1>15 DEF LoaderGivesUp, Crash, Running
<1> QED
  BY <1>5, <1>8, <1>9, <1>10, <1>11, <1>12, <1>13, <1>14, <1>15 DEF Next, Environment, LoaderSteps

\* An unlocked idle desktop with auto-lock on is going to lock, whatever order
\* applications, settings, presses and restarts come in (desktop_auto_lock_arm
\* and _inhibit, desktop_auto_lock_timer_callback), if no USB session holds it off.
THEOREM AutoLockAlwaysArmed ==
  ASSUME UsbInhibits = FALSE
  PROVE  Spec => []AutoLockArmed
<1>1. Init /\ LockInv => AutoLockArmed
  <2> SUFFICES ASSUME Init, LockInv, Running, ~locked, ~appRunning, settings.delay > 0
               PROVE  autoLock.sub = "on" /\ autoLock.timer = "on"
    BY DEF AutoLockArmed
  <2>1. PICK s \in SavedSettings, running \in BOOLEAN :
          /\ settings = s /\ autoLock = BootAutoLock(s, running) /\ locked = PinSet
          /\ appRunning = running
    BY DEF Init
  <2>2. s.delay # 0 BY <2>1, ConstantsAssumption DEF Settings
  <2>3. autoLock = [timer |-> "on", sub |-> "on"] BY <2>1, <2>2 DEF BootAutoLock
  <2> QED BY <2>3
<1>2. LockInv /\ LockInv' /\ AutoLockArmed /\ [Next]_vars => AutoLockArmed' BY ArmedInduction
<1> QED BY <1>1, <1>2, LockInvariant, PTL DEF Spec

-----------------------------------------------------------------------------
(* The locked view is ready                                                  *)

LEMMA NoneNotBefore ==
  ASSUME NEW s, NEW A, NEW B, HasNone(s, A) \/ HasNone(s, B)
  PROVE  NotBefore(s, A, B)
  BY DEF HasNone, NotBefore

\* An event is posted.
LEMMA HintPosts ==
  ASSUME RestTypeOK, HintInv, Running, ~view.remote, UNCHANGED locked,
         NEW e \in Event, events' = Append(events, e),
         IF locked THEN e \notin HomeEvents \/ HasNone(events, UnlockEvents)
         ELSE e \notin UnlockEvents,
         view'.state = "UnlockedHint" =>
           view.state = "UnlockedHint" /\ Top' = Top /\ e \notin HomeEvents
  PROVE  HintInv'
<1>1. events \in Seq(Event) BY DEF RestTypeOK
<1>3. view'.state = "UnlockedHint" => Top' = "Main" /\ HasNone(events', HomeEvents)
  BY <1>1, AppendHas DEF HintInv
<1>4. IF locked THEN NotBefore(events', UnlockEvents, HomeEvents)
      ELSE NotBefore(events', HomeEvents, UnlockEvents)
  BY <1>1, AppendHas DEF HintInv
<1> QED BY <1>3, <1>4 DEF HintInv

\* What is left of the queue after an event is taken.
LEMMA HintLeft ==
  ASSUME RestTypeOK, HintInv, Running, ~view.remote, events # <<>>,
         events' = Tail(events) \/ events' = Append(Tail(events), "DoorsClosed")
  PROVE  /\ HasNone(events, HomeEvents) => HasNone(events', HomeEvents)
         /\ locked => /\ NotBefore(events', UnlockEvents, HomeEvents)
                      /\ Head(events) \in UnlockEvents => HasNone(events', HomeEvents)
         /\ ~locked => /\ NotBefore(events', HomeEvents, UnlockEvents)
                       /\ Head(events) \in HomeEvents => HasNone(events', UnlockEvents)
<1> DEFINE r == Tail(events)
<1>1. /\ events \in Seq(Event) /\ r \in Seq(Event) /\ "DoorsClosed" \in Event
      /\ "DoorsClosed" \notin HomeEvents \cup UnlockEvents
  BY TailAt DEF RestTypeOK, Event, HomeEvents, UnlockEvents
<1>2. /\ HasNone(events, HomeEvents) => HasNone(r, HomeEvents)
      /\ locked => /\ NotBefore(r, UnlockEvents, HomeEvents)
                   /\ Head(events) \in UnlockEvents => HasNone(r, HomeEvents)
      /\ ~locked => /\ NotBefore(r, HomeEvents, UnlockEvents)
                    /\ Head(events) \in HomeEvents => HasNone(r, UnlockEvents)
  BY <1>1, TailHas DEF HintInv
<1> HIDE DEF r
<1>3. CASE events' = r BY <1>2, <1>3
<1>4. CASE events' = Append(r, "DoorsClosed")
  <2>1. /\ \A A \in {HomeEvents, UnlockEvents} : HasNone(r, A) => HasNone(events', A)
        /\ NotBefore(r, UnlockEvents, HomeEvents) => NotBefore(events', UnlockEvents, HomeEvents)
        /\ NotBefore(r, HomeEvents, UnlockEvents) => NotBefore(events', HomeEvents, UnlockEvents)
    BY <1>1, <1>4, AppendHas
  <2> QED BY <1>2, <2>1
<1> QED BY <1>3, <1>4 DEF r

LEMMA HintTakes ==
  ASSUME RestTypeOK, HintInv, Running, ~view.remote, events # <<>>, UNCHANGED locked,
         events' = Tail(events) \/ events' = Append(Tail(events), "DoorsClosed"),
         view'.state = "UnlockedHint" => view.state = "UnlockedHint" /\ Top' = "Main"
  PROVE  HintInv'
  BY HintLeft DEF HintInv

\* The desktop locks with the view unlocked, and unlocks with no event left
\* that would lock it at once.
LEMMA HintLocks ==
  ASSUME LockInv, ReadyInv, Running, ~view.remote, events # <<>>, events' = Tail(events),
         Head(events) \in HomeEvents, ~locked, DesktopLock
  PROVE  ReadyInv'
<1>0. RestTypeOK /\ LockAgrees /\ HintInv /\ events \in Seq(Event)
  BY DEF LockInv, DesktopTypeOK, RestTypeOK, ReadyInv
<1>1. ~HasNone(events, HomeEvents) BY <1>0, TailHas
<1>2. view.state = "Unlocked" BY <1>0, <1>1 DEF LockAgrees, HintInv
<1>3. locked' = TRUE /\ UNCHANGED halted BY <1>2 DEF DesktopLock
<1>4. view'.state # "UnlockedHint"
  <2>1. LockKept BY LockStep
  <2>2. LockAgrees' BY <1>3, <2>1 DEF LockKept, Running
  <2> QED BY <1>3, <2>2 DEF LockAgrees
<1>5. HasNone(events', UnlockEvents) BY <1>0, HintLeft
<1>6. NotBefore(events', UnlockEvents, HomeEvents) BY <1>5, NoneNotBefore
<1> QED BY <1>3, <1>4, <1>6 DEF ReadyInv, LockedViewReady, HintInv, Running

LEMMA HintUnlocks ==
  ASSUME LockInv, ReadyInv, Running, ~view.remote, events # <<>>, events' = Tail(events),
         Head(events) \in UnlockEvents \cup {"ApiUnlock"}, locked, DesktopUnlock
  PROVE  ReadyInv'
<1>0. RestTypeOK /\ HintInv /\ events \in Seq(Event) /\ events' \in Seq(Event)
  BY TailOK DEF LockInv, DesktopTypeOK, RestTypeOK, ReadyInv
<1>1. ~locked' /\ Top' = "Main" /\ view'.remote = (view.remote \/ Overtaken) /\ Running'
  BY UnlockStep
<1>2. CASE Overtaken
  <2>1. (view.remote \/ Overtaken) = TRUE BY <1>2
  <2>2. view'.remote BY <1>1, <2>1
  <2> QED BY <2>2 DEF ReadyInv, LockedViewReady, HintInv
<1>3. CASE ~Overtaken
  <2>1. HasNone(events', HomeEvents)
    <3>1. CASE Head(events) \in UnlockEvents BY <1>0, <3>1, HintLeft
    <3>2. CASE Head(events) = "ApiUnlock"
      <4>1. \A x : x \in Range(events') <=> Has(events', x) BY <1>0, RangeHas
      <4>2. Range(events') \cap HomeEvents = {} BY <1>3, <3>2 DEF Overtaken
      <4> QED BY <4>1, <4>2 DEF HasNone, Has
    <3> QED BY <3>1, <3>2
  <2>2. NotBefore(events', HomeEvents, UnlockEvents) BY <2>1, NoneNotBefore
  <2> QED BY <1>1, <2>1, <2>2 DEF ReadyInv, LockedViewReady, HintInv, Running
<1> QED BY <1>2, <1>3

\* That an API unlock overtook a press is remembered until the next start.
LEMMA RemoteStays ==
  ASSUME LockInv, [Next]_vars, ~Reboot, view.remote
  PROVE  view'.remote
<1>0. view \in View /\ DesktopTypeOK BY DEF LockInv, DesktopTypeOK, LockTypeOK
<1>1. CASE UNCHANGED view BY <1>1
<1>2. ASSUME DesktopLock PROVE view'.remote
  <2>1. view' \in {view, LockedView(view, rtc.fails)} BY <1>2 DEF DesktopLock
  <2>2. LockedView(view, rtc.fails).remote BY <1>0 DEF LockedView, View
  <2> QED BY <2>1, <2>2
<1>3. ASSUME DesktopUnlock PROVE view'.remote
  <2> DEFINE b == view.remote \/ Overtaken
  <2>1. \/ UNCHANGED view
        \/ view' = [state |-> "UnlockedHint", pin |-> FALSE, timer |-> "on", count |-> 0,
                    remote |-> b]
    BY <1>3 DEF DesktopUnlock
  <2>2. b = TRUE OBVIOUS
  <2> HIDE DEF b
  <2>3. CASE view' = [state |-> "UnlockedHint", pin |-> FALSE, timer |-> "on", count |-> 0,
                      remote |-> b]
    BY <2>2, <2>3
  <2> QED BY <1>1, <2>1, <2>3
<1>4. CASE Key
  <2>1. view' = HintDropped BY <1>4 DEF Key
  <2> QED BY <1>0, <2>1 DEF HintDropped, View
<1>5. CASE LockedKey
  <2>1. \/ UNCHANGED view
        \/ \E n : view' = [view EXCEPT !.state = "LockedHint", !.timer = "on", !.count = n]
    BY <1>5 DEF LockedKey
  <2> QED BY <1>0, <1>1, <2>1 DEF View
<1>6. CASE HandleEvent
  <2>1. ASSUME NEW e, HandleGlobal(e) PROVE view'.remote
    BY <1>1, <1>2, <2>1 DEF HandleGlobal
  <2>2. ASSUME NEW e, HandleUpdate(e) PROVE view'.remote
    <3>1. view' \in Updated(view) BY <2>2 DEF HandleUpdate, UpdateView
    <3> QED BY <1>0, <3>1 DEF Updated, View
  <2>3. ASSUME NEW e, HandleScene(e) PROVE view'.remote
    BY <1>1, <1>2, <1>3, <2>2, <2>3 DEF HandleScene, Navigate, HandleLock, HandleLaunch,
       HandleUnlock, HandleAnimation, HandleInteract, HandleDummyMode, HandlePinFailed,
       HandleList, Dropped
  <2> QED BY <1>6, <2>1, <2>3 DEF HandleEvent
<1>7. CASE KeyBack \/ WrongPin \/ LoaderAcquire \/ PinTimeoutTimer
  BY <1>1, <1>7 DEF KeyBack, WrongPin, LoaderAcquire, PinTimeoutTimer
<1>8. CASE Environment \/ UNCHANGED vars
  <2>1. UNCHANGED view
    BY <1>8 DEF Environment, LoaderSteps, LoaderBeforeLoad, LoaderNoMoreApps, LoaderServes,
       LoaderGivesUp, OtherPuts, SetSettings, SetPin, Reported, PinIdle, LockedTimer,
       AutoLockTimer, vars
  <2> QED BY <1>1, <2>1
<1> QED BY <1>4, <1>5, <1>6, <1>7, <1>8 DEF Next, User

LEMMA ReadyInduction == LockInv /\ LockInv' /\ ReadyInv /\ [Next]_vars => ReadyInv'
<1> SUFFICES ASSUME LockInv, LockInv', ReadyInv, [Next]_vars, ~view.remote \/ Reboot
             PROVE  ReadyInv'
  <2>1. ASSUME LockInv, [Next]_vars, view.remote, ~Reboot PROVE ReadyInv'
    <3>1. view'.remote BY <2>1, RemoteStays
    <3> QED BY <3>1 DEF ReadyInv, LockedViewReady, HintInv
  <2> QED BY <2>1
<1>0. /\ DesktopTypeOK /\ RestTypeOK /\ LockTypeOK /\ events \in Seq(Event) /\ view \in View
      /\ HintInv
  BY DEF LockInv, DesktopTypeOK, RestTypeOK, LockTypeOK, ReadyInv
<1>1. ASSUME Running PROVE LockAgrees /\ (Top \notin LockScene \cup {"Boot"} => ~locked)
                           /\ (Top \in LockScene => locked)
  BY <1>1, TopTells DEF LockInv
<1>a. ASSUME HintInv', halted' # "lockedView" PROVE ReadyInv' BY <1>a DEF ReadyInv, LockedViewReady
<1>b. Running => halted # "lockedView" BY DEF Running
\* Steps that post an event neither the home screen nor the lock screen posts.
<1>2. ASSUME NEW e \in Event \ (HomeEvents \cup UnlockEvents), events' = Append(events, e),
             Running, ~view.remote, UNCHANGED <<locked, view, scenes, halted>>
      PROVE  ReadyInv'
  <2>1. Top' = Top BY <1>2 DEF Top
  <2> QED BY <1>0, <1>a, <1>b, <1>2, <2>1, HintPosts
<1>3. {"PinFailed", "ShowPinInput", "PinBack", "LockedUpdate", "PinTimeoutExit",
       "SaveSettings", "ReloadSettings", "NewIdleAnimation", "CheckAnimation", "ApiUnlock",
       "BeforeAppStarted", "AfterAppFinished"} \subseteq Event \ (HomeEvents \cup UnlockEvents)
  BY DEF Event, GlobalEvents, AnimationEvents, HomeEvents, UnlockEvents
<1>4. CASE ~view.remote /\ (WrongPin \/ PinIdle \/ LockedTimer \/ PinTimeoutTimer)
  <2>1. /\ Running /\ UNCHANGED <<locked, view, scenes, halted>>
        /\ \/ events' = Append(events, "PinFailed") \/ events' = Append(events, "PinBack")
           \/ events' = Append(events, "LockedUpdate") \/ events' = Append(events, "PinTimeoutExit")
    BY <1>4 DEF WrongPin, PinIdle, LockedTimer, PinTimeoutTimer, Post, lockVars, sceneVars
  <2> QED BY <1>2, <1>3, <1>4, <2>1
<1>5. CASE ~view.remote /\ (LoaderBeforeLoad \/ LoaderNoMoreApps \/ SetSettings \/ Reported)
  <2>1. /\ Running /\ UNCHANGED <<locked, view, scenes, halted>>
        /\ \/ events' = Append(events, "BeforeAppStarted")
           \/ events' = Append(events, "AfterAppFinished")
           \/ events' = Append(events, "SaveSettings")
           \/ \E e \in {"ApiUnlock", "ReloadSettings", "NewIdleAnimation", "CheckAnimation"} :
                events' = Append(events, e)
    BY <1>5 DEF LoaderBeforeLoad, LoaderNoMoreApps, SetSettings, Reported, Post, lockVars, sceneVars
  <2> QED BY <1>2, <1>3, <1>5, <2>1
<1>6. CASE SetPin \/ LoaderAcquire
  <2>1. Running /\ UNCHANGED <<locked, view, scenes, halted, events>>
    BY <1>6 DEF SetPin, LoaderAcquire, lockVars, sceneVars
  <2>2. Top' = Top BY <2>1 DEF Top
  <2>3. HintInv' BY <1>0, <2>1, <2>2 DEF HintInv
  <2> QED BY <1>a, <1>b, <2>1, <2>3
<1>7. CASE KeyBack /\ ~view.remote
  <2>1. Running /\ UNCHANGED <<locked, view, halted, events>> /\ Top # "Main"
    BY <1>7 DEF KeyBack, lockVars
  <2>2. view.state # "UnlockedHint" BY <1>0, <1>7, <2>1 DEF HintInv
  <2>3. HintInv' BY <1>0, <2>1, <2>2 DEF HintInv
  <2> QED BY <1>a, <1>b, <2>1, <2>3
<1>8. CASE Key /\ ~view.remote
  <2>1. PICK e \in (KeyEvents(Top) \cap Inputs) \cup LineEvents(Top) : Post(e) BY <1>8 DEF Key
  <2>2. /\ Running /\ UNCHANGED <<locked, halted>> /\ view' = HintDropped
        /\ events' = Append(events, e)
    BY <1>8, <2>1 DEF Key, lockVars, Post
  <2>3. /\ e \in Event /\ e # "LockedUnlocked"
        /\ Top \in LockScene \cup {"Boot"} => e \notin HomeEvents
        /\ e = "PinUnlocked" => Top = "PinInput"
    BY <1>0, <2>1, KeyPosts DEF UserEvents, HomeEvents
  <2>4. IF locked THEN e \notin HomeEvents ELSE e \notin UnlockEvents
    BY <1>1, <2>2, <2>3 DEF UnlockEvents, LockScene
  <2>5. view'.state # "UnlockedHint"
    <3>1. CASE view.state = "UnlockedHint"
      <4>1. Top = "Main" BY <1>0, <1>8, <2>2, <3>1 DEF HintInv
      <4>2. view' = [view EXCEPT !.state = "Unlocked"] BY <2>2, <3>1, <4>1 DEF HintDropped
      <4> QED BY <1>0, <4>2 DEF View
    <3>2. CASE view.state # "UnlockedHint" BY <2>2, <3>2 DEF HintDropped
    <3> QED BY <3>1, <3>2
  <2>6. HintInv' BY <1>0, <1>8, <2>2, <2>3, <2>4, <2>5, HintPosts
  <2> QED BY <1>a, <1>b, <2>2, <2>6
<1>9. CASE LockedKey /\ ~view.remote
  <2>1. Running /\ Top = "Locked" /\ UNCHANGED <<locked, halted>>
    BY <1>9 DEF LockedKey, lockVars
  <2>2. locked BY <1>1, <2>1 DEF LockScene
  <2>3. view'.state # "UnlockedHint"
    <3>1. Running' BY <2>1 DEF Running
    <3>2. LockAgrees' BY <3>1 DEF LockInv
    <3> QED BY <2>1, <2>2, <3>2 DEF LockAgrees
  <2>4. CASE UNCHANGED events
    <3>1. HintInv' BY <1>0, <1>9, <2>1, <2>3, <2>4 DEF HintInv
    <3> QED BY <1>a, <1>b, <2>1, <3>1
  <2>5. ASSUME NEW e \in {"ShowPinInput", "LockedUnlocked"}, events' = Append(events, e)
        PROVE  ReadyInv'
    <3>1. e \in Event /\ e \notin HomeEvents BY DEF Event, HomeEvents
    <3>2. HintInv' BY <1>0, <1>9, <2>1, <2>2, <2>3, <2>5, <3>1, HintPosts
    <3> QED BY <1>a, <1>b, <2>1, <3>2
  <2> QED BY <1>9, <2>4, <2>5 DEF LockedKey, Post
<1>10. CASE AutoLockTimer /\ ~view.remote
  <2>1. /\ Running /\ UNCHANGED <<locked, halted, view>> /\ view.state # "UnlockedHint"
        /\ Range(events) \cap UserEvents = {} /\ events' = Append(events, "AutoLock")
    BY <1>10 DEF AutoLockTimer, lockVars, Post
  <2>2. HasNone(events, UnlockEvents)
    <3>1. UnlockEvents \subseteq UserEvents
      BY DEF UnlockEvents, UserEvents, Event, GlobalEvents
    <3>2. \A i \in 1 .. Len(events) : events[i] \in Range(events) BY <1>0 DEF Range
    <3> QED BY <2>1, <3>1, <3>2 DEF HasNone
  <2>3. "AutoLock" \in Event /\ "AutoLock" \notin UnlockEvents
    BY DEF Event, GlobalEvents, UnlockEvents
  <2>4. HintInv' BY <1>0, <1>10, <2>1, <2>2, <2>3, HintPosts
  <2> QED BY <1>a, <1>b, <2>1, <2>4
<1>11. CASE Reboot
  <2>1. events' = <<>> /\ view' = BootView(rtc.fails) /\ halted' = "no" BY <1>11 DEF Reboot
  <2>2. view'.state # "UnlockedHint"
    <3>1. PinSet \in BOOLEAN /\ rtc.fails \in Nat /\ NoSettings \in SavedSettings
      BY <1>0, ConstantsAssumption DEF LockTypeOK, PinSet
    <3> QED BY <2>1, <3>1, BootValues
  <2>3. HintInv' BY <2>1, <2>2, EmptyHas DEF HintInv
  <2> QED BY <1>a, <2>1, <2>3
<1>12. CASE HandleEvent /\ ~view.remote
  <2> DEFINE e == Head(events)
  <2>1. /\ Running /\ events # <<>>
        /\ \/ HandleGlobal(e) /\ events' = Tail(events) /\ UNCHANGED announced
           \/ e \notin GlobalEvents /\ HandleScene(e)
    BY <1>12 DEF HandleEvent
  <2>2. LockAgrees /\ (e \in HomeEvents => view.state # "UnlockedHint")
    BY <1>0, <1>1, <1>12, <2>1, TailHas DEF HintInv
  <2> HIDE DEF e
  <2>3. CASE HandleGlobal(e) /\ events' = Tail(events)
    <3>1. CASE e = "AutoLock" /\ AutoLocks /\ DesktopLock
      <4>1. e \in HomeEvents BY <3>1 DEF HomeEvents
      <4> QED BY <1>12, <2>1, <2>3, <3>1, <4>1, HintLocks DEF AutoLocks, e
    <3>2. CASE UNCHANGED <<lockVars, sceneVars, view>> /\ halted' \in {halted, "animation"}
      <4>1. UNCHANGED <<locked, view>> /\ Top' = Top BY <3>2 DEF lockVars, sceneVars, Top
      <4>2. HintInv' BY <1>0, <1>12, <2>1, <2>3, <4>1, HintTakes DEF HintInv
      <4> QED BY <1>a, <1>b, <2>1, <3>2, <4>2
    <3> QED BY <2>3, <3>1, <3>2 DEF HandleGlobal, BeforeAppStarted, AfterAppFinished, Crash
  <2>4. CASE e \notin GlobalEvents /\ HandleScene(e)
    <3>1. CASE HandleLock(e)
      <4>1. e \in HomeEvents /\ events' = Tail(events) /\ ~locked
        BY <1>1, <2>1, <3>1 DEF HandleLock, HomeEvents, LockScene
      <4> QED BY <1>12, <2>1, <3>1, <4>1, HintLocks DEF HandleLock, e
    <3>2. CASE HandleUnlock(e)
      <4>1. e \in UnlockEvents \cup {"ApiUnlock"} /\ events' = Tail(events) /\ locked
        BY <1>1, <2>1, <3>2 DEF HandleUnlock, UnlockEvents, LockScene
      <4> QED BY <1>12, <2>1, <3>2, <4>1, HintUnlocks DEF HandleUnlock, e
    <3>3. CASE ~HandleLock(e) /\ ~HandleUnlock(e)
      <4>1. UNCHANGED locked /\ halted' # "lockedView"
        BY <1>b, <2>1, <2>4, <3>3 DEF HandleScene, Navigate, HandleLaunch, HandleUpdate,
           HandleAnimation, HandleInteract, HandleDummyMode, HandlePinFailed, HandleList, Dropped, lockVars, Crash
      <4>2. events' = Tail(events) \/ events' = Append(Tail(events), "DoorsClosed")
        BY <2>4, <3>3 DEF HandleScene, Navigate, HandleLaunch, HandleUpdate, HandleAnimation,
           HandleInteract, HandleDummyMode, HandlePinFailed, HandleList, Dropped, UpdateView
      <4>3. CASE UNCHANGED view
        <5>1. ASSUME view.state = "UnlockedHint" PROVE Top' = "Main"
          <6>1. Top = "Main" /\ e \notin HomeEvents
            BY <1>0, <1>12, <2>1, <2>2, <5>1 DEF HintInv
          <6>2. ~Navigate(e) BY <6>1 DEF Navigate, Navigation, HomeEvents
          <6>3. UNCHANGED scenes
            BY <2>4, <3>3, <6>1, <6>2 DEF HandleScene, HandleLaunch, HandleUpdate,
               HandleAnimation, HandleInteract, HandleDummyMode, HandlePinFailed, HandleList,
               Dropped, sceneVars
          <6> QED BY <6>1, <6>3 DEF Top
        <5> QED BY <1>0, <1>a, <1>12, <2>1, <4>1, <4>2, <4>3, <5>1, HintTakes
      <4>4. CASE HandleUpdate(e)
        <5>1. view' \in Updated(view) BY <4>4 DEF HandleUpdate, UpdateView
        <5>2. view'.state # "UnlockedHint" BY <1>0, <5>1 DEF Updated, View
        <5> QED BY <1>0, <1>a, <1>12, <2>1, <4>1, <4>2, <5>2, HintTakes
      <4> QED BY <2>4, <3>3, <4>3, <4>4 DEF HandleScene, Navigate, HandleLaunch, HandleAnimation,
             HandleInteract, HandleDummyMode, HandlePinFailed, HandleList, Dropped
    <3> QED BY <3>1, <3>2, <3>3
  <2> QED BY <2>1, <2>3, <2>4
<1>13. CASE OtherPuts \/ LoaderServes \/ UNCHANGED vars
  <2>1. UNCHANGED <<halted, locked, view, scenes, events>>
    BY <1>13, QuietSteps DEF deskVars, lockVars, sceneVars
  <2>2. Top' = Top BY <2>1 DEF Top
  <2> QED BY <2>1, <2>2 DEF ReadyInv, LockedViewReady, HintInv, Running
<1>14. CASE LoaderGivesUp
  BY <1>14 DEF LoaderGivesUp, Crash, ReadyInv, LockedViewReady, HintInv, Running
<1> QED
  BY <1>4, <1>5, <1>6, <1>7, <1>8, <1>9, <1>10, <1>11, <1>12, <1>13, <1>14
  DEF Next, User, Environment, LoaderSteps

\* The assertion of desktop_view_locked_lock holds: whenever the desktop locks,
\* the locked view is in its unlocked state, until an unlock over the API is
\* handled ahead of a queued press of the home screen.
THEOREM LockedViewAlwaysReady == Spec => []LockedViewReady
<1>1. Init /\ LockInv => ReadyInv
  <2> SUFFICES ASSUME Init, LockInv PROVE ReadyInv OBVIOUS
  <2>1. events = <<>> /\ view = BootView(0) /\ halted = "no" BY DEF Init
  <2>2. PinSet \in BOOLEAN /\ 0 \in Nat /\ NoSettings \in SavedSettings
    BY ConstantsAssumption DEF LockInv, DesktopTypeOK, LockTypeOK, PinSet
  <2>3. view.state # "UnlockedHint" BY <2>1, <2>2, BootValues
  <2> QED BY <2>1, <2>3, EmptyHas DEF ReadyInv, LockedViewReady, HintInv
<1>2. ReadyInv => LockedViewReady BY DEF ReadyInv
<1> QED BY <1>1, <1>2, ReadyInduction, LockInvariant, PTL DEF Spec

-----------------------------------------------------------------------------
(* The penalty                                                               *)

LEMMA ComingPosted ==
  ASSUME NEW S, NEW s \in Seq(S), NEW e \in S, e # "PinTimeoutExit",
         Coming(s) \/ (e = "PinFailed" /\ HasNone(s, {"PinBack"}))
  PROVE  Coming(Append(s, e))
<1> DEFINE r == Append(s, e)
<1>1. /\ Len(r) = Len(s) + 1 /\ Len(s) \in Nat /\ r[Len(s) + 1] = e
      /\ \A i \in 1 .. Len(s) : r[i] = s[i]
  BY AppendAt
<1> HIDE DEF r
<1>2. \A i \in 1 .. Len(r) : i \in 1 .. Len(s) \/ i = Len(s) + 1 BY <1>1
<1>3. CASE Coming(s)
  <2>1. PICK j \in 1 .. Len(s) : Failure(s, j) BY <1>3 DEF Coming
  <2>2. j \in 1 .. Len(r) /\ r[j] = "PinFailed" BY <1>1, <2>1 DEF Failure
  <2>3. ASSUME NEW i \in 1 .. Len(r)
        PROVE  (i < j => r[i] # "PinBack") /\ (i > j => r[i] # "PinTimeoutExit")
    <3>1. CASE i \in 1 .. Len(s) BY <1>1, <2>1, <3>1 DEF Failure
    <3>2. CASE i = Len(s) + 1 BY <1>1, <3>2
    <3> QED BY <1>2, <3>1, <3>2
  <2> QED BY <2>2, <2>3 DEF Coming, Failure, r
<1>4. CASE e = "PinFailed" /\ HasNone(s, {"PinBack"})
  <2> DEFINE j == Len(s) + 1
  <2>1. j \in 1 .. Len(r) /\ r[j] = "PinFailed" BY <1>1, <1>4
  <2>2. ASSUME NEW i \in 1 .. Len(r)
        PROVE  (i < j => r[i] # "PinBack") /\ (i > j => r[i] # "PinTimeoutExit")
    <3>1. CASE i \in 1 .. Len(s) BY <1>1, <1>4, <3>1 DEF HasNone
    <3>2. CASE i = Len(s) + 1 BY <1>1, <3>2
    <3> QED BY <1>2, <3>1, <3>2
  <2> QED BY <2>1, <2>2 DEF Coming, Failure, r
<1> QED BY <1>3, <1>4

LEMMA ComingTaken ==
  ASSUME NEW S, NEW s \in Seq(S), s # <<>>, Coming(s)
  PROVE  /\ Head(s) # "PinBack"
         /\ Coming(Tail(s)) \/ (Head(s) = "PinFailed" /\ NoExit(Tail(s)))
<1> DEFINE r == Tail(s)
<1>1. /\ Len(r) = Len(s) - 1 /\ Len(s) \in Nat \ {0} /\ Head(s) = s[1]
      /\ \A i \in 1 .. Len(r) : r[i] = s[i + 1]
  BY TailAt
<1> HIDE DEF r
<1>2. PICK j \in 1 .. Len(s) : Failure(s, j) BY DEF Coming
<1>3. 1 \in 1 .. Len(s) /\ \A i \in 1 .. Len(r) : i + 1 \in 1 .. Len(s) BY <1>1
<1>4. CASE j = 1
  <2>1. \A i \in 1 .. Len(r) : r[i] # "PinTimeoutExit"
    <3>1. ASSUME NEW i \in 1 .. Len(r) PROVE r[i] # "PinTimeoutExit"
      <4>1. i + 1 > j BY <1>1, <1>4
      <4> QED BY <1>1, <1>2, <1>3, <4>1 DEF Failure
    <3> QED BY <3>1
  <2> QED BY <1>1, <1>2, <1>4, <2>1 DEF Failure, NoExit, HasNone, r
<1>5. CASE j # 1
  <2>1. s[1] # "PinBack"
    <3>1. 1 < j BY <1>1, <1>5
    <3> QED BY <1>2, <1>3, <3>1 DEF Failure
  <2>2. j - 1 \in 1 .. Len(r) /\ (j - 1) + 1 = j BY <1>1, <1>5
  <2>3. r[j - 1] = "PinFailed" BY <1>1, <1>2, <2>2 DEF Failure
  <2>4. ASSUME NEW i \in 1 .. Len(r)
        PROVE  (i < j - 1 => r[i] # "PinBack") /\ (i > j - 1 => r[i] # "PinTimeoutExit")
    <3>1. (i < j - 1 => i + 1 < j) /\ (i > j - 1 => i + 1 > j) BY <1>1, <2>2
    <3> QED BY <1>1, <1>2, <1>3, <3>1 DEF Failure
  <2> QED BY <1>1, <2>1, <2>2, <2>3, <2>4 DEF Coming, Failure, r
<1> QED BY <1>4, <1>5

\* What taking an event leaves.
LEMMA PenaltyLeft ==
  ASSUME RestTypeOK, events # <<>>,
         events' = Tail(events) \/ events' = Append(Tail(events), "DoorsClosed")
  PROVE  /\ Coming(events) => /\ Head(events) # "PinBack"
                              /\ \/ Coming(events')
                                 \/ Head(events) = "PinFailed" /\ NoExit(events')
         /\ NoExit(events) => Head(events) # "PinTimeoutExit" /\ NoExit(events')
<1> DEFINE r == Tail(events)
<1>1. events \in Seq(Event) /\ r \in Seq(Event) /\ "DoorsClosed" \in Event
  BY TailAt DEF RestTypeOK, Event
<1>2. Coming(events) => /\ Head(events) # "PinBack"
                        /\ Coming(r) \/ (Head(events) = "PinFailed" /\ NoExit(r))
  BY <1>1, ComingTaken
<1>3. NoExit(events) => Head(events) # "PinTimeoutExit" /\ NoExit(r)
  BY <1>1, TailHas DEF NoExit
<1> HIDE DEF r
<1>4. CASE events' = r BY <1>2, <1>3, <1>4
<1>5. CASE events' = Append(r, "DoorsClosed")
  <2>1. Coming(r) => Coming(events') BY <1>1, <1>5, ComingPosted
  <2>2. NoExit(r) => NoExit(events') BY <1>1, <1>5, AppendHas DEF NoExit
  <2> QED BY <1>2, <1>3, <2>1, <2>2
<1> QED BY <1>4, <1>5 DEF r

\* Where the lock screen is while a wait is owed.
LEMMA OwedTop ==
  ASSUME LockInv, PenaltyInv, Running, penalty.due
  PROVE  /\ locked /\ FailTimeout(rtc.fails) /\ Top \in {"PinInput", "PinTimeout", "Boot"}
         /\ Top = "PinInput" => Coming(events)
         /\ Top = "Boot" => NoExit(events)
         /\ Top # "PinInput" => penalty.timer = "on"
         /\ Coming(events) \/ NoExit(events)
<1>1. PICK l \in 2 .. Len(scenes), t \in Over : LockedAt(scenes, l, t) /\ Waits(t)
  BY DEF PenaltyInv, OwedWait
<1>2. LockTypeOK /\ locked /\ FailTimeout(rtc.fails)
  BY DEF LockInv, DesktopTypeOK, PenaltyInv, OwedWait
<1>3. /\ t = <<"PinInput">> => Top = "PinInput"
      /\ t = <<"PinTimeout">> => Top = "PinTimeout"
      /\ t = <<"PinInput", "PinTimeout">> => Top = "PinTimeout"
      /\ t = <<"PinTimeout", "Boot">> => Top = "Boot"
  BY <1>1, <1>2, LockedTop
<1>4. CASE WaitComing(t) BY <1>1, <1>2, <1>3, <1>4 DEF WaitComing, Waits
<1>5. CASE WaitOn(t) BY <1>1, <1>2, <1>3, <1>5 DEF WaitOn, Waits
<1> QED BY <1>1, <1>4, <1>5 DEF Waits

\* A step that does not move between scenes.
LEMMA PenaltyFrame ==
  ASSUME LockInv, PenaltyInv, Running, UNCHANGED <<locked, scenes>>,
         penalty'.due => penalty.due /\ penalty'.timer = penalty.timer,
         FailTimeout(rtc.fails) => FailTimeout(rtc'.fails),
         penalty'.due /\ Coming(events) => Coming(events') \/ (Top # "PinInput" /\ NoExit(events')),
         penalty'.due /\ NoExit(events) => NoExit(events')
  PROVE  PenaltyInv'
<1>1. ASSUME penalty'.due
      PROVE  /\ locked' /\ FailTimeout(rtc'.fails)
             /\ \E l \in 2 .. Len(scenes'), t \in Over : LockedAt(scenes', l, t) /\ Waits(t)'
  <2>1. /\ locked /\ FailTimeout(rtc.fails) /\ LockTypeOK
        /\ \E l \in 2 .. Len(scenes), t \in Over : LockedAt(scenes, l, t) /\ Waits(t)
    BY <1>1 DEF PenaltyInv, OwedWait, LockInv, DesktopTypeOK
  <2>2. PICK l \in 2 .. Len(scenes), t \in Over : LockedAt(scenes, l, t) /\ Waits(t) BY <2>1
  <2>3. t = <<"PinInput">> => Top = "PinInput" BY <2>1, <2>2, LockedTop
  <2>4. CASE WaitComing(t)
    <3>1. Coming(events') \/ (Top # "PinInput" /\ NoExit(events'))
      BY <1>1, <2>4 DEF WaitComing
    <3>2. WaitComing(t)' \/ WaitOn(t)' BY <2>3, <2>4, <3>1 DEF WaitComing, WaitOn
    <3> QED BY <1>1, <2>1, <2>2, <3>2 DEF Waits
  <2>5. CASE WaitOn(t)
    <3>1. WaitOn(t)' BY <1>1, <2>5 DEF WaitOn
    <3> QED BY <1>1, <2>1, <2>2, <3>1 DEF Waits
  <2> QED BY <2>2, <2>4, <2>5 DEF Waits
<1>2. OwedWait' BY <1>1 DEF OwedWait, FailTimeout
<1> QED BY <1>2 DEF PenaltyInv

LEMMA PenaltyPosts ==
  ASSUME LockInv, PenaltyInv, Running, UNCHANGED <<locked, scenes>>,
         penalty'.due => penalty.due /\ penalty'.timer = penalty.timer,
         FailTimeout(rtc.fails) => FailTimeout(rtc'.fails),
         NEW e \in Event, events' = Append(events, e),
         e = "PinTimeoutExit" => ~penalty'.due
  PROVE  PenaltyInv'
<1>1. events \in Seq(Event) BY DEF LockInv, DesktopTypeOK, RestTypeOK
<1>2. penalty'.due /\ Coming(events) => Coming(events') BY <1>1, ComingPosted
<1>3. penalty'.due /\ NoExit(events) => NoExit(events') BY <1>1, AppendHas DEF NoExit
<1> QED BY <1>2, <1>3, PenaltyFrame

\* The scenes a step reaches while a wait is owed.
LEMMA OwedMoves ==
  ASSUME LockInv, PenaltyInv, Running, penalty.due, SceneMove,
         \/ /\ Top = "PinInput" /\ scenes' = Append(scenes, "PinTimeout")
            /\ Coming(events') \/ NoExit(events')
            /\ penalty'.timer = "on"
         \/ /\ Top = "PinTimeout" /\ scenes' = Front(scenes)
            /\ ~NoExit(events) /\ Coming(events')
         \/ /\ Top = "Boot" /\ scenes' = Front(scenes)
            /\ NoExit(events') /\ penalty'.timer = "on"
  PROVE  \E l \in 2 .. Len(scenes'), t \in Over : LockedAt(scenes', l, t) /\ Waits(t)'
<1>0. LockTypeOK /\ scenes \in Seq(Scene) /\ scenes # <<>> /\ Len(scenes) \in Nat
  BY DEF LockInv, DesktopTypeOK, LockTypeOK
<1>1. PICK l \in 2 .. Len(scenes), t \in Over : LockedAt(scenes, l, t) /\ Waits(t)
  BY DEF PenaltyInv, OwedWait
<1>2. /\ t = <<"PinInput">> => Top = "PinInput"
      /\ t = <<"PinTimeout">> => Top = "PinTimeout"
      /\ t = <<"PinInput", "PinTimeout">> => Top = "PinTimeout"
      /\ t = <<"PinTimeout", "Boot">> => Top = "Boot"
  BY <1>0, <1>1, LockedTop
<1>3. PICK u \in Over : LockedAt(scenes', l, u) /\ OverMove(t, u) BY <1>0, <1>1, LockedMoves
<1>4. l \in 2 .. Len(scenes') /\ Len(scenes') = l + Len(u) /\ Len(scenes) = l + Len(t)
  BY <1>1, <1>3 DEF LockedAt
<1>6. Len(u) \in Nat /\ Len(t) \in Nat BY DEF Over
<1>7. Waits(u)'
  <2>1. CASE /\ Top = "PinInput" /\ scenes' = Append(scenes, "PinTimeout")
             /\ Coming(events') \/ NoExit(events')
             /\ penalty'.timer = "on"
    <3>1. t = <<"PinInput">> BY <1>1, <1>2, <2>1 DEF Waits, WaitComing, WaitOn
    <3>2. u \in {t, <<>>, <<"PinInput", "PinTimeout">>} BY <1>3, <3>1 DEF OverMove
    <3>3. Len(u) = Len(t) + 1
      <4>1. Len(scenes') = Len(scenes) + 1 BY <1>0, <2>1
      <4> QED BY <1>0, <1>4, <1>6, <4>1
    <3>4. Len(t) = 1 /\ Len(<<>>) = 0 BY <3>1
    <3>5. u # t /\ u # <<>> BY <3>3, <3>4
    <3>6. u = <<"PinInput", "PinTimeout">> BY <3>2, <3>5
    <3>7. WaitComing(u)' \/ WaitOn(u)' BY <2>1, <3>6 DEF WaitComing, WaitOn
    <3> QED BY <2>1, <3>7 DEF Waits
  <2>2. CASE scenes' = Front(scenes) /\ Top # "PinInput"
    <3>1. Len(u) = Len(t) - 1
      <4>1. Len(scenes') = Len(scenes) - 1 BY <1>0, <2>2, FrontAt
      <4> QED BY <1>0, <1>4, <1>6, <4>1
    <3>2. CASE Top = "PinTimeout" /\ ~NoExit(events) /\ Coming(events')
      <4>1. t = <<"PinInput", "PinTimeout">>
        BY <1>1, <1>2, <3>2 DEF Waits, WaitComing, WaitOn
      <4>2. u \in {t, <<"PinInput">>} BY <1>3, <4>1 DEF OverMove
      <4>3. u = <<"PinInput">> BY <1>6, <3>1, <4>2
      <4>4. WaitComing(u)' BY <3>2, <4>3 DEF WaitComing
      <4> QED BY <4>3, <4>4 DEF Waits
    <3>3. CASE Top = "Boot" /\ NoExit(events') /\ penalty'.timer = "on"
      <4>1. t = <<"PinTimeout", "Boot">> BY <1>1, <1>2, <3>3 DEF Waits, WaitComing, WaitOn
      <4>2. u \in {t, <<"PinTimeout">>} BY <1>3, <4>1 DEF OverMove
      <4>3. u = <<"PinTimeout">> BY <1>6, <3>1, <4>2
      <4>4. WaitOn(u)' BY <3>3, <4>3 DEF WaitOn
      <4> QED BY <3>3, <4>4 DEF Waits
    <3> QED BY <2>2, <3>2, <3>3
  <2> QED BY <2>1, <2>2
<1> QED BY <1>3, <1>4, <1>7

\* The handlers that may move while a wait is owed.
LEMMA OwedHandlers ==
  ASSUME LockInv, Running, NEW e, HandleScene(e), Top \in {"PinInput", "PinTimeout", "Boot"}
  PROVE  \/ Top = "PinInput" /\ e = "PinBack"
         \/ Top = "PinInput" /\ HandleUnlock(e)
         \/ /\ Top = "PinInput" /\ HandlePinFailed(e) /\ e = "PinFailed"
            /\ FailTimeout(rtc.fails) => NextScene("PinTimeout")
         \/ Top = "PinTimeout" /\ Navigate(e) /\ e = "PinTimeoutExit" /\ scenes' = Front(scenes)
         \/ Top = "Boot" /\ Navigate(e) /\ e = "BootExit" /\ scenes' = Front(scenes)
         \/ Dropped(e) /\ (e = "PinFailed" => Top # "PinInput")
<1>1. CASE Navigate(e)
  <2>1. Top \in Scene BY DEF Scene
  <2> QED BY <1>1, <2>1, NavigateLeads DEF PreviousScene, Enter
<1>2. CASE HandleUnlock(e) BY <1>2 DEF HandleUnlock
<1>3. CASE HandlePinFailed(e) BY <1>3 DEF HandlePinFailed
<1>4. CASE Dropped(e)
  <2>1. Top = "PinInput" => "PinFailed" \in Known(Top) BY DEF Known
  <2> QED BY <1>4, <2>1 DEF Dropped
<1>5. ~HandleLock(e) /\ ~HandleLaunch(e) /\ ~HandleUpdate(e) /\ ~HandleAnimation(e)
      /\ ~HandleInteract(e) /\ ~HandleDummyMode(e) /\ ~HandleList(e)
  BY DEF HandleLock, HandleLaunch, HandleUpdate, HandleAnimation, HandleInteract,
         HandleDummyMode, HandleList
<1> QED BY <1>1, <1>2, <1>3, <1>4, <1>5 DEF HandleScene

LEMMA PenaltyInduction == LockInv /\ PenaltyInv /\ [Next]_vars => PenaltyInv'
<1> SUFFICES ASSUME LockInv, PenaltyInv, [Next]_vars PROVE PenaltyInv' OBVIOUS
<1>0. /\ DesktopTypeOK /\ RestTypeOK /\ LockTypeOK /\ events \in Seq(Event)
      /\ rtc \in [lock : BOOLEAN, fails : Nat, pin : BOOLEAN]
      /\ penalty \in [timer : {"on", "off"}, due : BOOLEAN]
  BY DEF LockInv, DesktopTypeOK, RestTypeOK, LockTypeOK
<1>1. ASSUME NEW e \in Event \ {"PinTimeoutExit"}, events' = Append(events, e), Running,
             UNCHANGED <<locked, scenes, rtc, penalty>>
      PROVE  PenaltyInv'
  BY <1>1, PenaltyPosts DEF FailTimeout
<1>2. ASSUME UNCHANGED events, Running, UNCHANGED <<locked, scenes, penalty>>, rtc'.fails = rtc.fails
      PROVE  PenaltyInv'
  BY <1>2, PenaltyFrame DEF FailTimeout
<1>3. {"ShowPinInput", "LockedUnlocked", "LockedUpdate", "SaveSettings", "ApiUnlock", "ReloadSettings",
       "NewIdleAnimation", "CheckAnimation", "AutoLock", "BeforeAppStarted", "AfterAppFinished",
       "PinBack"} \subseteq Event \ {"PinTimeoutExit"}
  BY DEF Event, GlobalEvents, AnimationEvents
<1>4. CASE Key
  <2>1. PICK e \in (KeyEvents(Top) \cap Inputs) \cup LineEvents(Top) : Post(e) BY <1>4 DEF Key
  <2>2. e \in Event \ {"PinTimeoutExit"} BY <1>0, <2>1, KeyPosts DEF UserEvents
  <2>3. /\ events' = Append(events, e) /\ Running /\ UNCHANGED <<locked, scenes, rtc, penalty>>
    BY <1>4, <2>1 DEF Key, Post, lockVars, sceneVars
  <2> QED BY <1>1, <2>2, <2>3
<1>5. CASE LockedKey
  <2>1. Running /\ UNCHANGED <<locked, scenes, rtc, penalty>>
    BY <1>5 DEF LockedKey, lockVars, sceneVars
  <2>2. UNCHANGED events \/ \E e \in {"ShowPinInput", "LockedUnlocked"} : events' = Append(events, e)
    BY <1>5 DEF LockedKey, Post
  <2> QED BY <1>1, <1>2, <1>3, <2>1, <2>2
<1>6. CASE LoaderBeforeLoad \/ LoaderNoMoreApps \/ SetSettings \/ Reported \/ LockedTimer
           \/ AutoLockTimer \/ PinIdle
  <2>1. /\ Running /\ UNCHANGED <<locked, scenes, rtc, penalty>>
        /\ \E e \in {"LockedUpdate", "SaveSettings", "ApiUnlock", "ReloadSettings",
                     "NewIdleAnimation", "CheckAnimation", "AutoLock", "BeforeAppStarted",
                     "AfterAppFinished", "PinBack"} : events' = Append(events, e)
    BY <1>6 DEF LoaderBeforeLoad, LoaderNoMoreApps, SetSettings, Reported, LockedTimer,
       AutoLockTimer, PinIdle, Post, lockVars, sceneVars
  <2> QED BY <1>1, <1>3, <2>1
<1>7. CASE SetPin \/ LoaderAcquire \/ LoaderGivesUp
  <2>1. Running /\ UNCHANGED <<locked, scenes, penalty, events>>
    BY <1>7 DEF SetPin, LoaderAcquire, LoaderGivesUp, lockVars, sceneVars
  <2>2. rtc'.fails = rtc.fails BY <1>0, <1>7 DEF SetPin, LoaderAcquire, LoaderGivesUp, lockVars
  <2> QED BY <1>2, <2>1, <2>2
<1>8. CASE PinTimeoutTimer
  <2>1. /\ Running /\ UNCHANGED <<locked, scenes, rtc>> /\ penalty'.due = FALSE
        /\ events' = Append(events, "PinTimeoutExit")
    BY <1>8 DEF PinTimeoutTimer, Post, lockVars
  <2>2. "PinTimeoutExit" \in Event BY DEF Event
  <2> QED BY <2>1, <2>2, PenaltyPosts DEF FailTimeout
<1>9. CASE WrongPin
  <2>1. /\ Running /\ Top = "PinInput"
        /\ rtc' = [rtc EXCEPT !.fails = rtc.fails + 1]
        /\ penalty' = [penalty EXCEPT !.due = penalty.due \/ (/\ FailTimeout(rtc.fails + 1)
                                                              /\ "PinBack" \notin Range(events))]
        /\ events' = Append(events, "PinFailed") /\ UNCHANGED <<locked, scenes>>
    BY <1>9 DEF WrongPin, Post
  <2>2. /\ rtc'.fails = rtc.fails + 1 /\ penalty'.timer = penalty.timer
        /\ penalty'.due = (penalty.due \/ (/\ FailTimeout(rtc.fails + 1)
                                           /\ "PinBack" \notin Range(events)))
    BY <1>0, <2>1
  <2>3. "PinFailed" \in Event /\ "PinFailed" # "PinTimeoutExit" BY DEF Event
  <2>4. FailTimeout(rtc.fails) => FailTimeout(rtc'.fails)
    BY <1>0, <2>2, ConstantsAssumption DEF FailTimeout
  \* A wait is owed already, or none is after the step.
  <2>5. CASE penalty.due \/ ~penalty'.due BY <2>1, <2>2, <2>3, <2>4, <2>5, PenaltyPosts
  <2>6. CASE ~penalty.due /\ penalty'.due
    <3>1. "PinBack" \notin Range(events) /\ FailTimeout(rtc'.fails) BY <2>2, <2>6
    <3>2. HasNone(events, {"PinBack"})
      <4>1. \A i \in 1 .. Len(events) : events[i] \in Range(events) BY <1>0 DEF Range
      <4> QED BY <3>1, <4>1 DEF HasNone
    <3>3. Coming(events') BY <1>0, <2>1, <2>3, <3>2, ComingPosted
    <3>4. locked /\ StackAgrees BY <2>1, TopTells DEF LockInv, DesktopTypeOK, LockScene
    <3>5. PICK l \in 2 .. Len(scenes), t \in Over : LockedAt(scenes, l, t)
      BY <3>4 DEF StackAgrees
    <3>6. t = <<"PinInput">> BY <1>0, <2>1, <3>5, LockedTop DEF Over
    <3>7. Waits(t)' BY <3>3, <3>6 DEF Waits, WaitComing
    <3>8. OwedWait' BY <2>1, <3>1, <3>4, <3>5, <3>7 DEF OwedWait, FailTimeout
    <3> QED BY <3>8 DEF PenaltyInv
  <2> QED BY <2>5, <2>6
<1>10. CASE KeyBack
  <2>1. /\ Running /\ UNCHANGED <<locked, rtc, events>>
        /\ Top \in {"LockMenu", "Favorites", "Recent", "Boot", "QuickSettings"}
        /\ Top = "Boot" => PreviousScene
    BY <1>10 DEF KeyBack, lockVars
  <2>2. SceneMove /\ penalty'.due = penalty.due /\ (penalty.timer = "on" => penalty'.timer = "on")
    BY <1>0, <1>10, MovesScenes DEF EnteredOK
  <2>3. CASE penalty.due
    <3>1. locked /\ Top = "Boot" /\ NoExit(events) /\ penalty.timer = "on" /\ FailTimeout(rtc.fails)
      BY <2>1, <2>3, OwedTop
    <3>2. scenes' = Front(scenes) BY <2>1, <3>1 DEF PreviousScene, Enter
    <3>3. \E l \in 2 .. Len(scenes'), t \in Over : LockedAt(scenes', l, t) /\ Waits(t)'
      BY <2>1, <2>2, <2>3, <3>1, <3>2, OwedMoves
    <3>4. OwedWait' BY <2>1, <3>1, <3>3 DEF OwedWait, FailTimeout
    <3> QED BY <3>4 DEF PenaltyInv
  <2>4. CASE ~penalty.due BY <2>2, <2>4 DEF PenaltyInv, OwedWait
  <2> QED BY <2>3, <2>4
<1>11. CASE Reboot
  <2>1. /\ events' = <<>> /\ scenes' = BootScenes(rtc.fails, ~Running) /\ locked' = PinSet
        /\ penalty' = BootPenalty(rtc.fails) /\ rtc' = [rtc EXCEPT !.lock = rtc.lock \/ PinSet]
    BY <1>11 DEF Reboot
  <2>2. /\ PinSet \in BOOLEAN /\ rtc.fails \in Nat /\ NoSettings \in SavedSettings
        /\ (~Running) \in BOOLEAN /\ TRUE \in BOOLEAN
    BY <1>0, ConstantsAssumption DEF PinSet, Running
  <2>3. /\ penalty'.due = (PinSet /\ FailTimeout(rtc.fails))
        /\ penalty'.due => penalty'.timer = "on"
    BY <2>1, <2>2, BootValues
  <2>4. PinSet => \E t \in Over :
          LockedAt(scenes', 2, t) /\ (FailTimeout(rtc.fails) =>
                                        t \in {<<"PinTimeout">>, <<"PinTimeout", "Boot">>})
    BY <2>1, <2>2, StackBooted
  <2>5. rtc'.fails = rtc.fails BY <1>0, <2>1
  <2>6. NoExit(events') BY <2>1, EmptyHas DEF NoExit
  <2>7. ASSUME penalty'.due
        PROVE  \E l \in 2 .. Len(scenes'), t \in Over : LockedAt(scenes', l, t) /\ Waits(t)'
    <3>1. PICK t \in Over : /\ LockedAt(scenes', 2, t)
                            /\ t \in {<<"PinTimeout">>, <<"PinTimeout", "Boot">>}
      BY <2>3, <2>4, <2>7
    <3>2. 2 \in 2 .. Len(scenes') BY <3>1 DEF LockedAt
    <3>3. WaitOn(t)' BY <2>6, <3>1 DEF WaitOn
    <3> QED BY <2>3, <2>7, <3>1, <3>2, <3>3 DEF Waits
  <2>8. OwedWait' BY <2>1, <2>3, <2>5, <2>7 DEF OwedWait, FailTimeout
  <2> QED BY <2>8 DEF PenaltyInv
<1>12. CASE HandleEvent
  <2> DEFINE e == Head(events)
  <2>1. /\ Running /\ events # <<>>
        /\ \/ HandleGlobal(e) /\ events' = Tail(events) /\ e \in GlobalEvents
           \/ e \notin GlobalEvents /\ HandleScene(e)
    BY <1>12 DEF HandleEvent
  <2>2. events' = Tail(events) \/ events' = Append(Tail(events), "DoorsClosed")
    BY <2>1 DEF HandleScene, Navigate, HandleLock, HandleLaunch, HandleUnlock, HandleUpdate,
       HandleAnimation, HandleInteract, HandleDummyMode, HandlePinFailed, HandleList, Dropped,
       UpdateView
  <2>3. /\ Coming(events) => e # "PinBack" /\ (Coming(events') \/ (e = "PinFailed" /\ NoExit(events')))
        /\ NoExit(events) => e # "PinTimeoutExit" /\ NoExit(events')
    BY <1>0, <2>1, <2>2, PenaltyLeft
  <2> HIDE DEF e
  <2>4. ASSUME UNCHANGED <<locked, scenes, rtc, penalty>>, e = "PinFailed" => Top # "PinInput"
        PROVE  PenaltyInv'
    BY <2>1, <2>3, <2>4, PenaltyFrame DEF FailTimeout
  \* A desktop that locks was unlocked: no wait is owed.
  <2>5. ASSUME DesktopLock, ~locked PROVE PenaltyInv'
    <3>1. ~penalty.due BY <2>1, <2>5, OwedTop
    <3>2. penalty'.due = penalty.due BY <2>1, <2>5, LockStep DEF EnteredOK
    <3> QED BY <3>1, <3>2 DEF PenaltyInv, OwedWait
  <2>6. CASE HandleGlobal(e) /\ e \in GlobalEvents
    <3>1. e # "PinFailed" BY <2>6 DEF GlobalEvents
    <3>2. CASE AutoLocks /\ DesktopLock BY <2>5, <3>2 DEF AutoLocks
    <3>3. CASE UNCHANGED <<lockVars, sceneVars>> BY <2>4, <3>1, <3>3 DEF lockVars, sceneVars
    <3> QED BY <2>6, <3>2, <3>3 DEF HandleGlobal
  <2>7. CASE HandleScene(e) /\ ~penalty.due
    <3>1. CASE HandleLock(e)
      <4>1. ~locked BY <2>1, <3>1, TopTells DEF HandleLock, LockScene
      <4> QED BY <2>5, <3>1, <4>1 DEF HandleLock
    <3>2. CASE HandleUnlock(e)
      <4>1. locked BY <2>1, <3>2, TopTells DEF HandleUnlock, LockScene
      <4>2. penalty'.due = FALSE BY <2>1, <3>2, <4>1, UnlockStep DEF HandleUnlock
      <4> QED BY <4>2 DEF PenaltyInv, OwedWait
    <3>3. CASE ~HandleLock(e) /\ ~HandleUnlock(e)
      <4>1. \/ UNCHANGED sceneVars
            \/ Navigate(e) \/ HandleDummyMode(e) \/ HandlePinFailed(e) \/ HandleList(e)
        BY <2>7, <3>3 DEF HandleScene, HandleLaunch, HandleUpdate, HandleAnimation,
           HandleInteract, Dropped
      <4>2. penalty'.due = penalty.due
        BY <1>0, <4>1, MovesScenes DEF EnteredOK, sceneVars
      <4> QED BY <2>7, <4>2 DEF PenaltyInv, OwedWait
    <3> QED BY <3>1, <3>2, <3>3
  <2>8. CASE HandleScene(e) /\ penalty.due
    <3>0. /\ locked /\ FailTimeout(rtc.fails) /\ Top \in {"PinInput", "PinTimeout", "Boot"}
          /\ Top = "PinInput" => Coming(events)
          /\ Top = "Boot" => NoExit(events)
          /\ Top # "PinInput" => penalty.timer = "on"
          /\ Coming(events) \/ NoExit(events)
      BY <2>1, <2>8, OwedTop
    \* What is left to show once the step moved.
    <3>1. ASSUME UNCHANGED <<locked, rtc>>,
                 \E l \in 2 .. Len(scenes'), t \in Over : LockedAt(scenes', l, t) /\ Waits(t)'
          PROVE  PenaltyInv'
      <4>1. OwedWait' BY <3>0, <3>1 DEF OwedWait, FailTimeout
      <4> QED BY <4>1 DEF PenaltyInv
    <3>2. ~(Top = "PinInput" /\ e = "PinBack") BY <2>3, <3>0
    <3>3. CASE Top = "PinInput" /\ HandleUnlock(e)
      <4>1. penalty'.due = FALSE BY <2>1, <3>0, <3>3, UnlockStep DEF HandleUnlock
      <4> QED BY <4>1 DEF PenaltyInv, OwedWait
    <3>4. CASE Top = "PinInput" /\ HandlePinFailed(e) /\ NextScene("PinTimeout")
      <4>1. SceneMove BY <1>0, <3>4, MovesScenes
      <4>2. UNCHANGED <<locked, rtc>> BY <3>4 DEF HandlePinFailed, lockVars
      <4>3. scenes' = Append(scenes, "PinTimeout") BY <3>4 DEF NextScene, Enter
      <4>4. penalty'.timer = "on"
        <5>1. scenes \in Seq(Scene) /\ "PinTimeout" \in Scene BY <1>0 DEF LockTypeOK, Scene
        <5>2. Last(Append(scenes, "PinTimeout")) = "PinTimeout" BY <5>1 DEF Last
        <5>3. penalty' = [penalty EXCEPT !.timer = "on"] BY <3>4, <5>2 DEF NextScene, Enter
        <5> QED BY <1>0, <5>3
      <4>5. Coming(events') \/ NoExit(events') BY <2>3, <3>0, <3>4
      <4> QED BY <2>1, <2>8, <3>1, <3>4, <4>1, <4>2, <4>3, <4>4, <4>5, OwedMoves
    <3>5. CASE Top = "PinTimeout" /\ Navigate(e) /\ e = "PinTimeoutExit" /\ scenes' = Front(scenes)
      <4>1. SceneMove BY <1>0, <3>5, MovesScenes
      <4>2. UNCHANGED <<locked, rtc>> BY <3>5 DEF Navigate, lockVars
      <4>3. ~NoExit(events) /\ Coming(events') BY <2>3, <3>0, <3>5
      <4> QED BY <2>1, <2>8, <3>1, <3>5, <4>1, <4>2, <4>3, OwedMoves
    <3>6. CASE Top = "Boot" /\ Navigate(e) /\ e = "BootExit" /\ scenes' = Front(scenes)
      <4>1. SceneMove /\ (penalty.timer = "on" => penalty'.timer = "on")
        BY <1>0, <3>6, MovesScenes DEF EnteredOK
      <4>2. UNCHANGED <<locked, rtc>> BY <3>6 DEF Navigate, lockVars
      <4>3. NoExit(events') /\ penalty'.timer = "on" BY <2>3, <3>0, <3>6, <4>1
      <4> QED BY <2>1, <2>8, <3>1, <3>6, <4>1, <4>2, <4>3, OwedMoves
    <3>7. CASE Dropped(e) /\ (e = "PinFailed" => Top # "PinInput")
      <4>1. UNCHANGED <<locked, scenes, rtc, penalty>> BY <3>7 DEF Dropped, lockVars, sceneVars
      <4> QED BY <2>4, <3>7, <4>1
    <3> QED BY <2>1, <2>8, <3>0, <3>2, <3>3, <3>4, <3>5, <3>6, <3>7, OwedHandlers
  <2> QED BY <2>1, <2>6, <2>7, <2>8
<1>13. CASE OtherPuts \/ LoaderServes \/ UNCHANGED vars
  <2>1. UNCHANGED <<halted, locked, scenes, events, rtc, penalty>>
    BY <1>13, QuietSteps DEF deskVars, lockVars, sceneVars
  <2>2. CASE Running BY <1>2, <2>1, <2>2
  <2>3. CASE ~Running BY <2>1, <2>3 DEF PenaltyInv, Running
  <2> QED BY <2>2, <2>3
<1> QED BY <1>4, <1>5, <1>6, <1>7, <1>8, <1>9, <1>10, <1>11, <1>12, <1>13
    DEF Next, User, Environment, LoaderSteps

\* Once the free attempts are used up the keypad is not reachable before the
\* wait's timer, which is running, ran out, across restarts and in any order of
\* the keypad's no-activity event, exit events left over and wrong PINs. The two
\* failures no wait is owed for are those of PenaltyServed: one typed with the
\* no-activity event queued, one overtaken by a timer left running
\* (desktop_pin_lock_get_fail_timeout, desktop_scene_pin_input,
\* desktop_scene_pin_timeout).
THEOREM PenaltyAlwaysServed == Spec => []PenaltyServed
<1>1. Init /\ LockInv => PenaltyInv
  <2> SUFFICES ASSUME Init, LockInv PROVE PenaltyInv OBVIOUS
  <2>1. penalty = BootPenalty(0) BY DEF Init
  <2>2. PinSet \in BOOLEAN /\ 0 \in Nat /\ NoSettings \in SavedSettings /\ TRUE \in BOOLEAN
    BY ConstantsAssumption DEF LockInv, DesktopTypeOK, LockTypeOK, PinSet
  <2>3. ~FailTimeout(0) BY ConstantsAssumption DEF FailTimeout
  <2>4. ~penalty.due BY <2>1, <2>2, <2>3, BootValues
  <2> QED BY <2>4 DEF PenaltyInv, OwedWait
<1>2. LockInv /\ PenaltyInv /\ [Next]_vars => PenaltyInv' BY PenaltyInduction
<1>3. LockInv /\ PenaltyInv => PenaltyServed
  <2> SUFFICES ASSUME LockInv, PenaltyInv, Running, penalty.due, ~Queued("PinFailed")
               PROVE  "PinTimeout" \in Range(scenes) /\ Top # "PinInput" /\ penalty.timer = "on"
    <3>1. LockInv => ("PinFailed" \in Range(events) <=> Queued("PinFailed"))
      BY RangeHas DEF LockInv, DesktopTypeOK, RestTypeOK, Queued
    <3> QED BY <3>1 DEF PenaltyServed
  <2>0. ~Coming(events) BY DEF Coming, Failure, Queued, Has
  <2>1. Top # "PinInput" /\ penalty.timer = "on" BY <2>0, OwedTop
  <2>2. PICK l \in 2 .. Len(scenes), t \in Over : LockedAt(scenes, l, t) /\ WaitOn(t)
    BY <2>0 DEF PenaltyInv, OwedWait, Waits, WaitComing
  <2>3. \E i \in 1 .. Len(t) : t[i] = "PinTimeout"
    <3>1. CASE t = <<"PinTimeout">>
      <4>1. 1 \in 1 .. Len(t) /\ t[1] = "PinTimeout" BY <3>1
      <4> QED BY <4>1
    <3>2. CASE t = <<"PinInput", "PinTimeout">>
      <4>1. 2 \in 1 .. Len(t) /\ t[2] = "PinTimeout" BY <3>2
      <4> QED BY <4>1
    <3>3. CASE t = <<"PinTimeout", "Boot">>
      <4>1. 1 \in 1 .. Len(t) /\ t[1] = "PinTimeout" BY <3>3
      <4> QED BY <4>1
    <3> QED BY <2>2, <3>1, <3>2, <3>3 DEF WaitOn
  <2>4. PICK i \in 1 .. Len(t) : t[i] = "PinTimeout" BY <2>3
  <2>5. scenes \in Seq(Scene) /\ DOMAIN scenes = 1 .. Len(scenes)
    BY DEF LockInv, DesktopTypeOK, LockTypeOK
  <2>6. l + i \in 1 .. Len(scenes) /\ scenes[l + i] = "PinTimeout"
    <3>1. Len(t) \in Nat BY DEF Over
    <3>2. Len(scenes) = l + Len(t) /\ \A j \in 1 .. Len(t) : scenes[l + j] = t[j]
      BY <2>2 DEF LockedAt
    <3> QED BY <2>4, <2>5, <3>1, <3>2
  <2> QED BY <2>1, <2>5, <2>6 DEF Range
<1> QED BY <1>1, <1>2, <1>3, LockInvariant, PTL DEF Spec

-----------------------------------------------------------------------------
(* Recent                                                                    *)

LEMMA FrontOfAppend ==
  ASSUME NEW S, NEW s \in Seq(S), NEW n \in S
  PROVE  Front(Append(s, n)) = s /\ Last(Append(s, n)) = n /\ Append(s, n) # <<>>
<1> DEFINE r == Append(s, n)
           f == Front(r)
<1>1. /\ r \in Seq(S) /\ Len(r) = Len(s) + 1 /\ Len(s) \in Nat /\ r[Len(s) + 1] = n
      /\ \A i \in 1 .. Len(s) : r[i] = s[i]
  BY AppendAt
<1>2. r # <<>> BY <1>1
<1>3. Last(r) = n BY <1>1, <1>2, LastAt
<1> HIDE DEF r
<1>4. f \in Seq(S) /\ Len(f) = Len(s) /\ \A i \in 1 .. Len(s) : f[i] = s[i]
  BY <1>1, <1>2, FrontAt
<1> HIDE DEF f
<1>5. f = s BY <1>4
<1> QED BY <1>2, <1>3, <1>5 DEF r, f

LEMMA AppendOfFront ==
  ASSUME NEW S, NEW s \in Seq(S), s # <<>>
  PROVE  s = Append(Front(s), Last(s)) /\ Front(s) \in Seq(S) /\ Last(s) \in S
<1> DEFINE f == Front(s)
           r == Append(f, Last(s))
<1>1. f \in Seq(S) /\ Len(f) = Len(s) - 1 /\ Len(s) \in Nat \ {0}
      /\ \A i \in 1 .. Len(s) - 1 : f[i] = s[i]
  BY FrontAt
<1>2. Last(s) = s[Len(s)] /\ Last(s) \in S BY LastAt
<1> HIDE DEF f
<1>3. /\ r \in Seq(S) /\ Len(r) = Len(s) /\ r[Len(s)] = s[Len(s)]
      /\ \A i \in 1 .. Len(s) - 1 : r[i] = s[i]
  BY <1>1, <1>2, AppendAt
<1> HIDE DEF r
<1>4. \A i \in 1 .. Len(s) : r[i] = s[i] BY <1>1, <1>3
<1>5. r = s BY <1>3, <1>4
<1> QED BY <1>1, <1>2, <1>5 DEF r, f

\* A launch counts unless it repeats the one before.
LEMMA StartsOfAppend ==
  ASSUME NEW h \in Seq(Names), NEW n \in Names
  PROVE  /\ Starts(h) \subseteq 1 .. Len(h) /\ Starts(Append(h, n)) \subseteq 1 .. Len(h) + 1
         /\ h # <<>> /\ Last(h) = n => Starts(Append(h, n)) = Starts(h)
         /\ h = <<>> \/ Last(h) # n => Starts(Append(h, n)) = Starts(h) \cup {Len(h) + 1}
<1> DEFINE r == Append(h, n)
<1>1. /\ r \in Seq(Names) /\ Len(r) = Len(h) + 1 /\ Len(h) \in Nat /\ r[Len(h) + 1] = n
      /\ \A i \in 1 .. Len(h) : r[i] = h[i]
  BY AppendAt
<1> HIDE DEF r
<1>2. DOMAIN h = 1 .. Len(h) /\ DOMAIN r = 1 .. Len(h) + 1 BY <1>1
<1>3. ASSUME NEW k \in 1 .. Len(h) PROVE k \in Starts(r) <=> k \in Starts(h)
  <2>1. k \in 1 .. Len(h) + 1 /\ (k # 1 => k - 1 \in 1 .. Len(h)) BY <1>1
  <2> QED BY <1>1, <1>2, <2>1 DEF Starts
<1>4. h = <<>> <=> Len(h) = 0 OBVIOUS
<1>5. Len(h) + 1 \in Starts(r) <=> h = <<>> \/ Last(h) # n
  <2>1. CASE h = <<>>
    <3>1. Len(h) + 1 = 1 /\ 1 \in DOMAIN r BY <1>2, <1>4, <2>1
    <3> QED BY <2>1, <3>1 DEF Starts
  <2>2. CASE h # <<>>
    <3>1. Last(h) = h[Len(h)] BY <2>2, LastAt
    <3>2. Len(h) \in 1 .. Len(h) /\ Len(h) + 1 # 1 /\ (Len(h) + 1) - 1 = Len(h)
          /\ Len(h) + 1 \in DOMAIN r
      BY <1>1, <1>2, <1>4, <2>2
    <3>3. r[(Len(h) + 1) - 1] = h[Len(h)] BY <1>1, <3>2
    <3> QED BY <1>1, <2>2, <3>1, <3>2, <3>3 DEF Starts
  <2> QED BY <2>1, <2>2
<1>6. Starts(h) \subseteq 1 .. Len(h) /\ Starts(r) \subseteq 1 .. Len(h) + 1 BY <1>2 DEF Starts
<1>7. \A k \in 1 .. Len(h) + 1 : k \in 1 .. Len(h) \/ k = Len(h) + 1 BY <1>1
<1>8. ASSUME h # <<>>, Last(h) = n PROVE Starts(r) = Starts(h)
  BY <1>3, <1>5, <1>6, <1>7, <1>8
<1>9. ASSUME h = <<>> \/ Last(h) # n PROVE Starts(r) = Starts(h) \cup {Len(h) + 1}
  BY <1>3, <1>5, <1>6, <1>7, <1>9
<1> QED BY <1>6, <1>8, <1>9 DEF r

\* desktop_recent_apps_push keeps the list the latest launches.
LEMMA PushLatest ==
  ASSUME NEW h \in Seq(Names), NEW n \in Names, NEW list \in Seq(Names), Len(list) =< RecentMax,
         Latest(list, h), list = <<>> <=> h = <<>>, list # <<>> => list[1] = Last(h)
  PROVE  /\ Latest(Push(list, n), Append(h, n))
         /\ Push(list, n) # <<>> /\ Push(list, n)[1] = n
<1> DEFINE r == Append(h, n)
<1>0. /\ n # NoName /\ RecentMax \in Nat \ {0} /\ Len(list) \in Nat /\ Len(h) \in Nat
      /\ DOMAIN list = 1 .. Len(list) /\ (list = <<>> <=> Len(list) = 0)
  BY ConstantsAssumption
<1>1. /\ r \in Seq(Names) /\ Len(r) = Len(h) + 1 /\ r[Len(h) + 1] = n
      /\ \A i \in 1 .. Len(h) : r[i] = h[i]
  BY AppendAt
<1>2. /\ Starts(h) \subseteq 1 .. Len(h)
      /\ h # <<>> /\ Last(h) = n => Starts(r) = Starts(h)
      /\ h = <<>> \/ Last(h) # n => Starts(r) = Starts(h) \cup {Len(h) + 1}
  BY StartsOfAppend
<1> HIDE DEF r
<1>3. PICK line \in [DOMAIN list -> Starts(h)] :
        /\ \A i \in DOMAIN list :
              /\ list[i] = h[line[i]]
              /\ {k \in Starts(h) : k > line[i]} = {line[j] : j \in 1 .. i - 1}
        /\ Len(list) = RecentMax \/ Range(line) = Starts(h)
  BY DEF Latest
<1>4. \A i \in DOMAIN list : line[i] \in Starts(h) /\ line[i] \in 1 .. Len(h) BY <1>2, <1>3
<1>5. CASE list # <<>> /\ list[1] = n
  <2>1. Push(list, n) = list BY <1>0, <1>5 DEF Push
  <2>2. Starts(r) = Starts(h) BY <1>2, <1>5
  <2>3. \A i \in DOMAIN list : list[i] = r[line[i]] BY <1>1, <1>3, <1>4
  <2>4. line \in [DOMAIN list -> Starts(r)] BY <1>3, <2>2
  <2>5. \A i \in DOMAIN list : {k \in Starts(r) : k > line[i]} = {line[j] : j \in 1 .. i - 1}
    BY <1>3, <2>2
  <2>6. Len(list) = RecentMax \/ Range(line) = Starts(r) BY <1>3, <2>2
  <2>7. Latest(list, r) BY <2>3, <2>4, <2>5, <2>6 DEF Latest
  <2> QED BY <1>5, <2>1, <2>7 DEF r
<1>6. CASE list = <<>> \/ list[1] # n
  <2> DEFINE q == <<n>> \o list
             m == Min({RecentMax, Len(list) + 1})
             p == SubSeq(q, 1, m)
  <2>1. /\ q \in Seq(Names) /\ Len(q) = Len(list) + 1 /\ q[1] = n
        /\ \A i \in 1 .. Len(list) : q[i + 1] = list[i]
    <3>1. <<n>> \in Seq(Names) /\ Len(<<n>>) = 1 /\ <<n>>[1] = n OBVIOUS
    <3>2. \A i \in 1 .. Len(list) : i + 1 = 1 + i BY <1>0
    <3> QED BY <1>0, <3>1, <3>2, ConcatAt
  <2>2. m \in {RecentMax, Len(list) + 1} /\ m =< RecentMax /\ m =< Len(list) + 1
    <3>1. \E x \in {RecentMax, Len(list) + 1} : \A y \in {RecentMax, Len(list) + 1} : x =< y
      BY <1>0
    <3> QED BY <3>1 DEF Min
  <2>3. Push(list, n) = p BY <1>0, <1>6 DEF Push
  <2> HIDE DEF q, m
  <2>4. m \in 1 .. Len(q) /\ m \in Nat \ {0} BY <1>0, <2>1, <2>2
  <2>5. p \in Seq(Names) /\ Len(p) = m /\ \A i \in 1 .. m : p[i] = q[i]
    BY <2>1, <2>4, PrefixAt
  <2> HIDE DEF p
  <2>6. p # <<>> /\ p[1] = n /\ DOMAIN p = 1 .. m BY <2>1, <2>4, <2>5
  <2>7. Starts(r) = Starts(h) \cup {Len(h) + 1} BY <1>2, <1>6
  \* The new launch on the first line, the others one line down.
  <2> DEFINE g == [i \in 1 .. m |-> IF i = 1 THEN Len(h) + 1 ELSE line[i - 1]]
  <2>8. ASSUME NEW i \in 1 .. m, i # 1 PROVE i - 1 \in DOMAIN list /\ i - 1 \in 1 .. Len(list)
    BY <1>0, <2>2, <2>4, <2>8
  <2>9. g \in [DOMAIN p -> Starts(r)] BY <1>4, <2>6, <2>7, <2>8
  <2>10. g[1] = Len(h) + 1 /\ \A i \in 1 .. m : i # 1 => g[i] = line[i - 1]
    BY <2>4
  <2>11. DOMAIN g = 1 .. m OBVIOUS
  <2> HIDE DEF g
  <2>12. ASSUME NEW i \in 1 .. m
         PROVE  /\ p[i] = r[g[i]]
                /\ {k \in Starts(r) : k > g[i]} = {g[j] : j \in 1 .. i - 1}
    <3>1. CASE i = 1
      <4>1. {g[j] : j \in 1 .. i - 1} = {} BY <3>1
      <4>2. \A k \in Starts(r) : ~(k > g[1])
        <5>1. \A k \in Starts(r) : k \in 1 .. Len(h) + 1 BY <1>0, <1>2, <2>7
        <5> QED BY <1>0, <2>10, <5>1
      <4> QED BY <1>1, <2>6, <2>10, <3>1, <4>1, <4>2
    <3>2. CASE i # 1
      <4>1. i - 1 \in DOMAIN list /\ i - 1 \in 1 .. Len(list) /\ (i - 1) + 1 = i
        BY <2>8, <3>2
      <4>2. g[i] = line[i - 1] /\ line[i - 1] \in 1 .. Len(h) BY <1>4, <2>10, <3>2, <4>1
      <4>3. p[i] = list[i - 1] BY <2>1, <2>5, <4>1
      <4>4. list[i - 1] = h[line[i - 1]] BY <1>3, <4>1
      <4>5. p[i] = r[g[i]] BY <1>1, <4>2, <4>3, <4>4
      <4>6. {k \in Starts(h) : k > line[i - 1]} = {line[j] : j \in 1 .. (i - 1) - 1}
        BY <1>3, <4>1
      <4>7. {k \in Starts(r) : k > g[i]} = {k \in Starts(h) : k > line[i - 1]} \cup {Len(h) + 1}
        <5>1. Len(h) + 1 > line[i - 1] BY <1>0, <4>2
        <5> QED BY <2>7, <4>2, <5>1
      <4>8. {g[j] : j \in 1 .. i - 1} = {line[j] : j \in 1 .. (i - 1) - 1} \cup {Len(h) + 1}
        <5>1. ASSUME NEW j \in 1 .. i - 1
              PROVE  g[j] \in {line[b] : b \in 1 .. (i - 1) - 1} \cup {Len(h) + 1}
          <6>1. CASE j = 1 BY <2>10, <6>1
          <6>2. CASE j # 1
            <7>1. j - 1 \in 1 .. (i - 1) - 1 /\ j \in 1 .. m BY <2>4, <6>2
            <7> QED BY <2>10, <6>2, <7>1
          <6> QED BY <6>1, <6>2
        <5>2. ASSUME NEW j \in 1 .. (i - 1) - 1 PROVE line[j] \in {g[b] : b \in 1 .. i - 1}
          <6>1. j + 1 \in 1 .. i - 1 /\ j + 1 \in 1 .. m /\ j + 1 # 1 /\ (j + 1) - 1 = j
            BY <2>4
          <6>2. g[j + 1] = line[j] BY <2>10, <6>1
          <6> QED BY <6>1, <6>2
        <5>3. Len(h) + 1 \in {g[b] : b \in 1 .. i - 1}
          <6>1. 1 \in 1 .. i - 1 BY <2>4, <3>2
          <6> QED BY <2>10, <6>1
        <5> QED BY <5>1, <5>2, <5>3
      <4> QED BY <4>5, <4>6, <4>7, <4>8
    <3> QED BY <3>1, <3>2
  <2>13. Len(p) = RecentMax \/ Range(g) = Starts(r)
    <3>1. CASE m = RecentMax BY <2>5, <3>1
    <3>2. CASE m # RecentMax
      <4>0. m = Len(list) + 1 BY <2>2, <3>2
      <4>1. Len(list) # RecentMax
        <5>1. Len(list) + 1 =< RecentMax BY <2>2, <4>0
        <5>2. \A a, b \in Nat : a + 1 =< b => a # b OBVIOUS
        <5>3. Len(list) \in Nat /\ RecentMax \in Nat BY <1>0
        <5> QED BY <5>1, <5>2, <5>3
      <4>2. Range(line) = Starts(h) BY <1>3, <4>1
      <4>3. ASSUME NEW k \in Starts(r) PROVE \E i \in 1 .. m : g[i] = k
        <5>1. CASE k = Len(h) + 1
          <6>1. 1 \in 1 .. m BY <2>4
          <6> QED BY <2>10, <5>1, <6>1
        <5>2. CASE k \in Starts(h)
          <6>0. DOMAIN line = DOMAIN list /\ k \in Range(line) BY <1>3, <4>2, <5>2
          <6>1. PICK i \in DOMAIN list : line[i] = k BY <6>0 DEF Range
          <6>2. i + 1 \in 1 .. m /\ i + 1 # 1 /\ (i + 1) - 1 = i
            <7>1. i \in 1 .. Len(list) /\ Len(list) \in Nat BY <1>0
            <7>2. i + 1 \in 1 .. Len(list) + 1 /\ i + 1 # 1 /\ (i + 1) - 1 = i BY <7>1
            <7> QED BY <4>0, <7>2
          <6>3. g[i + 1] = k BY <2>10, <6>1, <6>2
          <6> QED BY <6>2, <6>3
        <5> QED BY <2>7, <5>1, <5>2
      <4>4. \A i \in 1 .. m : g[i] \in Starts(r) BY <2>6, <2>9
      <4> QED BY <2>11, <4>3, <4>4 DEF Range
    <3> QED BY <3>1, <3>2
  <2>14. Latest(p, r) BY <2>6, <2>9, <2>12, <2>13 DEF Latest
  <2> QED BY <2>3, <2>6, <2>14 DEF r
<1> QED BY <1>5, <1>6

\* An empty list shows the launches of an empty history.
LEMMA LatestEmpty == Latest(<<>>, <<>>)
<1>1. Starts(<<>>) = {} BY DEF Starts
<1> DEFINE line == [i \in {} |-> 0]
<1>2. line \in [DOMAIN <<>> -> Starts(<<>>)] /\ DOMAIN line = {} /\ DOMAIN <<>> = {} BY <1>1
<1>3. Range(line) = {} BY <1>2 DEF Range
<1> HIDE DEF line
<1> QED BY <1>1, <1>2, <1>3 DEF Latest

\* The list, the launches and their event are left alone.
LEMMA RecentQuiet ==
  ASSUME RecentInv, Running, UNCHANGED <<recent, history, pendingName>>,
         Queued("BeforeAppStarted")' <=> Queued("BeforeAppStarted")
  PROVE  RecentInv'
<1>1. Handled' = Handled BY DEF Handled
<1> QED BY <1>1 DEF RecentInv

LEMMA RecentInduction == LockInv /\ HandshakeInv /\ RecentInv /\ [Next]_vars => RecentInv'
<1> SUFFICES ASSUME LockInv, HandshakeInv, RecentInv, [Next]_vars PROVE RecentInv' OBVIOUS
<1>0. /\ RestTypeOK /\ events \in Seq(Event) /\ LoaderNews \subseteq Event
      /\ LoaderNews \subseteq GlobalEvents /\ "DoorsClosed" \notin LoaderNews
      /\ history \in Seq(Names) /\ recent \in Seq(Names) /\ Len(recent) =< RecentMax
  BY DEF LockInv, DesktopTypeOK, RestTypeOK, Event, GlobalEvents, LoaderNews
\* A step without the loader and its events.
<1>a. ASSUME Running, Keeps(LoaderNews), UNCHANGED <<appVars, announced>> PROVE RecentInv'
  <2>1. UNCHANGED <<recent, history, pendingName>> BY <1>a DEF appVars, announced
  <2>2. Queued("BeforeAppStarted")' <=> Queued("BeforeAppStarted")
    BY <1>0, <1>a, KeepsHas DEF Queued, LoaderNews
  <2> QED BY <1>a, <2>1, <2>2, RecentQuiet
<1>1. CASE User \/ SetPin \/ PinIdle \/ LockedTimer \/ PinTimeoutTimer
  <2>1. Keeps(GlobalEvents) /\ UNCHANGED <<appVars, announced>> /\ Running
    BY <1>1, QuietKeeps DEF loaderVars
  <2>2. Keeps(LoaderNews) BY <1>0, <2>1 DEF Keeps
  <2> QED BY <1>a, <2>1, <2>2
<1>2. CASE SetSettings \/ Reported \/ AutoLockTimer
  <2>1. {"SaveSettings", "ApiUnlock", "ReloadSettings", "NewIdleAnimation", "CheckAnimation",
         "AutoLock"} \subseteq Event \ LoaderNews
    BY DEF Event, GlobalEvents, AnimationEvents, LoaderNews
  <2>2. Keeps(LoaderNews) /\ UNCHANGED <<appVars, announced>> /\ Running
    BY <1>2, <2>1 DEF SetSettings, Reported, AutoLockTimer, Post, Keeps, loaderVars
  <2> QED BY <1>a, <2>2
<1>3. CASE LoaderBeforeLoad
  <2>1. /\ Running /\ loader \in {"idle", "running"} /\ UNCHANGED recent
        /\ events' = Append(events, "BeforeAppStarted")
    BY <1>3 DEF LoaderBeforeLoad, Post, appVars
  <2>2. PICK n \in Names : pendingName' = n /\ history' = Append(history, n)
    BY <1>3 DEF LoaderBeforeLoad
  <2>3. ~Queued("BeforeAppStarted") BY <2>1 DEF HandshakeInv
  <2>4. Queued("BeforeAppStarted")'
    BY <1>0, <2>1, AppendHas DEF Queued, LoaderNews
  <2>5. Front(history') = history /\ Last(history') = n /\ history' # <<>>
    BY <1>0, <2>2, FrontOfAppend
  <2>6. Handled' = Handled BY <2>3, <2>4, <2>5 DEF Handled
  <2> QED BY <2>1, <2>2, <2>5, <2>6 DEF RecentInv
<1>4. CASE LoaderNoMoreApps
  <2>1. /\ Running /\ events' = Append(events, "AfterAppFinished")
        /\ UNCHANGED <<recent, history, pendingName>>
    BY <1>4 DEF LoaderNoMoreApps, Post, appVars
  <2>2. Queued("BeforeAppStarted")' <=> Queued("BeforeAppStarted")
    BY <1>0, <2>1, AppendHas DEF Queued, LoaderNews
  <2> QED BY <2>1, <2>2, RecentQuiet
<1>5. CASE LoaderAcquire
  <2>1. Running /\ UNCHANGED <<events, recent, history, pendingName>> BY <1>5 DEF LoaderAcquire
  <2>2. Queued("BeforeAppStarted")' <=> Queued("BeforeAppStarted") BY <2>1 DEF Queued
  <2> QED BY <2>1, <2>2, RecentQuiet
<1>6. CASE Reboot
  <2>1. events' = <<>> /\ recent' = <<>> /\ history' = <<>> BY <1>6 DEF Reboot
  <2>2. ~Queued("BeforeAppStarted")' BY <2>1, EmptyHas DEF Queued
  <2>3. Handled' = <<>> BY <2>1, <2>2 DEF Handled
  <2> QED BY <2>1, <2>2, <2>3, LatestEmpty DEF RecentInv
<1>7. CASE HandleEvent
  <2> DEFINE e == Head(events)
  <2>1. /\ Running /\ events # <<>>
        /\ \/ HandleGlobal(e) /\ events' = Tail(events) /\ UNCHANGED announced
           \/ e \notin GlobalEvents /\ HandleScene(e)
    BY <1>7 DEF HandleEvent
  <2>2. CASE e \notin GlobalEvents /\ HandleScene(e)
    <3>1. Keeps(GlobalEvents) /\ UNCHANGED <<appVars, announced>> BY <2>1, <2>2, SceneKeeps
    <3>2. Keeps(LoaderNews) BY <1>0, <3>1 DEF Keeps
    <3> QED BY <1>a, <2>1, <3>1, <3>2
  <2>3. CASE HandleGlobal(e) /\ events' = Tail(events) /\ UNCHANGED announced
    <3>0. LoaderEvents /\ UNCHANGED <<history, pendingName>>
      BY <2>1, <2>3 DEF HandshakeInv, announced
    <3>1. CASE e \notin LoaderNews
      BY <1>a, <2>1, <2>3, <3>1, GlobalKeeps
    \* The queued launch becomes a handled one.
    <3>2. CASE e = "BeforeAppStarted"
      <4>1. Queued("BeforeAppStarted") BY <1>0, <2>1, <3>2, TailHas DEF Queued
      <4>2. ~Queued("BeforeAppStarted")'
        BY <1>0, <2>1, <2>3, <3>0, <3>2, TailHas DEF Queued, LoaderEvents
      <4>3. halted' = "animation" \/ recent' = Push(recent, pendingName)
        BY <2>3, <3>2 DEF HandleGlobal, BeforeAppStarted, Crash
      <4>4. CASE halted' = "animation" BY <4>4 DEF RecentInv, Running
      <4>5. CASE recent' = Push(recent, pendingName)
        <5>1. /\ history # <<>> /\ pendingName = Last(history)
              /\ Latest(recent, Front(history)) /\ (recent = <<>> <=> Front(history) = <<>>)
              /\ recent # <<>> => recent[1] = Last(Front(history))
          BY <2>1, <4>1 DEF RecentInv, Handled
        <5>2. /\ Front(history) \in Seq(Names) /\ pendingName \in Names
              /\ history = Append(Front(history), pendingName)
          BY <1>0, <5>1, AppendOfFront
        <5> DEFINE f == Front(history)
        <5> HIDE DEF f
        <5>3. /\ Latest(Push(recent, pendingName), Append(f, pendingName))
              /\ Push(recent, pendingName) # <<>> /\ Push(recent, pendingName)[1] = pendingName
          <6>1. f \in Seq(Names) /\ pendingName \in Names BY <5>2 DEF f
          <6>2. /\ Latest(recent, f) /\ (recent = <<>> <=> f = <<>>)
                /\ recent # <<>> => recent[1] = Last(f)
            BY <5>1 DEF f
          <6> QED BY <1>0, <6>1, <6>2, PushLatest
        <5>4. Handled' = history /\ history = Append(f, pendingName)
          BY <3>0, <4>2, <5>2 DEF Handled, f
        <5> QED BY <4>2, <4>5, <5>1, <5>3, <5>4 DEF RecentInv
      <4> QED BY <4>3, <4>4, <4>5
    <3>3. CASE e = "AfterAppFinished"
      <4>1. Queued("BeforeAppStarted")' <=> Queued("BeforeAppStarted")
        BY <1>0, <2>1, <2>3, <3>3, TailHas DEF Queued
      <4>2. UNCHANGED recent
        BY <2>3, <3>3 DEF HandleGlobal, AfterAppFinished, appVars
      <4> QED BY <2>1, <3>0, <4>1, <4>2, RecentQuiet
    <3> QED BY <3>1, <3>2, <3>3 DEF LoaderNews
  <2> QED BY <2>1, <2>2, <2>3
<1>8. CASE OtherPuts \/ LoaderServes \/ UNCHANGED vars
  <2>1. UNCHANGED <<events, recent, history, pendingName, halted>>
    BY <1>8, QuietSteps DEF deskVars, appVars, announced
  <2> QED BY <2>1 DEF RecentInv, Running, Queued, Handled
<1>9. CASE LoaderGivesUp BY <1>9 DEF LoaderGivesUp, Crash, RecentInv, Running
<1> QED BY <1>1, <1>2, <1>3, <1>4, <1>5, <1>6, <1>7, <1>8, <1>9
    DEF Next, Environment, LoaderSteps

\* The Recent list shows the latest launches the desktop handled, newest first
\* and without immediate repeats, although pending_app_name and the event of a
\* launch travel separately (desktop_loader_callback, desktop_recent_apps_push).
THEOREM RecentAlwaysMatches == Spec => []RecentMatchesHistory
<1>1. Init => RecentInv
  <2> SUFFICES ASSUME Init PROVE RecentInv OBVIOUS
  <2>1. events = <<>> /\ recent = <<>> /\ history = <<>> BY DEF Init
  <2>2. ~Queued("BeforeAppStarted") BY <2>1, EmptyHas DEF Queued
  <2>3. Handled = <<>> BY <2>1, <2>2 DEF Handled
  <2> QED BY <2>1, <2>2, <2>3, LatestEmpty DEF RecentInv
<1>2. LockInv /\ RecentInv => RecentMatchesHistory
  <2> SUFFICES ASSUME LockInv, RecentInv PROVE RecentMatchesHistory OBVIOUS
  <2>1. "BeforeAppStarted" \in Range(events) <=> Queued("BeforeAppStarted")
    BY RangeHas DEF Queued, LockInv, DesktopTypeOK, RestTypeOK
  <2> QED BY <2>1 DEF RecentInv, RecentMatchesHistory, Handled
<1> QED BY <1>1, <1>2, RecentInduction, HandshakeInvariant, PTL DEF Spec
=============================================================================
