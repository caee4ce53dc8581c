------------------------ MODULE ViewDispatcherProofs -------------------------
(* Keys, view ports and views: what the GUI and a view dispatcher behind it  *)
(* promise, for every number of keys, ports, views and orientations and      *)
(* every length of the two queues.                                           *)
EXTENDS ViewDispatcher, SequenceTheorems, WellFoundedInduction, TLAPS

GuiThreadState ==
    [pc : {"wait", "input", "deliver", "redraw", "commit"}, draw : BOOLEAN,
     ev : KeyEvent \cup {NoEvent}, to : Port \cup {None},
     ongoing : SUBSET Key, port : Port \cup {None}]

AnyView == View \cup {None, Loading}

DispState == [current : AnyView, bound : AnyView, ongoing : SUBSET Key]

AppState ==
    [pc : {"setup", "enter", "show", "loop", "back", "drain", "teardown", "gone"},
     next : AnyView]

\* Values of the variables.
GuiOK ==
    /\ inputQueue \in Seq(KeyEvent) /\ down \subseteq Key
    /\ gui \in GuiThreadState
    /\ held \in [Port -> SUBSET Key]

ScreenOK ==
    /\ layers \in [Layer -> Seq(Port)] /\ enabled \subseteq Port
    /\ mode \in [lockdown : BOOLEAN, inhibit : BOOLEAN, direct : BOOLEAN, hand : BOOLEAN]
    /\ flags \subseteq {"INPUT", "DRAW"}

DispOK ==
    /\ queue \in Seq(KeyEvent) /\ disp \in DispState
    /\ app \in AppState /\ views \subseteq View
    /\ seen \in [View -> SUBSET Key]

TypeOK == GuiOK /\ ScreenOK /\ DispOK

\* A Press of k at place i of s; place 0 is what was taken from s before.
Pressed(keys, s, k, i) ==
    IF i = 0 THEN k \in keys ELSE s[i].key = k /\ s[i].type = "Press"

Released(s, k, i) == s[i].key = k /\ s[i].type = "Release"

\* Every Press of k has a Release behind it.
Ends(keys, s, k) ==
    \A i \in 0 .. Len(s) :
      Pressed(keys, s, k, i) => \E j \in i + 1 .. Len(s) : Released(s, k, j)

\* Between two Presses of k there is a Release.
Alternates(keys, s, k) ==
    \A i \in 0 .. Len(s) : \A j \in i + 1 .. Len(s) :
      Pressed(keys, s, k, i) /\ Pressed(keys, s, k, j) =>
        \E m \in i + 1 .. j - 1 : Released(s, k, m)

\* The GUI's queue, with the keys the GUI counts as down.
KeysInOrder ==
    \A k \in Key : /\ Alternates(gui.ongoing, inputQueue, k)
                   /\ k \notin down => Ends(gui.ongoing, inputQueue, k)

\* An event on its way is for the port that saw the first Press.
DeliversToBound ==
    IF gui.pc = "deliver"
    THEN /\ gui.ev \in KeyEvent /\ gui.to # None /\ gui.to = gui.port
         /\ gui.ev.type = "Press" /\ gui.to \notin remapped =>
              \E q \in gui.ongoing : Handed(q) = gui.ev.key
    ELSE gui.ev = NoEvent

Bindable == views \cup {None} \cup (IF loading THEN {Loading} ELSE {})

\* What is bound exists.
BoundExists ==
    /\ gui.port # None => InLayer(gui.port)
    /\ {disp.current, disp.bound} \subseteq Bindable
    /\ app.pc = "enter" => app.next \in Bindable

\* The dispatcher's queue, with the event the GUI's thread waits to put there.
Flight ==
    IF gui.pc = "deliver" /\ gui.to = App
    THEN Append(queue, Ev(Oriented(gui.ev.key), gui.ev.type)) ELSE queue

\* A key the GUI will route to the dispatcher when it is let go.
Late(k) == gui.port = App /\ \E q \in gui.ongoing : MapInput(q) = k

\* The dispatcher's queue, with the keys the dispatcher counts as down.
InOrder(k) ==
    /\ Alternates(disp.ongoing, Flight, k)
    /\ Ends(disp.ongoing, Flight, k) \/ Late(k)

FlightInOrder == App \notin remapped => \A k \in Key : InOrder(k)

HeldHere ==
    \A p \in Plain \ remapped : \A k \in held[p] :
      gui.port = p /\ ((\E q \in gui.ongoing : Handed(q) = k) \/ gui.ev = Ev(k, "Release"))

SeenHere ==
    app.pc \in {"setup", "loop", "enter", "show", "back"} /\ App \notin remapped =>
      \A v \in View : \A k \in seen[v] : disp.bound = v /\ k \in disp.ongoing

\* A redraw is due.
Pending ==
    \/ "DRAW" \in flags \/ gui.pc = "redraw"
    \/ gui.pc \in {"input", "deliver"} /\ gui.draw

\* The screen is up to date, or a redraw is due or will be asked for by the
\* switch that is going on.
Current ==
    ~mode.direct => \/ fresh \/ Pending
                    \/ app.pc = "show" /\ App \in enabled /\ Attached

DispatcherInv ==
    /\ TypeOK /\ KeysInOrder /\ DeliversToBound /\ BoundExists
    /\ FlightInOrder /\ HeldHere /\ SeenHere /\ Current

-----------------------------------------------------------------------------
(* Keys in a queue                                                           *)

LEMMA TailAt ==
  ASSUME NEW S, NEW s \in Seq(S), s # <<>>
  PROVE  /\ Tail(s) \in Seq(S) /\ Len(Tail(s)) = Len(s) - 1 /\ Len(s) \in Nat \ {0}
         /\ \A i \in 1 .. Len(s) - 1 : Tail(s)[i] = s[i + 1]
         /\ Head(s) = s[1] /\ Head(s) \in S
  OBVIOUS

LEMMA AppendAt ==
  ASSUME NEW S, NEW s \in Seq(S), NEW e \in S
  PROVE  /\ Append(s, e) \in Seq(S) /\ Len(Append(s, e)) = Len(s) + 1 /\ Len(s) \in Nat
         /\ \A i \in 1 .. Len(s) : Append(s, e)[i] = s[i]
         /\ Append(s, e)[Len(s) + 1] = e
  OBVIOUS

\* What a Press of k is once the head of the queue has been taken.
LEMMA TakePressed ==
  ASSUME NEW S, NEW s \in Seq(S), s # <<>>, NEW keys, NEW k, NEW i \in 0 .. Len(s) - 1,
         Pressed(Ongoing(keys, Head(s)), Tail(s), k, i)
  PROVE  \/ Pressed(keys, s, k, i + 1)
         \/ i = 0 /\ Pressed(keys, s, k, 0) /\ ~Released(s, k, 1)
<1>1. CASE i = 0
  <2>1. k \in Ongoing(keys, Head(s)) BY <1>1 DEF Pressed
  <2>2. Head(s) = s[1] BY TailAt
  <2>3. CASE s[1].type = "Press"
    <3>1. k \in keys \/ k = s[1].key BY <2>1, <2>2, <2>3 DEF Ongoing
    <3>2. ~Released(s, k, 1) BY <2>3 DEF Released
    <3> QED BY <1>1, <2>3, <3>1, <3>2 DEF Pressed
  <2>4. CASE s[1].type = "Release"
    <3>1. k \in keys /\ k # s[1].key BY <2>1, <2>2, <2>4 DEF Ongoing
    <3> QED BY <1>1, <3>1 DEF Pressed, Released
  <2>5. CASE s[1].type \notin {"Press", "Release"}
    <3>1. k \in keys BY <2>1, <2>2, <2>5 DEF Ongoing
    <3> QED BY <1>1, <2>5, <3>1 DEF Pressed, Released
  <2> QED BY <2>3, <2>4, <2>5
<1>2. CASE i # 0
  <2>1. Tail(s)[i] = s[i + 1] /\ i + 1 # 0 BY <1>2, TailAt
  <2> QED BY <1>2, <2>1 DEF Pressed
<1> QED BY <1>1, <1>2

LEMMA TakeEnds ==
  ASSUME NEW S, NEW s \in Seq(S), s # <<>>, NEW keys, NEW k, Ends(keys, s, k)
  PROVE  Ends(Ongoing(keys, Head(s)), Tail(s), k)
<1> DEFINE n == Len(s)
           t == Tail(s)
<1>1. n \in Nat \ {0} /\ Len(t) = n - 1 /\ \A i \in 1 .. n - 1 : t[i] = s[i + 1] BY TailAt
<1> HIDE DEF t
<1>2. ASSUME NEW i \in 0 .. n - 1, Pressed(Ongoing(keys, Head(s)), t, k, i)
      PROVE  \E j \in i + 1 .. n - 1 : Released(t, k, j)
  <2>1. PICK j \in i + 2 .. n : Released(s, k, j)
    <3>1. CASE Pressed(keys, s, k, i + 1)
      <4>1. i + 1 \in 0 .. n BY <1>1
      <4>2. (i + 1) + 1 = i + 2 OBVIOUS
      <4> QED BY <3>1, <4>1, <4>2 DEF Ends
    <3>2. CASE i = 0 /\ Pressed(keys, s, k, 0) /\ ~Released(s, k, 1)
      <4>1. PICK j \in 0 + 1 .. n : Released(s, k, j) BY <1>1, <3>2 DEF Ends
      <4>2. j # 1 BY <3>2, <4>1
      <4>3. j \in i + 2 .. n BY <1>1, <3>2, <4>2
      <4> QED BY <4>1, <4>3
    <3> QED BY <1>1, <1>2, <3>1, <3>2, TakePressed DEF t
  <2>2. j - 1 \in i + 1 .. n - 1 /\ j - 1 \in 1 .. n - 1 /\ (j - 1) + 1 = j BY <1>1
  <2>3. t[j - 1] = s[j] BY <1>1, <2>2
  <2> QED BY <2>1, <2>2, <2>3 DEF Released
<1> QED BY <1>1, <1>2 DEF Ends, t

LEMMA TakeAlternates ==
  ASSUME NEW S, NEW s \in Seq(S), s # <<>>, NEW keys, NEW k, Alternates(keys, s, k)
  PROVE  Alternates(Ongoing(keys, Head(s)), Tail(s), k)
<1> DEFINE n == Len(s)
           t == Tail(s)
           o == Ongoing(keys, Head(s))
<1>1. n \in Nat \ {0} /\ Len(t) = n - 1 /\ \A i \in 1 .. n - 1 : t[i] = s[i + 1] BY TailAt
<1> HIDE DEF t, o
<1>2. ASSUME NEW i \in 0 .. n - 1, NEW j \in i + 1 .. n - 1,
             Pressed(o, t, k, i), Pressed(o, t, k, j)
      PROVE  \E m \in i + 1 .. j - 1 : Released(t, k, m)
  <2>0. j \in 0 .. n - 1 /\ j # 0 BY <1>1
  <2>1. Pressed(keys, s, k, j + 1)
    BY <1>1, <1>2, <2>0, TakePressed DEF t, o
  <2>2. PICK m \in i + 2 .. j : Released(s, k, m)
    <3>1. CASE Pressed(keys, s, k, i + 1)
      <4>1. i + 1 \in 0 .. n /\ j + 1 \in (i + 1) + 1 .. n BY <1>1
      <4>2. PICK m \in (i + 1) + 1 .. (j + 1) - 1 : Released(s, k, m)
        BY <2>1, <3>1, <4>1 DEF Alternates
      <4>3. m \in i + 2 .. j BY <1>1, <4>1
      <4> QED BY <4>2, <4>3
    <3>2. CASE i = 0 /\ Pressed(keys, s, k, 0) /\ ~Released(s, k, 1)
      <4>1. 0 \in 0 .. n /\ j + 1 \in 0 + 1 .. n BY <1>1
      <4>2. PICK m \in 0 + 1 .. (j + 1) - 1 : Released(s, k, m)
        BY <2>1, <3>2, <4>1 DEF Alternates
      <4>3. m # 1 BY <3>2, <4>2
      <4>4. m \in i + 2 .. j BY <1>1, <3>2, <4>3
      <4> QED BY <4>2, <4>4
    <3> QED BY <1>1, <1>2, <3>1, <3>2, TakePressed DEF t, o
  <2>3. m - 1 \in i + 1 .. j - 1 /\ m - 1 \in 1 .. n - 1 /\ (m - 1) + 1 = m BY <1>1
  <2>4. t[m - 1] = s[m] BY <1>1, <2>3
  <2> QED BY <2>2, <2>3, <2>4 DEF Released
<1> QED BY <1>1, <1>2 DEF Alternates, t, o

LEMMA AppendEnds ==
  ASSUME NEW S, NEW s \in Seq(S), NEW e \in S, NEW keys, NEW k,
         \/ Ends(keys, s, k) /\ ~(e.key = k /\ e.type = "Press")
         \/ e.key = k /\ e.type = "Release"
  PROVE  Ends(keys, Append(s, e), k)
<1> DEFINE n == Len(s)
           t == Append(s, e)
<1>1. /\ n \in Nat /\ Len(t) = n + 1 /\ t[n + 1] = e
      /\ \A i \in 1 .. n : t[i] = s[i] BY AppendAt
<1> HIDE DEF t
<1>2. ASSUME NEW i \in 0 .. n + 1, Pressed(keys, t, k, i)
      PROVE  \E j \in i + 1 .. n + 1 : Released(t, k, j)
  <2>1. CASE e.key = k /\ e.type = "Release"
    <3>1. Released(t, k, n + 1) BY <1>1, <2>1 DEF Released
    <3>2. i # n + 1 BY <1>1, <1>2, <2>1 DEF Pressed
    <3>3. n + 1 \in i + 1 .. n + 1 BY <1>1, <3>2
    <3> QED BY <3>1, <3>3
  <2>2. CASE Ends(keys, s, k) /\ ~(e.key = k /\ e.type = "Press")
    <3>1. i # n + 1 BY <1>1, <1>2, <2>2 DEF Pressed
    <3>2. i \in 0 .. n BY <1>1, <3>1
    <3>3. i # 0 => i \in 1 .. n BY <3>2
    <3>4. Pressed(keys, s, k, i) BY <1>1, <1>2, <3>3 DEF Pressed
    <3>5. PICK j \in i + 1 .. n : Released(s, k, j) BY <2>2, <3>2, <3>4 DEF Ends
    <3>6. j \in 1 .. n /\ j \in i + 1 .. n + 1 BY <1>1, <3>2
    <3> QED BY <1>1, <3>5, <3>6 DEF Released
  <2> QED BY <2>1, <2>2
<1> QED BY <1>1, <1>2 DEF Ends, t

LEMMA AppendAlternates ==
  ASSUME NEW S, NEW s \in Seq(S), NEW e \in S, NEW keys, NEW k, Alternates(keys, s, k),
         e.key = k /\ e.type = "Press" => Ends(keys, s, k)
  PROVE  Alternates(keys, Append(s, e), k)
<1> DEFINE n == Len(s)
           t == Append(s, e)
<1>1. /\ n \in Nat /\ Len(t) = n + 1 /\ t[n + 1] = e
      /\ \A i \in 1 .. n : t[i] = s[i] BY AppendAt
<1> HIDE DEF t
<1>2. ASSUME NEW i \in 0 .. n + 1, NEW j \in i + 1 .. n + 1,
             Pressed(keys, t, k, i), Pressed(keys, t, k, j)
      PROVE  \E m \in i + 1 .. j - 1 : Released(t, k, m)
  <2>1. i \in 0 .. n /\ (i # 0 => i \in 1 .. n) BY <1>1
  <2>2. Pressed(keys, s, k, i) BY <1>1, <1>2, <2>1 DEF Pressed
  <2>3. CASE j = n + 1
    <3>1. Ends(keys, s, k) BY <1>1, <1>2, <2>3 DEF Pressed
    <3>2. PICK m \in i + 1 .. n : Released(s, k, m) BY <2>1, <2>2, <3>1 DEF Ends
    <3>3. m \in i + 1 .. j - 1 /\ m \in 1 .. n BY <1>1, <2>1, <2>3
    <3> QED BY <1>1, <3>2, <3>3 DEF Released
  <2>4. CASE j # n + 1
    <3>1. j \in i + 1 .. n /\ j \in 1 .. n /\ j # 0 BY <1>1, <2>4
    <3>2. Pressed(keys, s, k, j) BY <1>1, <1>2, <3>1 DEF Pressed
    <3>3. PICK m \in i + 1 .. j - 1 : Released(s, k, m)
      BY <2>1, <2>2, <3>1, <3>2 DEF Alternates
    <3>4. m \in 1 .. n BY <1>1, <2>1, <3>1
    <3> QED BY <1>1, <3>3, <3>4 DEF Released
  <2> QED BY <2>3, <2>4
<1> QED BY <1>1, <1>2 DEF Alternates, t

LEMMA HeadIsNew ==
  ASSUME NEW S, NEW s \in Seq(S), s # <<>>, NEW keys, NEW k, Alternates(keys, s, k),
         Head(s).key = k, Head(s).type = "Press"
  PROVE  k \notin keys
<1>1. Len(s) \in Nat \ {0} /\ Head(s) = s[1] BY TailAt
<1>2. SUFFICES ASSUME k \in keys PROVE FALSE OBVIOUS
<1>3. Pressed(keys, s, k, 0) /\ Pressed(keys, s, k, 1) BY <1>1, <1>2 DEF Pressed
<1>4. 0 \in 0 .. Len(s) /\ 1 \in 0 + 1 .. Len(s) BY <1>1
<1>5. \E m \in 0 + 1 .. 1 - 1 : Released(s, k, m) BY <1>3, <1>4 DEF Alternates
<1> QED BY <1>5

LEMMA NothingInOrder ==
  ASSUME NEW k
  PROVE  Alternates({}, <<>>, k) /\ Ends({}, <<>>, k)
  BY DEF Alternates, Ends, Pressed

-----------------------------------------------------------------------------
(* Layers                                                                    *)

\* p is in an array.
Has(s, p) == \E i \in 1 .. Len(s) : s[i] = p

\* ViewPortArray_remove leaves the other ports where they are in order.
LEMMA RemovedAt ==
  ASSUME NEW s \in Seq(Port), NEW p, NEW q
  PROVE  /\ Removed(s, p) \in Seq(Port)
         /\ q # p /\ Has(s, q) => Has(Removed(s, p), q)
<1>1. CASE \A i \in 1 .. Len(s) : s[i] # p
  <2>1. Removed(s, p) = s BY <1>1 DEF Removed
  <2> QED BY <2>1
<1>2. CASE ~(\A i \in 1 .. Len(s) : s[i] # p)
  <2> DEFINE n == Len(s)
             c == CHOOSE i \in 1 .. n : s[i] = p
             u == Removed(s, p)
  <2>1. c \in 1 .. n /\ s[c] = p BY <1>2
  <2>2. u = [j \in 1 .. n - 1 |-> IF j < c THEN s[j] ELSE s[j + 1]] BY <1>2 DEF Removed
  <2>3. n \in Nat OBVIOUS
  <2> HIDE DEF c, u
  <2>4. \A j \in 1 .. n - 1 : (IF j < c THEN s[j] ELSE s[j + 1]) \in Port
    <3>1. \A j \in 1 .. n - 1 : j \in 1 .. n /\ j + 1 \in 1 .. n BY <2>3
    <3>2. \A j \in 1 .. n : s[j] \in Port OBVIOUS
    <3> QED BY <3>1, <3>2
  <2>5. u \in Seq(Port) /\ Len(u) = n - 1
    <3>1. n - 1 \in Nat BY <2>1, <2>3
    <3>2. u \in [1 .. n - 1 -> Port] BY <2>2, <2>4
    <3> QED BY <2>2, <3>1, <3>2
  <2>6. ASSUME q # p, NEW i \in 1 .. n, s[i] = q
        PROVE  \E j \in 1 .. n - 1 : u[j] = q
    <3>1. i # c BY <2>1, <2>6
    <3>2. CASE i < c
      <4>1. i \in 1 .. n - 1 BY <2>1, <2>3, <3>2
      <4> QED BY <2>2, <2>6, <3>2, <4>1
    <3>3. CASE ~(i < c)
      <4>1. i - 1 \in 1 .. n - 1 /\ ~(i - 1 < c) /\ (i - 1) + 1 = i BY <2>1, <2>3, <3>1, <3>3
      <4> QED BY <2>2, <2>6, <4>1
    <3> QED BY <3>2, <3>3
  <2> QED BY <2>5, <2>6 DEF u, Has
<1> QED BY <1>1, <1>2

\* p is in one of the arrays.
Among(ls, p) == \E l \in Layer : Has(ls[l], p)

LEMMA WithoutAmong ==
  ASSUME layers \in [Layer -> Seq(Port)], NEW p, NEW q
  PROVE  /\ Without(p) \in [Layer -> Seq(Port)]
         /\ q # p /\ Among(layers, q) => Among(Without(p), q)
<1>1. \A l \in Layer : Without(p)[l] = Removed(layers[l], p) /\ layers[l] \in Seq(Port)
  BY DEF Without
<1>2. Without(p) \in [Layer -> Seq(Port)] BY <1>1, RemovedAt DEF Without
<1>3. ASSUME q # p, Among(layers, q) PROVE Among(Without(p), q)
  <2>1. PICK l \in Layer : Has(layers[l], q) BY <1>3 DEF Among
  <2>2. Has(Without(p)[l], q) BY <1>1, <1>3, <2>1, RemovedAt
  <2> QED BY <2>2 DEF Among
<1> QED BY <1>2, <1>3

\* A port put at the end or at the start of its layer: the others stay.
LEMMA PutAmong ==
  ASSUME NEW ls \in [Layer -> Seq(Port)], NEW p \in Port, NEW l \in Layer, NEW new, NEW q,
         \/ new = [ls EXCEPT ![l] = Append(@, p)]
         \/ new = [ls EXCEPT ![l] = <<p>> \o @]
  PROVE  /\ new \in [Layer -> Seq(Port)] /\ Among(new, p)
         /\ Among(ls, q) => Among(new, q)
<1> DEFINE s == ls[l]
           n == Len(s)
<1>1. s \in Seq(Port) /\ n \in Nat OBVIOUS
<1>2. PICK t \in Seq(Port) : /\ new = [ls EXCEPT ![l] = t] /\ Len(t) = n + 1
                             /\ \/ t[n + 1] = p /\ \A i \in 1 .. n : t[i] = s[i]
                                \/ t[1] = p /\ \A i \in 1 .. n : t[i + 1] = s[i]
  <2>1. CASE new = [ls EXCEPT ![l] = Append(@, p)]
    <3>1. new = [ls EXCEPT ![l] = Append(s, p)] BY <2>1
    <3>2. /\ Append(s, p) \in Seq(Port) /\ Len(Append(s, p)) = n + 1
          /\ Append(s, p)[n + 1] = p /\ \A i \in 1 .. n : Append(s, p)[i] = s[i]
      BY <1>1, AppendAt
    <3> QED BY <3>1, <3>2
  <2>2. CASE new = [ls EXCEPT ![l] = <<p>> \o @]
    <3>1. new = [ls EXCEPT ![l] = <<p>> \o s] BY <2>2
    <3>2. <<p>> \o s \in Seq(Port) /\ Len(<<p>> \o s) = n + 1 /\ (<<p>> \o s)[1] = p
      BY <1>1
    <3>3. \A i \in 1 .. n : (<<p>> \o s)[i + 1] = s[i] BY <1>1
    <3> QED BY <3>1, <3>2, <3>3
  <2> QED BY <2>1, <2>2
<1>3. new \in [Layer -> Seq(Port)] /\ new[l] = t BY <1>2
<1>4. 1 \in 1 .. n + 1 /\ n + 1 \in 1 .. n + 1 /\ \A i \in 1 .. n : i \in 1 .. n + 1 /\ i + 1 \in 1 .. n + 1
  BY <1>1
<1> HIDE DEF s, n
<1>5. Among(new, p) BY <1>2, <1>3, <1>4 DEF Among, Has
<1>6. ASSUME Among(ls, q) PROVE Among(new, q)
  <2>1. PICK m \in Layer : \E i \in 1 .. Len(ls[m]) : ls[m][i] = q BY <1>6 DEF Among, Has
  <2>2. CASE m = l
    <3>1. PICK i \in 1 .. n : s[i] = q BY <2>1, <2>2 DEF s, n
    <3>2. \E j \in 1 .. Len(t) : t[j] = q BY <1>2, <1>4, <3>1
    <3> QED BY <1>3, <3>2 DEF Among, Has
  <2>3. CASE m # l
    <3>1. new[m] = ls[m] BY <1>2, <2>3
    <3> QED BY <2>1, <3>1 DEF Among, Has
  <2> QED BY <2>2, <2>3
<1> QED BY <1>3, <1>5, <1>6

\* A set of places has a last one.
LEMMA LastPlace ==
  ASSUME NEW n \in Nat, NEW S, S \subseteq 1 .. n, S # {}
  PROVE  \E m \in S : \A k \in S : k =< m
<1> DEFINE R == OpToRel(<, Nat)
           D == {n - k : k \in S}
<1>1. IsWellFoundedOn(R, Nat) BY NatLessThanWellFounded
<1>2. D \subseteq Nat /\ D # {}
  <2>1. ASSUME NEW k \in S PROVE n - k \in Nat
    <3>1. k \in 1 .. n OBVIOUS
    <3> QED BY <3>1
  <2> QED BY <2>1
<1> HIDE DEF D
<1>3. PICK d \in D : \A e \in D : ~(<<e, d>> \in R)
  <2> HIDE DEF R
  <2> QED BY <1>1, <1>2, WFMin
<1>4. PICK m \in S : d = n - m BY DEF D
<1>5. ASSUME NEW k \in S PROVE k =< m
  <2>1. n - k \in D /\ n - k \in Nat /\ d \in Nat BY <1>2 DEF D
  <2>2. ~(n - k < d) BY <1>3, <2>1 DEF OpToRel
  <2> QED BY <1>4, <2>1, <2>2
<1> QED BY <1>5

\* gui_view_port_find_enabled finds an enabled port of the layer, if any.
LEMMA FindEnabledIn ==
  ASSUME ScreenOK, NEW l \in Layer, FindEnabled(l) # None
  PROVE  FindEnabled(l) \in enabled /\ InLayer(FindEnabled(l))
<1> DEFINE n == Len(layers[l])
           S == {i \in 1 .. n : layers[l][i] \in enabled}
           c == CHOOSE i \in S : \A j \in S : j =< i
<1>1. n \in Nat BY DEF ScreenOK
<1>2. S # {} /\ FindEnabled(l) = layers[l][c] BY DEF FindEnabled
<1>3. \E i \in S : \A j \in S : j =< i
  <2>1. S \subseteq 1 .. n OBVIOUS
  <2> HIDE DEF S
  <2> QED BY <1>1, <1>2, <2>1, LastPlace
<1>4. c \in S
  <2> HIDE DEF S
  <2> QED BY <1>3
<1>5. c \in 1 .. n /\ layers[l][c] \in enabled BY <1>4
<1> QED BY <1>2, <1>5 DEF InLayer

LEMMA TopPortIn ==
  ASSUME ScreenOK, TopPort # None
  PROVE  TopPort \in enabled /\ TopPort \in Port /\ InLayer(TopPort)
<1>1. PICK l \in Layer : TopPort = FindEnabled(l) BY DEF TopPort, Above, Layer
<1>2. TopPort \in enabled /\ InLayer(TopPort) BY <1>1, FindEnabledIn
<1> QED BY <1>2 DEF ScreenOK

LEMMA SameTop ==
  ASSUME layers' = layers, enabled' = enabled, mode' = mode
  PROVE  TopPort' = TopPort /\ Above' = Above
<1>1. Above' = Above BY DEF Above, FindEnabled
<1>2. TopPort' = TopPort BY <1>1 DEF TopPort, FindEnabled, IsLockdown
<1> QED BY <1>1, <1>2

\* The frame is the same while layers, enabled ports, lockdown and view are.
LEMMA SameFrame ==
  ASSUME layers' = layers, enabled' = enabled,
         mode'.lockdown = mode.lockdown, mode'.inhibit = mode.inhibit,
         disp'.current = disp.current
  PROVE  Drawn(Content)' = Drawn(Content)
  BY DEF Drawn, Content, TopPort, Above, FindEnabled, IsLockdown

\* The port at the last of the given places of an array.
LastOf(s, places) ==
    IF places = {} THEN None ELSE s[CHOOSE i \in places : \A j \in places : j =< i]

\* ... and while what is enabled or disabled is in no layer.
LEMMA OutsideFrame ==
  ASSUME NEW p, ~InLayer(p), layers' = layers, mode' = mode,
         enabled' \in {enabled \cup {p}, enabled \ {p}}, disp'.current = disp.current
  PROVE  Drawn(Content)' = Drawn(Content)
<1>1. ASSUME NEW l \in Layer PROVE FindEnabled(l)' = FindEnabled(l)
  <2>1. {i \in 1 .. Len(layers'[l]) : layers'[l][i] \in enabled'}
          = {i \in 1 .. Len(layers[l]) : layers[l][i] \in enabled}
    <3>1. \A i \in 1 .. Len(layers[l]) : layers[l][i] # p BY DEF InLayer
    <3> QED BY <3>1
  <2>2. FindEnabled(l)
          = LastOf(layers[l], {i \in 1 .. Len(layers[l]) : layers[l][i] \in enabled})
    BY Zenon DEF FindEnabled, LastOf
  <2>3. FindEnabled(l)'
          = LastOf(layers'[l], {i \in 1 .. Len(layers'[l]) : layers'[l][i] \in enabled'})
    BY Zenon DEF FindEnabled, LastOf
  <2> QED BY <2>1, <2>2, <2>3
<1>2. Above' = Above BY <1>1 DEF Above, Layer
<1>3. TopPort' = TopPort BY <1>1, <1>2 DEF TopPort, IsLockdown, Layer
<1> QED BY <1>2, <1>3 DEF Drawn, Content, IsLockdown

-----------------------------------------------------------------------------
(* Which steps touch what                                                    *)

LEMMA Ports == App \in Port /\ App \notin Plain /\ Plain \subseteq Port /\ None \notin Port
  BY GuiAssumption, DispatcherAssumption DEF Plain

\* The queue of the GUI is written by the publishers and by gui_input.
LEMMA KeysFrame ==
  ASSUME [Next]_vars
  PROVE  \/ KeyArrives \/ GuiInput
         \/ inputQueue' = inputQueue /\ down' = down
<1>1. CASE UNCHANGED vars BY <1>1 DEF vars, keyVars
<1>2. CASE GuiStep
  BY <1>2 DEF GuiStep, GuiThread, Wake, InputDone, DeliverPlain, Redraw, Commit, keyVars
<1>3. CASE DeliverApp BY <1>3 DEF DeliverApp, keyVars
<1>4. CASE AppCalls
  BY <1>4 DEF AppCalls, Attach, SendTo, ShowLoading, Stop, HandOrientChanged, AddView,
      SwitchToView, AppCall, keyVars
<1>5. CASE AppThread
  BY <1>5 DEF AppThread, Enter, Show, HandleInput, Navigate, Drain, RunReturns,
              RemoveView, Free, keyVars
<1>6. CASE Environment
  BY <1>6 DEF Environment, GuiCalls, AddViewPort, RemoveViewPort, Reorder, EnabledSet,
              SetLockdown, SetLockdownInhibit, DirectDrawAcquire, DirectDrawRelease,
              LockedCall, Call, keyVars
<1> QED BY <1>1, <1>2, <1>3, <1>4, <1>5, <1>6 DEF Next

\* The state of the GUI's thread is its own, but for the port it forgets when
\* one is removed.
LEMMA GuiFrame ==
  ASSUME [Next]_vars
  PROVE  \/ GuiThread \/ DeliverApp \/ Free
         \/ \E p \in Plain \ {Home} : RemoveViewPort(p)
         \/ gui' = gui /\ held' = held
<1>1. CASE UNCHANGED vars BY <1>1 DEF vars, guiVars
<1>2. CASE GuiStep BY <1>2 DEF GuiStep
<1>3. CASE DeliverApp BY <1>3
<1>4. CASE AppCalls
  BY <1>4 DEF AppCalls, Attach, SendTo, ShowLoading, Stop, HandOrientChanged, AddView,
      SwitchToView, AppCall
<1>5. CASE AppThread
  BY <1>5 DEF AppThread, Enter, Show, HandleInput, Navigate, Drain, RunReturns,
              RemoveView, guiVars
<1>6. CASE Environment
  BY <1>6 DEF Environment, GuiCalls, KeyArrives, AddViewPort, Reorder, EnabledSet,
              SetLockdown, SetLockdownInhibit, DirectDrawAcquire, DirectDrawRelease
<1> QED BY <1>1, <1>2, <1>3, <1>4, <1>5, <1>6 DEF Next

\* What the dispatcher counts and queues changes in these steps.
LEMMA DispFrame ==
  ASSUME [Next]_vars
  PROVE  \/ DeliverApp \/ Enter \/ HandleInput \/ Navigate \/ Drain \/ Free \/ ShowLoading
         \/ \E v \in View : RemoveView(v)
         \/ \E v \in View \cup {None} : SwitchToView(v)
         \/ UNCHANGED <<queue, disp, seen>>
<1>1. CASE UNCHANGED vars BY <1>1 DEF vars, dispVars
<1>2. CASE GuiStep BY <1>2 DEF GuiStep, dispVars
<1>3. CASE DeliverApp BY <1>3
<1>4. CASE AppCalls BY <1>4 DEF AppCalls, Attach, SendTo, Stop, HandOrientChanged, AddView, dispVars
<1>5. CASE AppThread BY <1>5 DEF AppThread, Show, RunReturns
<1>6. CASE Environment BY <1>6 DEF Environment, dispVars
<1> QED BY <1>1, <1>2, <1>3, <1>4, <1>5, <1>6 DEF Next

\* The orientation changes only when a view is entered, the hand only on the
\* user's choice.
LEMMA FlippedFrame ==
  ASSUME [Next]_vars
  PROVE  /\ Enter \/ flipped' = flipped
         /\ Enter \/ HandOrientChanged \/ remapped' = remapped
<1>1. CASE UNCHANGED vars BY <1>1, Zenon DEF vars, dispVars
<1>2. CASE GuiStep BY <1>2, Zenon DEF GuiStep, dispVars
<1>3. CASE DeliverApp BY <1>3, Zenon DEF DeliverApp
<1>4. CASE AppCalls
  BY <1>4, Zenon DEF AppCalls, Attach, SendTo, ShowLoading, Stop, HandOrientChanged, AddView,
      SwitchToView, dispVars
<1>5. CASE AppThread
  BY <1>5, Zenon DEF AppThread, Show, HandleInput, Navigate, Drain, RunReturns, RemoveView, Free
<1>6. CASE Environment BY <1>6, Zenon DEF Environment, dispVars
<1> QED BY <1>1, <1>2, <1>3, <1>4, <1>5, <1>6, Zenon DEF Next

\* A port whose keys were mapped anew is remembered.
LEMMA RemappedGrows ==
  ASSUME [Next]_vars PROVE remapped \subseteq remapped'
<1>1. CASE Enter BY <1>1 DEF Enter
<1>2. CASE HandOrientChanged BY <1>2 DEF HandOrientChanged
<1> QED BY <1>1, <1>2, FlippedFrame

\* A rotation the port is not remembered for found no key let in.
LEMMA RotatedFree ==
  ASSUME Enter, Rotates(app.next), App \notin remapped'
  PROVE  disp.ongoing = {} /\ queue = <<>>
<1>1. App \notin LetIn BY DEF Enter
<1> QED BY <1>1 DEF LetIn

\* hand_orient_changed finds a key let in.
LEMMA HandRemaps ==
  ASSUME HandOrientChanged PROVE App \in remapped'
  BY DEF HandOrientChanged, LetIn

\* Views come, go and are entered in these steps.
LEMMA AppFrame ==
  ASSUME [Next]_vars
  PROVE  \/ Enter \/ Show \/ HandleInput \/ Navigate \/ RunReturns \/ Free \/ ShowLoading \/ Stop
         \/ \E v \in View : RemoveView(v) \/ AddView(v)
         \/ \E v \in View \cup {None} : SwitchToView(v)
         \/ UNCHANGED <<app, views, loading>>
<1>1. CASE UNCHANGED vars BY <1>1, Zenon DEF vars, dispVars
<1>2. CASE GuiStep BY <1>2, Zenon DEF GuiStep, dispVars
<1>3. CASE DeliverApp BY <1>3, Zenon DEF DeliverApp
<1>4. CASE AppCalls BY <1>4, Zenon DEF AppCalls, Attach, SendTo, HandOrientChanged, dispVars
<1>5. CASE AppThread BY <1>5, Zenon DEF AppThread, Drain
<1>6. CASE Environment BY <1>6, Zenon DEF Environment, dispVars
<1> QED BY <1>1, <1>2, <1>3, <1>4, <1>5, <1>6, Zenon DEF Next

\* Layers, enabled ports and the mode change in these steps.
LEMMA ScreenFrame ==
  ASSUME [Next]_vars
  PROVE  \/ Attach \/ SendTo \/ Show \/ Free \/ GuiCalls \/ HandOrientChanged
         \/ \E v \in View : RemoveView(v)
         \/ UNCHANGED <<layers, enabled, mode>>
<1>1. CASE UNCHANGED vars BY <1>1 DEF vars, guiVars
<1>2. CASE GuiStep
  BY <1>2 DEF GuiStep, GuiThread, Wake, InputDone, GuiInput, DeliverPlain, Redraw, Commit
<1>3. CASE DeliverApp BY <1>3 DEF DeliverApp
<1>4. CASE AppCalls BY <1>4 DEF AppCalls, ShowLoading, Stop, AddView, SwitchToView, AppCall
<1>5. CASE AppThread
  BY <1>5 DEF AppThread, Enter, HandleInput, Navigate, Drain, RunReturns, guiVars
<1>6. CASE Environment BY <1>6 DEF Environment, KeyArrives
<1> QED BY <1>1, <1>2, <1>3, <1>4, <1>5, <1>6 DEF Next

-----------------------------------------------------------------------------
(* Values of the variables                                                   *)

LEMMA OngoingType ==
  ASSUME NEW K, NEW keys \in SUBSET K, NEW e, e.key \in K
  PROVE  Ongoing(keys, e) \in SUBSET K
<1>1. CASE e.type = "Press" BY <1>1 DEF Ongoing
<1>2. CASE e.type = "Release" BY <1>2 DEF Ongoing
<1>3. CASE e.type \notin {"Press", "Release"} BY <1>3 DEF Ongoing
<1> QED BY <1>1, <1>2, <1>3

\* An event that is published.
LEMMA Published ==
  ASSUME KeyArrives
  PROVE  \E e \in KeyEvent :
           /\ inputQueue' = Append(inputQueue, e)
           /\ \/ e.type = "Release" /\ down' = down \ {e.key}
              \/ e.type = "Press" /\ e.key \notin down /\ down' = down \cup {e.key}
              \/ e.type \notin {"Press", "Release"} /\ down' = down
<1>1. CASE \E k \in Key : ReleaseKey(k)
  <2>1. PICK k \in Key : ReleaseKey(k) BY <1>1
  <2>2. Ev(k, "Release") \in KeyEvent /\ Ev(k, "Release").type = "Release"
          /\ Ev(k, "Release").key = k BY DEF KeyEvent, Ev
  <2> QED BY <2>1, <2>2 DEF ReleaseKey, Publish
<1>2. CASE \E k \in Tapped : ShortKey(k)
  <2>1. PICK k \in Key : ShortKey(k) BY <1>2, GuiAssumption
  <2>2. Ev(k, "Short") \in KeyEvent /\ Ev(k, "Short").type = "Short" BY DEF KeyEvent, Ev
  <2> QED BY <2>1, <2>2 DEF ShortKey, Publish
<1>3. CASE \E k \in Tapped : LateKey(k)
  <2>1. PICK k \in Key : LateKey(k) BY <1>3, GuiAssumption
  <2>2. PICK t \in LateTypes : Publish(Ev(k, t)) BY <2>1 DEF LateKey
  <2>3. Ev(k, t) \in KeyEvent /\ Ev(k, t).type = t BY DEF KeyEvent, Ev
  <2>4. t \notin {"Press", "Release"} BY GuiAssumption
  <2> QED BY <2>1, <2>2, <2>3, <2>4 DEF LateKey, Publish
<1>4. CASE \E k \in Clicked : PressKey(k)
  <2>1. PICK k \in Key : PressKey(k) BY <1>4, GuiAssumption
  <2>2. Ev(k, "Press") \in KeyEvent /\ Ev(k, "Press").type = "Press"
          /\ Ev(k, "Press").key = k BY DEF KeyEvent, Ev
  <2> QED BY <2>1, <2>2 DEF PressKey, Publish
<1> QED BY <1>1, <1>2, <1>3, <1>4 DEF KeyArrives

\* view_port_map_input, its first half.
LEMMA HandedEvent ==
  ASSUME NEW e \in KeyEvent
  PROVE  /\ Handed(e.key) \in Key /\ Ev(Handed(e.key), e.type) \in KeyEvent
         /\ Ev(Handed(e.key), e.type).key = Handed(e.key)
         /\ Ev(Handed(e.key), e.type).type = e.type
<1>1. e.key \in Key /\ e.type \in {"Press", "Release", "Short"} \cup LateTypes BY DEF KeyEvent
<1>2. Handed(e.key) \in Key BY <1>1, GuiAssumption DEF Handed
<1> QED BY <1>1, <1>2 DEF Ev, KeyEvent

\* What gui_input does with the event it takes.
LEMMA Routed ==
  ASSUME TypeOK, GuiInput
  PROVE  \E e \in KeyEvent, bound \in Port \cup {None}, to \in Port \cup {None} :
           /\ inputQueue # <<>> /\ e = Head(inputQueue) /\ inputQueue' = Tail(inputQueue)
           /\ down' = down /\ gui.pc = "input"
           /\ gui' = [gui EXCEPT !.ongoing = Ongoing(gui.ongoing, e), !.port = bound, !.to = to,
                        !.ev = IF to = None THEN NoEvent ELSE Ev(Handed(e.key), e.type),
                        !.pc = IF to = None THEN "input" ELSE "deliver"]
           /\ bound # gui.port => IsFirstPress(gui.ongoing, e) /\ bound = TopPort
           /\ to # None => to = bound
           /\ e.type = "Release" /\ gui.port # None => to = gui.port
<1>1. inputQueue \in Seq(KeyEvent) /\ inputQueue # <<>>
  BY DEF GuiInput, TakeKey, TypeOK, GuiOK
<1>2. PICK e \in KeyEvent : e = Head(inputQueue) BY <1>1, TailAt
<1> DEFINE dropped == mode.direct /\ gui.port = None
           bound == IF IsFirstPress(gui.ongoing, e) /\ ~dropped THEN TopPort ELSE gui.port
           to == IF IsComplementary(gui.ongoing, e) /\ ~dropped
                 THEN Receiver(e, TopPort, bound) ELSE None
<1>3. gui.port \in Port \cup {None} /\ ScreenOK BY DEF TypeOK, GuiOK, GuiThreadState
<1>4. bound \in Port \cup {None} BY <1>3, TopPortIn
<1>5. to \in {bound, None} BY DEF Receiver
<1>6. bound # gui.port => IsFirstPress(gui.ongoing, e) /\ bound = TopPort OBVIOUS
<1>7. e.type = "Release" /\ gui.port # None => to = gui.port
  BY DEF IsFirstPress, IsComplementary, Receiver
<1>8. /\ gui.pc = "input" /\ inputQueue' = Tail(inputQueue) /\ down' = down
      /\ gui' = [gui EXCEPT !.ongoing = Ongoing(gui.ongoing, e), !.port = bound, !.to = to,
                        !.ev = IF to = None THEN NoEvent ELSE Ev(Handed(e.key), e.type),
                        !.pc = IF to = None THEN "input" ELSE "deliver"]
  BY <1>2 DEF GuiInput, TakeKey
<1> HIDE DEF bound, to
<1>9. PICK b \in Port \cup {None}, t \in Port \cup {None} : b = bound /\ t = to
  BY <1>4, <1>5
<1> QED BY <1>1, <1>2, <1>5, <1>6, <1>7, <1>8, <1>9

LEMMA IsWithin == \A x, S : \E b \in BOOLEAN : b = (x \subseteq S)
<1> TAKE x, S
<1>1. CASE x \subseteq S
  <2>1. TRUE = (x \subseteq S) BY <1>1
  <2> QED BY <2>1, Zenon
<1>2. CASE ~(x \subseteq S)
  <2>1. FALSE = (x \subseteq S) BY <1>2
  <2> QED BY <2>1, Zenon
<1> QED BY <1>1, <1>2

\* gui' is a state of the GUI's thread: after an event was routed, after one
\* was delivered, after a port was removed.
LEMMA GuiState ==
  ASSUME TypeOK, [Next]_vars
  PROVE  gui' \in GuiThreadState
<1> USE DEF TypeOK, GuiOK
<1>1. CASE GuiInput
  <2>1. PICK e \in KeyEvent, bound \in Port \cup {None}, to \in Port \cup {None} :
           gui' = [gui EXCEPT !.ongoing = Ongoing(gui.ongoing, e), !.port = bound, !.to = to,
                        !.ev = IF to = None THEN NoEvent ELSE Ev(Handed(e.key), e.type),
                        !.pc = IF to = None THEN "input" ELSE "deliver"]
    BY <1>1, Routed
  <2>2. gui.ongoing \in SUBSET Key BY DEF GuiThreadState
  <2>3. Ongoing(gui.ongoing, e) \in SUBSET Key BY <2>2, OngoingType DEF KeyEvent
  <2>4. Ev(Handed(e.key), e.type) \in KeyEvent BY HandedEvent
  <2> QED BY <2>1, <2>3, <2>4 DEF GuiThreadState
<1>2. CASE Wake
  <2>1. PICK b \in BOOLEAN, pc \in {"input", "redraw"} :
          gui' = [gui EXCEPT !.pc = pc, !.draw = b]
    <3>1. PICK b \in BOOLEAN : b = ({"INPUT", "DRAW"} \subseteq flags) BY IsWithin
    <3>2. CASE "INPUT" \in flags BY <1>2, <3>1, <3>2 DEF Wake
    <3>3. CASE "INPUT" \notin flags BY <1>2, <3>1, <3>3 DEF Wake
    <3> QED BY <3>2, <3>3
  <2> QED BY <2>1 DEF GuiThreadState
<1>3. CASE InputDone BY <1>3 DEF InputDone, GuiThreadState
<1>4. CASE DeliverPlain \/ DeliverApp
  BY <1>4 DEF DeliverPlain, DeliverApp, Idle, GuiThreadState
<1>5. CASE Redraw BY <1>5 DEF Redraw, GuiThreadState
<1>6. CASE Commit BY <1>6 DEF Commit, GuiThreadState
<1>7. CASE Free BY <1>7 DEF Free, Forgotten, GuiThreadState
<1>8. CASE \E p \in Plain \ {Home} : RemoveViewPort(p)
  BY <1>8 DEF RemoveViewPort, Forgotten, GuiThreadState
<1>9. CASE gui' = gui BY <1>9
<1> QED BY <1>1, <1>2, <1>3, <1>4, <1>5, <1>6, <1>7, <1>8, <1>9, GuiFrame DEF GuiThread

LEMMA GuiTyped ==
  ASSUME TypeOK, DeliversToBound, [Next]_vars
  PROVE  GuiOK'
<1> USE DEF TypeOK, GuiOK
<1>1. gui' \in GuiThreadState BY GuiState
<1>2. inputQueue' \in Seq(KeyEvent) /\ down' \subseteq Key
  <2>1. CASE KeyArrives
    <3>1. PICK e \in KeyEvent :
           /\ inputQueue' = Append(inputQueue, e)
           /\ \/ e.type = "Release" /\ down' = down \ {e.key}
              \/ e.type = "Press" /\ e.key \notin down /\ down' = down \cup {e.key}
              \/ e.type \notin {"Press", "Release"} /\ down' = down
      BY <2>1, Published
    <3>2. e.key \in Key BY DEF KeyEvent
    <3> QED BY <3>1, <3>2, AppendAt
  <2>2. CASE GuiInput
    <3>1. inputQueue # <<>> /\ inputQueue' = Tail(inputQueue) /\ down' = down BY <2>2, Routed
    <3> QED BY <3>1, TailAt
  <2> QED BY <2>1, <2>2, KeysFrame
<1>3. held' \in [Port -> SUBSET Key]
  <2>1. CASE DeliverPlain
    <3>1. gui.ev \in KeyEvent BY <2>1 DEF DeliverPlain, DeliversToBound
    <3>2. gui.to \in Port BY <2>1, Ports DEF DeliverPlain
    <3>3. Ongoing(held[gui.to], gui.ev) \in SUBSET Key BY <3>1, <3>2, OngoingType DEF KeyEvent
    <3> QED BY <2>1, <3>2, <3>3 DEF DeliverPlain
  <2>2. CASE \E p \in Plain \ {Home} : RemoveViewPort(p)
    BY <2>2 DEF RemoveViewPort
  <2>3. CASE Wake \/ InputDone \/ GuiInput \/ Redraw \/ Commit \/ DeliverApp \/ Free
    BY <2>3 DEF Wake, InputDone, GuiInput, Redraw, Commit, DeliverApp, Free
  <2> QED BY <2>1, <2>2, <2>3, GuiFrame DEF GuiThread
<1> QED BY <1>1, <1>2, <1>3

LEMMA UpdatedFlags ==
  ASSUME ScreenOK PROVE Updated \subseteq {"INPUT", "DRAW"}
  BY DEF Updated, ScreenOK

\* gui->flags
LEMMA FlagsTyped ==
  ASSUME ScreenOK, [Next]_vars
  PROVE  flags' \subseteq {"INPUT", "DRAW"}
<1> USE UpdatedFlags
<1>0. flags \subseteq {"INPUT", "DRAW"} BY DEF ScreenOK
<1>1. CASE UNCHANGED vars BY <1>0, <1>1 DEF vars, guiVars
<1>2. CASE GuiStep
  BY <1>0, <1>2 DEF GuiStep, GuiThread, Wake, InputDone, GuiInput, DeliverPlain, Redraw,
                    Commit, Committed
<1>3. CASE DeliverApp BY <1>0, <1>3 DEF DeliverApp
<1>4. CASE AppCalls
  BY <1>0, <1>4 DEF AppCalls, Attach, SendTo, ShowLoading, Stop, HandOrientChanged, AddView,
      SwitchToView
<1>5. CASE AppThread
  <2>1. CASE Enter \/ HandleInput \/ Navigate \/ Drain \/ RunReturns
    BY <1>0, <2>1 DEF Enter, HandleInput, Navigate, Drain, RunReturns, guiVars
  <2>2. CASE Show BY <1>0, <2>2 DEF Show
  <2>3. CASE \E v \in View : RemoveView(v) BY <1>0, <2>3 DEF RemoveView
  <2>4. CASE Free BY <2>4 DEF Free
  <2> QED BY <1>5, <2>1, <2>2, <2>3, <2>4 DEF AppThread
<1>6. CASE Environment
  BY <1>0, <1>6 DEF Environment, GuiCalls, KeyArrives, AddViewPort, RemoveViewPort, Reorder,
                    EnabledSet, SetLockdown, SetLockdownInhibit, DirectDrawAcquire,
                    DirectDrawRelease, LockedCall, Call
<1> QED BY <1>1, <1>2, <1>3, <1>4, <1>5, <1>6 DEF Next

\* The mode changes by the calls for it; a call under gui->mutex asks for a
\* redraw, and so does the end of direct drawing.
LEMMA ModeFrame ==
  ASSUME ScreenOK, [Next]_vars
  PROVE  /\ mode' \in [lockdown : BOOLEAN, inhibit : BOOLEAN, direct : BOOLEAN, hand : BOOLEAN]
         /\ DirectDrawAcquire \/ DirectDrawRelease \/ mode'.direct = mode.direct
         /\ HandOrientChanged \/ mode'.hand = mode.hand
<1> USE DEF ScreenOK
<1>1. CASE mode' = mode BY <1>1
<1>2. CASE SetLockdown
  <2>1. PICK b \in BOOLEAN : b = ~mode.lockdown OBVIOUS
  <2>2. mode' = [mode EXCEPT !.lockdown = b] BY <1>2, <2>1 DEF SetLockdown
  <2> QED BY <2>2
<1>3. CASE SetLockdownInhibit
  <2>1. PICK b \in BOOLEAN : b = ~mode.inhibit OBVIOUS
  <2>2. mode' = [mode EXCEPT !.inhibit = b] BY <1>3, <2>1 DEF SetLockdownInhibit
  <2> QED BY <2>2
<1>4. CASE DirectDrawAcquire BY <1>4 DEF DirectDrawAcquire
<1>5. CASE DirectDrawRelease BY <1>5 DEF DirectDrawRelease
<1>6. CASE Attach \/ SendTo \/ Show \/ Free \/ \E v \in View : RemoveView(v)
  BY <1>1, <1>6 DEF Attach, SendTo, AppCall, Show, Free, RemoveView
<1>7. CASE GuiCalls
  BY <1>1, <1>2, <1>3, <1>4, <1>5, <1>7 DEF GuiCalls, AddViewPort, RemoveViewPort, Reorder, EnabledSet
<1>8. CASE HandOrientChanged
  <2>1. PICK b \in BOOLEAN : b = ~mode.hand OBVIOUS
  <2>2. mode' = [mode EXCEPT !.hand = b] BY <1>8, <2>1 DEF HandOrientChanged
  <2> QED BY <1>8, <2>2
<1> QED BY <1>1, <1>6, <1>7, <1>8, ScreenFrame

\* The arrays of ports: a step puts, removes or moves one port.
LEMMA LayersFrame ==
  ASSUME ScreenOK, [Next]_vars, NEW q
  PROVE  /\ layers' \in [Layer -> Seq(Port)]
         /\ Among(layers, q) =>
              \/ Among(layers', q) \/ (q = App /\ Free)
              \/ q \in Plain \ {Home} /\ RemoveViewPort(q)
<1>0. layers \in [Layer -> Seq(Port)] BY DEF ScreenOK
<1>1. CASE layers' = layers BY <1>0, <1>1
<1>2. ASSUME NEW p \in Port, layers' = Added(p)
      PROVE  layers' \in [Layer -> Seq(Port)] /\ (Among(layers, q) => Among(layers', q))
  <2>1. LayerOf[p] \in Layer BY GuiAssumption
  <2>2. PICK ls : ls = layers OBVIOUS
  <2>3. /\ ls \in [Layer -> Seq(Port)]
        /\ \/ layers' = [ls EXCEPT ![LayerOf[p]] = Append(@, p)]
           \/ layers' = [ls EXCEPT ![LayerOf[p]] = <<p>> \o @]
    BY <1>0, <1>2, <2>2 DEF Added
  <2>4. layers' \in [Layer -> Seq(Port)] /\ (Among(ls, q) => Among(layers', q))
    BY <2>1, <2>3, PutAmong
  <2> QED BY <2>2, <2>4
<1>3. ASSUME NEW p \in Port,
             \/ layers' = [Without(p) EXCEPT ![LayerOf[p]] = Append(@, p)]
             \/ layers' = [Without(p) EXCEPT ![LayerOf[p]] = <<p>> \o @]
      PROVE  layers' \in [Layer -> Seq(Port)] /\ (Among(layers, q) => Among(layers', q))
  <2>1. LayerOf[p] \in Layer BY GuiAssumption
  <2>2. PICK ls : ls = Without(p) OBVIOUS
  <2>3. ls \in [Layer -> Seq(Port)] /\ (q # p /\ Among(layers, q) => Among(ls, q))
    BY <1>0, <2>2, WithoutAmong
  <2>4. /\ layers' \in [Layer -> Seq(Port)] /\ Among(layers', p)
        /\ Among(ls, q) => Among(layers', q)
    BY <1>3, <2>1, <2>2, <2>3, PutAmong
  <2> QED BY <2>3, <2>4
<1>4. CASE Attach \/ SendTo BY <1>2, <1>3, <1>4, Ports DEF Attach, SendTo
<1>5. CASE Show \/ HandOrientChanged \/ \E v \in View : RemoveView(v)
  BY <1>1, <1>5 DEF Show, HandOrientChanged, RemoveView
<1>6. CASE Free
  <2>1. layers' = Without(App) BY <1>6 DEF Free
  <2> QED BY <1>0, <1>6, <2>1, WithoutAmong
<1>7. CASE GuiCalls
  <2>1. ASSUME NEW p \in Plain \ {Home}, AddViewPort(p) \/ Reorder(p)
        PROVE layers' \in [Layer -> Seq(Port)] /\ (Among(layers, q) => Among(layers', q))
    BY <1>2, <1>3, <2>1, Ports DEF AddViewPort, Reorder
  <2>2. ASSUME NEW p \in Plain \ {Home}, RemoveViewPort(p)
        PROVE /\ layers' \in [Layer -> Seq(Port)]
              /\ Among(layers, q) =>
                   Among(layers', q) \/ (q \in Plain \ {Home} /\ RemoveViewPort(q))
    <3>1. layers' = Without(p) BY <2>2 DEF RemoveViewPort
    <3>2. CASE q = p BY <1>0, <2>2, <3>1, <3>2, WithoutAmong
    <3>3. CASE q # p BY <1>0, <3>1, <3>3, WithoutAmong
    <3> QED BY <3>2, <3>3
  <2>3. ASSUME NEW p \in Plain \ {Home}, EnabledSet(p) PROVE layers' = layers
    BY <2>3 DEF EnabledSet
  <2>4. CASE SetLockdown \/ SetLockdownInhibit \/ DirectDrawAcquire \/ DirectDrawRelease
    BY <1>1, <2>4 DEF SetLockdown, SetLockdownInhibit, DirectDrawAcquire, DirectDrawRelease
  <2> QED BY <1>1, <1>7, <2>1, <2>2, <2>3, <2>4 DEF GuiCalls
<1> QED BY <1>1, <1>4, <1>5, <1>6, <1>7, ScreenFrame

LEMMA ScreenTyped ==
  ASSUME ScreenOK, [Next]_vars
  PROVE  ScreenOK'
<1>1. enabled' \subseteq Port
  <2>0. enabled \subseteq Port BY DEF ScreenOK
  <2>1. CASE Attach \/ SendTo \/ Show \/ Free \/ HandOrientChanged \/ \E v \in View : RemoveView(v)
    BY <2>0, <2>1, Ports DEF Attach, SendTo, Show, Shown, Free, HandOrientChanged, RemoveView
  <2>2. CASE GuiCalls
    BY <2>0, <2>2, Ports DEF GuiCalls, AddViewPort, RemoveViewPort, Reorder, EnabledSet,
       SetLockdown, SetLockdownInhibit, DirectDrawAcquire, DirectDrawRelease
  <2> QED BY <2>0, <2>1, <2>2, ScreenFrame
<1> QED BY <1>1, FlagsTyped, ModeFrame, LayersFrame DEF ScreenOK

\* view_port_map_input keeps keys apart.
LEMMA MappedApart ==
  ASSUME NEW k \in Key, NEW q \in Key, MapInput(k) = MapInput(q) PROVE k = q
<1>1. Handed(k) \in Key /\ Handed(q) \in Key BY GuiAssumption DEF Handed
<1>2. Handed(k) = Handed(q) BY <1>1, GuiAssumption DEF MapInput, Oriented
<1> QED BY <1>2, GuiAssumption DEF Handed

\* view_port_map_input, its second half.
LEMMA OrientedEvent ==
  ASSUME NEW e \in KeyEvent
  PROVE  /\ Ev(Oriented(e.key), e.type) \in KeyEvent
         /\ Ev(Oriented(e.key), e.type).key = Oriented(e.key)
         /\ Ev(Oriented(e.key), e.type).type = e.type
<1>1. e.key \in Key /\ e.type \in {"Press", "Release", "Short"} \cup LateTypes BY DEF KeyEvent
<1>2. Oriented(e.key) \in Key BY <1>1, GuiAssumption DEF Oriented
<1> QED BY <1>1, <1>2 DEF Ev, KeyEvent

LEMMA MappedEvent ==
  ASSUME NEW e \in KeyEvent
  PROVE  /\ Ev(MapInput(e.key), e.type) \in KeyEvent
         /\ Ev(MapInput(e.key), e.type).key = MapInput(e.key)
         /\ Ev(MapInput(e.key), e.type).type = e.type
<1>1. PICK h \in KeyEvent : h = Ev(Handed(e.key), e.type) /\ h.key = Handed(e.key) /\ h.type = e.type
  BY HandedEvent
<1>2. MapInput(e.key) = Oriented(h.key) BY <1>1 DEF MapInput
<1> QED BY <1>1, <1>2, OrientedEvent

\* The dispatcher takes a key, in its loop or as it drains the queue.
LEMMA Taken ==
  ASSUME TypeOK, HandleInput \/ Drain
  PROVE  /\ queue # <<>> /\ Head(queue) \in KeyEvent /\ queue' = Tail(queue)
         /\ disp' \in DispState /\ disp'.current = disp.current
         /\ disp'.ongoing = Ongoing(disp.ongoing, Head(queue))
         /\ disp'.bound \in {disp.bound, disp.current}
<1> USE DEF TypeOK, DispOK
<1>1. queue # <<>> /\ queue' = Tail(queue) BY DEF HandleInput, Drain
<1>2. PICK e \in KeyEvent : e = Head(queue) BY <1>1, TailAt
<1>3. disp.ongoing \in SUBSET Key BY DEF DispState
<1>4. Ongoing(disp.ongoing, e) \in SUBSET Key BY <1>2, <1>3, OngoingType DEF KeyEvent
<1>5. PICK b \in {disp.bound, disp.current} :
        disp' = [disp EXCEPT !.ongoing = Ongoing(disp.ongoing, e), !.bound = b]
  <2>1. CASE Drain
    <3>1. disp' = [disp EXCEPT !.ongoing = Ongoing(disp.ongoing, e), !.bound = disp.bound]
      BY <1>2, <2>1 DEF Drain, DispState
    <3> QED BY <3>1
  <2>2. CASE HandleInput
    <3>1. disp' = Handled(e) BY <1>2, <2>2 DEF HandleInput
    <3>2. CASE IsFirstPress(disp.ongoing, e) BY <3>1, <3>2 DEF Handled
    <3>3. CASE ~IsFirstPress(disp.ongoing, e) BY <3>1, <3>3 DEF Handled
    <3> QED BY <3>2, <3>3
  <2> QED BY <2>1, <2>2
<1>6. disp' \in DispState BY <1>4, <1>5 DEF DispState
<1> QED BY <1>1, <1>2, <1>4, <1>5, <1>6 DEF DispState

LEMMA DispState1 ==
  ASSUME TypeOK, [Next]_vars
  PROVE  disp' \in DispState
<1> USE DEF TypeOK, DispOK
<1>1. CASE HandleInput \/ Drain BY <1>1, Taken
<1>2. CASE Enter
  <2>1. app.next \in AnyView /\ disp.ongoing \in SUBSET Key BY DEF AppState, DispState
  <2>2. PICK o \in SUBSET Key : disp' = [disp EXCEPT !.current = app.next, !.ongoing = o]
    <3>1. CASE Rotates(app.next) BY <1>2, <3>1 DEF Enter
    <3>2. CASE ~Rotates(app.next) BY <1>2, <2>1, <3>2 DEF Enter
    <3> QED BY <3>1, <3>2
  <2> QED BY <2>1, <2>2 DEF DispState
<1>3. CASE Free BY <1>3 DEF Free, DispState, AnyView
<1>4. CASE \E v \in View : RemoveView(v)
  BY <1>4 DEF RemoveView, Unbound, DispState, AnyView
<1>5. CASE Navigate \/ ShowLoading \/ DeliverApp \/ \E v \in View \cup {None} : SwitchToView(v)
  BY <1>5 DEF Navigate, ShowLoading, DeliverApp, SwitchToView
<1> QED BY <1>1, <1>2, <1>3, <1>4, <1>5, DispFrame

\* view_dispatcher_set_current_view keeps the queue or resets it.
LEMMA QueueFrame ==
  ASSUME [Next]_vars
  PROVE  DeliverApp \/ HandleInput \/ Drain \/ Free \/ queue' \in {queue, <<>>}
<1>1. ASSUME NEW v, Leave(v) PROVE queue' \in {queue, <<>>} BY <1>1 DEF Leave
<1>2. CASE ShowLoading \/ Navigate \/ \E v \in View \cup {None} : SwitchToView(v)
  BY <1>1, <1>2 DEF ShowLoading, Navigate, SwitchToView
<1>3. CASE Enter \/ \E v \in View : RemoveView(v) BY <1>3 DEF Enter, RemoveView
<1> QED BY <1>2, <1>3, DispFrame

LEMMA DispTyped ==
  ASSUME TypeOK, DeliversToBound, [Next]_vars
  PROVE  DispOK'
<1> USE DEF TypeOK, DispOK
<1>1. disp' \in DispState BY DispState1
<1>2. queue' \in Seq(KeyEvent)
  <2>1. CASE DeliverApp
    <3>1. gui.ev \in KeyEvent BY <2>1 DEF DeliverApp, DeliversToBound
    <3>2. queue' = Append(queue, Ev(Oriented(gui.ev.key), gui.ev.type)) BY <2>1 DEF DeliverApp
    <3> QED BY <3>1, <3>2, OrientedEvent, AppendAt
  <2>2. CASE HandleInput \/ Drain
    <3>1. queue # <<>> /\ queue' = Tail(queue) BY <2>2 DEF HandleInput, Drain
    <3> QED BY <3>1, TailAt
  <2>3. CASE Free BY <2>3 DEF Free
  <2>4. <<>> \in Seq(KeyEvent) OBVIOUS
  <2> QED BY <2>1, <2>2, <2>3, <2>4, QueueFrame
<1>3. views' \subseteq View
  BY AppFrame DEF Enter, Show, HandleInput, Navigate, RunReturns, Free, ShowLoading, Stop,
                  RemoveView, AddView, SwitchToView
<1>4. seen' \in [View -> SUBSET Key]
  <2>1. CASE HandleInput
    <3>1. Head(queue) \in KeyEvent BY <2>1, Taken
    <3>2. seen' = seen \/ \E v \in View : seen' = [seen EXCEPT ![v] = Ongoing(@, Head(queue))]
      BY <2>1 DEF HandleInput
    <3>3. ASSUME NEW v \in View PROVE Ongoing(seen[v], Head(queue)) \in SUBSET Key
      BY <3>1, OngoingType DEF KeyEvent
    <3> QED BY <3>2, <3>3
  <2>2. CASE \E v \in View : RemoveView(v) BY <2>2 DEF RemoveView
  <2>3. CASE DeliverApp \/ Enter \/ Navigate \/ Drain \/ Free \/ ShowLoading
               \/ \E v \in View \cup {None} : SwitchToView(v)
    BY <2>3 DEF DeliverApp, Enter, Navigate, Drain, Free, ShowLoading, SwitchToView
  <2> QED BY <2>1, <2>2, <2>3, DispFrame
<1>5. app' \in AppState
  <2>1. ASSUME NEW v \in AnyView, Leave(v) PROVE app' \in AppState
    BY <2>1 DEF Leave, AppState
  <2>2. CASE ShowLoading BY <2>1, <2>2 DEF ShowLoading, AnyView
  <2>3. CASE \E v \in View \cup {None} : SwitchToView(v)
    BY <2>1, <2>3 DEF SwitchToView, AnyView
  <2>4. CASE Navigate
    <3>1. CASE \E v \in views \cup {None} : Leave(v) BY <2>1, <3>1 DEF AnyView
    <3>2. CASE \E pc \in {"drain", "loop"} : app' = [app EXCEPT !.pc = pc]
      BY <3>2 DEF AppState
    <3> QED BY <2>4, <3>1, <3>2 DEF Navigate
  <2>5. CASE Enter BY <2>5 DEF Enter, AppState, AnyView
  <2>6. CASE Show BY <2>6 DEF Show, AppState
  <2>7. CASE HandleInput BY <2>7 DEF HandleInput, AppState
  <2>8. CASE RunReturns \/ Free \/ Stop BY <2>8 DEF RunReturns, Free, Stop, AppState
  <2>9. CASE \E v \in View : RemoveView(v)
    <3>1. PICK pc \in {"drain", app.pc} : app' = [app EXCEPT !.pc = pc]
      BY <2>9 DEF RemoveView, AppState
    <3> QED BY <3>1 DEF AppState
  <2>10. CASE \E v \in View : AddView(v) BY <2>10 DEF AddView
  <2> QED BY <2>2, <2>3, <2>4, <2>5, <2>6, <2>7, <2>8, <2>9, <2>10, AppFrame
<1> QED BY <1>1, <1>2, <1>3, <1>4, <1>5

-----------------------------------------------------------------------------
(* The GUI's thread                                                          *)

\* Only gui_input counts keys; a port is bound there and forgotten when it is
\* removed.
LEMMA OngoingFrame ==
  ASSUME TypeOK, [Next]_vars
  PROVE  \/ GuiInput
         \/ /\ gui'.ongoing = gui.ongoing
            /\ \/ gui'.port = gui.port
               \/ /\ gui'.port = None
                  /\ \/ gui.port = App /\ Free
                     \/ gui.port \in Plain \ {Home} /\ RemoveViewPort(gui.port)
<1> USE DEF TypeOK, GuiOK
<1>1. CASE Wake BY <1>1 DEF Wake, GuiThreadState
<1>2. CASE InputDone \/ DeliverPlain \/ DeliverApp
  BY <1>2 DEF InputDone, DeliverPlain, DeliverApp, Idle, GuiThreadState
<1>3. CASE Redraw \/ Commit BY <1>3 DEF Redraw, Commit, GuiThreadState
<1>4. CASE Free BY <1>4 DEF Free, Forgotten, GuiThreadState
<1>5. CASE \E p \in Plain \ {Home} : RemoveViewPort(p)
  <2>1. PICK p \in Plain \ {Home} : RemoveViewPort(p) BY <1>5
  <2>2. gui' = [gui EXCEPT !.port = IF gui.port = p THEN None ELSE gui.port]
    BY <2>1 DEF RemoveViewPort, Forgotten
  <2>3. gui'.ongoing = gui.ongoing BY <2>2 DEF GuiThreadState
  <2>4. CASE gui.port = p
    <3>1. gui'.port = None BY <2>2, <2>4 DEF GuiThreadState
    <3>2. RemoveViewPort(gui.port) BY <2>1, <2>4
    <3> QED BY <2>3, <2>4, <3>1, <3>2
  <2>5. CASE gui.port # p BY <2>2, <2>3, <2>5 DEF GuiThreadState
  <2> QED BY <2>4, <2>5
<1>6. CASE gui' = gui BY <1>6
<1> QED BY <1>1, <1>2, <1>3, <1>4, <1>5, <1>6, GuiFrame DEF GuiThread

LEMMA KeysInOrderStep ==
  ASSUME TypeOK, KeysInOrder, [Next]_vars
  PROVE  KeysInOrder'
<1>0. inputQueue \in Seq(KeyEvent) BY DEF TypeOK, GuiOK
<1>1. CASE KeyArrives
  <2>1. PICK e \in KeyEvent :
           /\ inputQueue' = Append(inputQueue, e)
           /\ \/ e.type = "Release" /\ down' = down \ {e.key}
              \/ e.type = "Press" /\ e.key \notin down /\ down' = down \cup {e.key}
              \/ e.type \notin {"Press", "Release"} /\ down' = down
    BY <1>1, Published
  <2>2. gui'.ongoing = gui.ongoing BY <1>1 DEF KeyArrives
  <2>3. ASSUME NEW k \in Key
        PROVE  /\ Alternates(gui.ongoing, inputQueue', k)
               /\ k \notin down' => Ends(gui.ongoing, inputQueue', k)
    <3>1. /\ Alternates(gui.ongoing, inputQueue, k)
          /\ k \notin down => Ends(gui.ongoing, inputQueue, k)
      BY DEF KeysInOrder
    <3>2. Alternates(gui.ongoing, Append(inputQueue, e), k)
      BY <1>0, <2>1, <3>1, AppendAlternates
    <3>3. ASSUME k \notin down' PROVE Ends(gui.ongoing, Append(inputQueue, e), k)
      BY <1>0, <2>1, <3>1, <3>3, AppendEnds
    <3> QED BY <2>1, <3>2, <3>3
  <2> QED BY <2>2, <2>3 DEF KeysInOrder
<1>2. CASE GuiInput
  <2>1. PICK e \in KeyEvent :
          /\ inputQueue # <<>> /\ e = Head(inputQueue) /\ inputQueue' = Tail(inputQueue)
          /\ down' = down /\ gui'.ongoing = Ongoing(gui.ongoing, e)
    BY <1>2, Routed DEF TypeOK, GuiOK, GuiThreadState
  <2>2. ASSUME NEW k \in Key
        PROVE  /\ Alternates(Ongoing(gui.ongoing, e), Tail(inputQueue), k)
               /\ k \notin down => Ends(Ongoing(gui.ongoing, e), Tail(inputQueue), k)
    BY <1>0, <2>1, TakeAlternates, TakeEnds DEF KeysInOrder
  <2> QED BY <2>1, <2>2 DEF KeysInOrder
<1>3. CASE inputQueue' = inputQueue /\ down' = down /\ gui'.ongoing = gui.ongoing
  BY <1>3 DEF KeysInOrder
<1> QED BY <1>1, <1>2, <1>3, KeysFrame, OngoingFrame

LEMMA DeliversStep ==
  ASSUME TypeOK, DeliversToBound, [Next]_vars
  PROVE  DeliversToBound'
<1> USE DEF TypeOK, GuiOK
<1>1. CASE GuiInput
  <2>1. PICK e \in KeyEvent, bound \in Port \cup {None}, to \in Port \cup {None} :
           /\ gui' = [gui EXCEPT !.ongoing = Ongoing(gui.ongoing, e), !.port = bound, !.to = to,
                        !.ev = IF to = None THEN NoEvent ELSE Ev(Handed(e.key), e.type),
                        !.pc = IF to = None THEN "input" ELSE "deliver"]
           /\ to # None => to = bound
    BY <1>1, Routed
  <2>2. e.type = "Press" => e.key \in Ongoing(gui.ongoing, e) BY DEF Ongoing
  <2>5. PICK h \in KeyEvent : h = Ev(Handed(e.key), e.type) /\ h.key = Handed(e.key) /\ h.type = e.type
    BY HandedEvent
  <2>6. \A k : Handed(k)' = Handed(k) BY <1>1 DEF GuiInput, Handed
  <2>3. CASE to = None
    <3>1. gui'.pc = "input" /\ gui'.ev = NoEvent BY <2>1, <2>3 DEF GuiThreadState
    <3> QED BY <3>1 DEF DeliversToBound, NoEvent, Ev, None
  <2>4. CASE to # None
    <3>1. /\ gui'.pc = "deliver" /\ gui'.ev = h /\ gui'.to = to /\ gui'.port = bound
          /\ gui'.ongoing = Ongoing(gui.ongoing, e)
      BY <2>1, <2>4, <2>5 DEF GuiThreadState
    <3>2. h.type = "Press" => e.key \in gui'.ongoing /\ Handed(e.key)' = h.key
      BY <2>2, <2>5, <2>6, <3>1
    <3> QED BY <2>1, <2>4, <3>1, <3>2 DEF DeliversToBound
  <2> QED BY <2>3, <2>4
<1>2. CASE Wake \/ InputDone \/ Redraw \/ Commit
  <2>1. gui'.pc # "deliver" /\ gui'.ev = gui.ev /\ gui.pc # "deliver"
    BY <1>2 DEF Wake, InputDone, Redraw, Commit, GuiThreadState
  <2> QED BY <2>1 DEF DeliversToBound, NoEvent, Ev, None
<1>3. CASE DeliverPlain \/ DeliverApp
  <2>1. gui'.pc = "input" /\ gui'.ev = NoEvent
    BY <1>3 DEF DeliverPlain, DeliverApp, Idle, GuiThreadState
  <2> QED BY <2>1 DEF DeliversToBound, NoEvent, Ev, None
<1>4. CASE Free \/ \E p \in Plain \ {Home} : RemoveViewPort(p)
  <2>1. gui'.pc = gui.pc /\ gui'.ev = gui.ev /\ gui.pc # "deliver"
    BY <1>4 DEF Free, RemoveViewPort, LockedCall, Locked, Forgotten, GuiThreadState
  <2> QED BY <2>1 DEF DeliversToBound, NoEvent, Ev, None
<1>5. CASE gui' = gui
  <2>1. CASE gui.pc # "deliver" BY <1>5, <2>1 DEF DeliversToBound, NoEvent, Ev, None
  <2>2. CASE gui.pc = "deliver" /\ HandOrientChanged
    <3>1. gui.to \in remapped' BY <2>2, DispatcherAssumption DEF DeliversToBound, HandOrientChanged, LetIn, Plain,
                                                  GuiThreadState
    <3> QED BY <1>5, <2>2, <3>1 DEF DeliversToBound
  <2>3. CASE gui.pc = "deliver" /\ ~HandOrientChanged
    <3>1. \A k : Handed(k)' = Handed(k) BY <2>3, ModeFrame DEF Handed
    <3> QED BY <1>5, <2>3, <3>1, RemappedGrows DEF DeliversToBound
  <2> QED BY <2>1, <2>2, <2>3
<1> QED BY <1>1, <1>2, <1>3, <1>4, <1>5, GuiFrame DEF GuiThread

-----------------------------------------------------------------------------
(* What is bound exists                                                      *)

LEMMA BoundExistsStep ==
  ASSUME TypeOK, BoundExists, [Next]_vars
  PROVE  BoundExists'
<1> USE DEF TypeOK
<1>2. \A q : InLayer(q) <=> Among(layers, q) BY DEF InLayer, Among, Has
<1>3. ASSUME gui'.port # None PROVE InLayer(gui.port)'
  <2>1. PICK q : q = gui'.port OBVIOUS
  <2>2. Among(layers', q)
    <3>1. CASE gui'.port = gui.port
      <4>1. Among(layers, q) BY <1>2, <1>3, <2>1, <3>1 DEF BoundExists
      <4>2. ~(q = App /\ Free)
        <5>1. SUFFICES ASSUME q = App, Free PROVE FALSE OBVIOUS
        <5>2. gui'.port # App
          BY <5>1, Ports DEF Free, Forgotten, GuiOK, GuiThreadState
        <5> QED BY <2>1, <5>1, <5>2
      <4>3. ~(q \in Plain \ {Home} /\ RemoveViewPort(q))
        <5>1. SUFFICES ASSUME q \in Plain \ {Home}, RemoveViewPort(q) PROVE FALSE OBVIOUS
        <5>2. gui'.port # q
          BY <5>1, Ports DEF RemoveViewPort, Forgotten, GuiOK, GuiThreadState
        <5> QED BY <2>1, <5>2
      <4> QED BY <4>1, <4>2, <4>3, LayersFrame
    <3>2. CASE GuiInput /\ gui'.port # gui.port
      <4>1. gui'.port = TopPort
        <5>1. PICK e \in KeyEvent, bound \in Port \cup {None}, to \in Port \cup {None} :
               /\ gui' = [gui EXCEPT !.ongoing = Ongoing(gui.ongoing, e), !.port = bound, !.to = to,
                        !.ev = IF to = None THEN NoEvent ELSE Ev(Handed(e.key), e.type),
                        !.pc = IF to = None THEN "input" ELSE "deliver"]
               /\ bound # gui.port => IsFirstPress(gui.ongoing, e) /\ bound = TopPort
          BY <3>2, Routed
        <5>2. gui'.port = bound BY <5>1 DEF GuiOK, GuiThreadState
        <5> QED BY <3>2, <5>1, <5>2
      <4>2. layers' = layers BY <3>2 DEF GuiInput
      <4>3. InLayer(q) BY <1>3, <2>1, <4>1, TopPortIn
      <4> QED BY <1>2, <4>2, <4>3
    <3> QED BY <1>3, <3>1, <3>2, OngoingFrame
  <2> QED BY <2>1, <2>2 DEF InLayer, Among, Has
<1>4. Bindable \subseteq Bindable' \/ Free \/ \E v \in View : RemoveView(v)
  <2>1. CASE UNCHANGED <<app, views, loading>> BY <2>1, Zenon DEF Bindable
  <2>2. CASE Enter \/ Show \/ HandleInput \/ Navigate \/ RunReturns \/ Stop
               \/ \E v \in View \cup {None} : SwitchToView(v)
    <3>1. UNCHANGED <<views, loading>>
      BY <2>2, Zenon DEF Enter, Show, HandleInput, Navigate, RunReturns, Stop, SwitchToView
    <3> QED BY <3>1, Zenon DEF Bindable
  <2>3. CASE ShowLoading BY <2>3 DEF ShowLoading, Bindable
  <2>4. CASE \E v \in View : AddView(v)
    <3>1. views \subseteq views' BY <2>4 DEF AddView
    <3>2. loading' = loading BY <2>4, Zenon DEF AddView
    <3> QED BY <3>1, <3>2 DEF Bindable
  <2> QED BY <2>1, <2>2, <2>3, <2>4, AppFrame
<1>5. {disp.current, disp.bound} \subseteq Bindable /\ (app.pc = "enter" => app.next \in Bindable)
  BY DEF BoundExists
<1>6. CASE Free
  <2>1. disp'.current = None /\ disp'.bound = None /\ app'.pc = "gone"
    BY <1>6 DEF Free, DispOK, AppState
  <2> QED BY <1>3, <2>1 DEF BoundExists, Bindable
<1>7. CASE \E v \in View : RemoveView(v)
  <2>1. PICK v \in View : RemoveView(v) BY <1>7
  <2>2. /\ disp'.current = IF disp.current = v THEN None ELSE disp.current
        /\ disp'.bound = IF disp.bound = v THEN None ELSE disp.bound
    BY <2>1 DEF RemoveView, Unbound, DispOK, DispState
  <2>3. views' = views \ {v} BY <2>1 DEF RemoveView
  <2>4. loading' = loading BY <2>1, Zenon DEF RemoveView
  <2>5. app'.pc # "enter" BY <2>1 DEF RemoveView, DispOK, AppState
  <2>6. {disp'.current, disp'.bound} \subseteq Bindable'
    BY <1>5, <2>2, <2>3, <2>4 DEF Bindable
  <2> QED BY <1>3, <2>5, <2>6 DEF BoundExists
<1>8. CASE Bindable \subseteq Bindable'
  <2>1. disp'.current \in Bindable' /\ disp'.bound \in Bindable'
    <3>1. CASE Enter
      <4>1. disp'.current = app.next /\ disp'.bound = disp.bound /\ app.pc = "enter"
        BY <3>1 DEF Enter, DispOK, DispState
      <4> QED BY <1>5, <1>8, <4>1
    <3>2. CASE HandleInput \/ Drain BY <1>5, <1>8, <3>2, Taken
    <3>3. CASE Navigate \/ ShowLoading \/ DeliverApp \/ \E v \in View \cup {None} : SwitchToView(v)
      BY <1>5, <1>8, <3>3 DEF Navigate, ShowLoading, DeliverApp, SwitchToView
    <3> QED BY <1>5, <1>6, <1>7, <1>8, <3>1, <3>2, <3>3, DispFrame DEF BoundExists
  <2>2. app'.pc = "enter" => app'.next \in Bindable'
    <3>1. ASSUME NEW v, Leave(v) PROVE app'.next = v BY <3>1 DEF Leave, DispOK, AppState
    <3>2. CASE ShowLoading
      <4>1. app'.next = Loading BY <3>1, <3>2 DEF ShowLoading
      <4>2. loading' BY <3>2 DEF ShowLoading
      <4> QED BY <4>1, <4>2 DEF Bindable
    <3>3. CASE \E v \in View \cup {None} : SwitchToView(v)
      <4>1. PICK v : SwitchToView(v) BY <3>3
      <4>2. app'.next = v /\ v \in views \cup {None} BY <3>1, <4>1 DEF SwitchToView
      <4>3. v \in Bindable BY <4>2 DEF Bindable
      <4> QED BY <1>8, <4>2, <4>3
    <3>4. CASE Navigate
      <4>1. CASE \E v \in views \cup {None} : Leave(v)
        <5>1. app'.next \in Bindable BY <3>1, <4>1 DEF Bindable
        <5> QED BY <1>8, <5>1
      <4>2. CASE \E pc \in {"drain", "loop"} : app' = [app EXCEPT !.pc = pc]
        BY <4>2 DEF DispOK, AppState
      <4> QED BY <3>4, <4>1, <4>2 DEF Navigate
    <3>5. CASE Enter BY <3>5 DEF Enter, DispOK, AppState
    <3>6. CASE Show BY <3>6 DEF Show, DispOK, AppState
    <3>7. CASE HandleInput BY <3>7 DEF HandleInput, DispOK, AppState
    <3>8. CASE RunReturns \/ Stop BY <3>8 DEF RunReturns, Stop, DispOK, AppState
    <3>9. CASE \E v \in View : AddView(v) BY <1>5, <1>8, <3>9 DEF AddView
    <3>10. CASE app' = app BY <1>5, <1>8, <3>10
    <3> QED BY <1>6, <1>7, <3>2, <3>3, <3>4, <3>5, <3>6, <3>7, <3>8, <3>9, <3>10, AppFrame
            DEF BoundExists
  <2> QED BY <1>3, <2>1, <2>2 DEF BoundExists
<1> QED BY <1>4, <1>6, <1>7, <1>8

-----------------------------------------------------------------------------
(* Keys on their way to the dispatcher                                       *)

\* view_port_map_input maps as before.
SameMap == flipped' = flipped /\ mode'.hand = mode.hand

LEMMA MapKept ==
  ASSUME SameMap, NEW k
  PROVE  Handed(k)' = Handed(k) /\ Oriented(k)' = Oriented(k) /\ MapInput(k)' = MapInput(k)
<1>1. Handed(k)' = Handed(k) BY Zenon DEF Handed, SameMap
<1>2. \A q : (IF flipped' THEN FlippedKey[q] ELSE q) = (IF flipped THEN FlippedKey[q] ELSE q)
  BY Zenon DEF SameMap
<1>3. Oriented(k)' = Oriented(k) BY <1>2, Zenon DEF Oriented
<1>4. MapInput(k) = (IF flipped THEN FlippedKey[Handed(k)] ELSE Handed(k)) BY Zenon DEF MapInput, Oriented
<1>5. MapInput(k)' = (IF flipped' THEN FlippedKey[Handed(k)'] ELSE Handed(k)') BY Zenon DEF MapInput, Oriented
<1>6. MapInput(k)' = MapInput(k) BY <1>1, <1>2, <1>4, <1>5
<1> QED BY <1>1, <1>3, <1>6

\* The event the GUI's thread is about to put into the dispatcher's queue.
LEMMA FlightIs ==
  ASSUME TypeOK, DeliversToBound
  PROVE  /\ Flight \in Seq(KeyEvent)
         /\ gui.pc = "deliver" /\ gui.to = App =>
              /\ Ev(Oriented(gui.ev.key), gui.ev.type) \in KeyEvent
              /\ Ev(Oriented(gui.ev.key), gui.ev.type).key = Oriented(gui.ev.key)
              /\ Ev(Oriented(gui.ev.key), gui.ev.type).type = gui.ev.type
<1>1. queue \in Seq(KeyEvent) BY DEF TypeOK, DispOK
<1>2. CASE gui.pc = "deliver" /\ gui.to = App
  <2>1. gui.ev \in KeyEvent BY <1>2 DEF DeliversToBound
  <2> QED BY <1>1, <1>2, <2>1, OrientedEvent, AppendAt DEF Flight
<1>3. CASE ~(gui.pc = "deliver" /\ gui.to = App) BY <1>1, <1>3 DEF Flight
<1> QED BY <1>2, <1>3

\* gui_input routes an event.
LEMMA RoutedInOrder ==
  ASSUME TypeOK, KeysInOrder, DeliversToBound, GuiInput, queue' = queue, disp' = disp,
         flipped' = flipped, NEW k \in Key, InOrder(k)
  PROVE  InOrder(k)'
<1>0. SameMap
  <2>1. mode'.hand = mode.hand BY DEF GuiInput
  <2> QED BY <2>1, Zenon DEF SameMap
<1>1. PICK e \in KeyEvent, bound \in Port \cup {None}, to \in Port \cup {None} :
         /\ inputQueue # <<>> /\ e = Head(inputQueue) /\ gui.pc = "input"
         /\ gui' = [gui EXCEPT !.ongoing = Ongoing(gui.ongoing, e), !.port = bound, !.to = to,
                      !.ev = IF to = None THEN NoEvent ELSE Ev(Handed(e.key), e.type),
                      !.pc = IF to = None THEN "input" ELSE "deliver"]
         /\ bound # gui.port => IsFirstPress(gui.ongoing, e) /\ bound = TopPort
         /\ to # None => to = bound
         /\ e.type = "Release" /\ gui.port # None => to = gui.port
  BY Routed
<1>2. /\ inputQueue \in Seq(KeyEvent) /\ queue \in Seq(KeyEvent) /\ e.key \in Key
      /\ gui.ongoing \subseteq Key
  BY DEF TypeOK, GuiOK, DispOK, KeyEvent, GuiThreadState
<1>3. e.type = "Press" => e.key \notin gui.ongoing BY <1>1, <1>2, HeadIsNew DEF KeysInOrder
<1>4. /\ gui'.port = bound /\ gui'.ongoing = Ongoing(gui.ongoing, e) /\ gui'.to = to
      /\ gui'.pc = (IF to = None THEN "input" ELSE "deliver")
      /\ to # None => gui'.ev = Ev(Handed(e.key), e.type)
  BY <1>1 DEF TypeOK, GuiOK, GuiThreadState
<1>5. /\ Alternates(disp.ongoing, queue, k)
      /\ Ends(disp.ongoing, queue, k) \/ Late(k)
  BY <1>1 DEF InOrder, Flight
<1>6. ASSUME Late(k)
      PROVE  Late(k)' \/ (e.type = "Release" /\ MapInput(e.key) = k /\ to = App)
  <2>1. PICK q \in gui.ongoing : gui.port = App /\ MapInput(q) = k BY <1>6 DEF Late
  <2>2. bound = App
    <3>1. SUFFICES ASSUME bound # gui.port PROVE FALSE BY <2>1
    <3>2. e.type = "Press" /\ Ongoing(gui.ongoing, e) = {e.key} BY <1>1, <3>1 DEF IsFirstPress
    <3>3. q = e.key BY <3>2 DEF Ongoing
    <3> QED BY <1>3, <3>2, <3>3
  <2>3. CASE e.type = "Release" /\ q = e.key BY <1>1, <2>1, <2>3, Ports
  <2>4. CASE ~(e.type = "Release" /\ q = e.key)
    <3>1. q \in Ongoing(gui.ongoing, e) BY <2>4 DEF Ongoing
    <3>2. MapInput(q)' = k BY <1>0, <2>1, MapKept
    <3> QED BY <1>4, <2>2, <3>1, <3>2 DEF Late
  <2> QED BY <2>3, <2>4
<1>7. CASE to # App
  <2>1. Flight' = queue BY <1>4, <1>7 DEF Flight
  <2>2. Ends(disp.ongoing, queue, k) \/ Late(k)' BY <1>5, <1>6, <1>7
  <2> QED BY <1>5, <2>1, <2>2 DEF InOrder
<1>8. CASE to = App
  <2>1. PICK m \in KeyEvent : /\ m = Ev(MapInput(e.key), e.type)
                              /\ m.key = MapInput(e.key) /\ m.type = e.type
    BY MappedEvent
  <2>2. Flight' = Append(queue, m)
    <3>1. /\ gui'.pc = "deliver" /\ gui'.to = App
          /\ gui'.ev.key = Handed(e.key) /\ gui'.ev.type = e.type
      BY <1>4, <1>8, Ports, HandedEvent
    <3>2. Flight' = Append(queue', Ev(Oriented(gui.ev.key)', gui'.ev.type)) BY <3>1 DEF Flight, Ev
    <3>3. Oriented(gui.ev.key)' = MapInput(e.key)
      <4>1. Oriented(gui.ev.key)' = (IF flipped' THEN FlippedKey[gui'.ev.key] ELSE gui'.ev.key)
        BY Zenon DEF Oriented
      <4>2. MapInput(e.key) = (IF flipped THEN FlippedKey[Handed(e.key)] ELSE Handed(e.key))
        BY Zenon DEF MapInput, Oriented
      <4> QED BY <3>1, <4>1, <4>2, Zenon
    <3> QED BY <2>1, <3>1, <3>2, <3>3
  <2>3. m.key = k /\ m.type = "Press" => Ends(disp.ongoing, queue, k)
    <3>1. SUFFICES ASSUME m.key = k, m.type = "Press", Late(k) PROVE FALSE BY <1>5
    <3>2. PICK q \in gui.ongoing : MapInput(q) = k BY <3>1 DEF Late
    <3>3. q = e.key BY <1>2, <2>1, <3>1, <3>2, MappedApart
    <3> QED BY <1>3, <2>1, <3>1, <3>3
  <2>4. Alternates(disp.ongoing, Append(queue, m), k)
    BY <1>2, <1>5, <2>3, AppendAlternates
  <2>5. Ends(disp.ongoing, Append(queue, m), k) \/ Late(k)'
    <3>1. CASE m.key = k /\ m.type = "Press"
      <4>1. e.key \in gui'.ongoing BY <1>4, <2>1, <3>1 DEF Ongoing
      <4>2. gui'.port = App BY <1>1, <1>4, <1>8, Ports
      <4>3. MapInput(e.key)' = k BY <1>0, <2>1, <3>1, MapKept
      <4> QED BY <4>1, <4>2, <4>3 DEF Late
    <3>2. CASE m.key = k /\ m.type = "Release" BY <1>2, <3>2, AppendEnds
    <3>3. CASE ~(m.key = k /\ m.type \in {"Press", "Release"})
      <4>1. CASE Ends(disp.ongoing, queue, k) BY <1>2, <3>3, <4>1, AppendEnds
      <4>2. CASE Late(k) BY <1>6, <2>1, <3>3, <4>2
      <4> QED BY <1>5, <4>1, <4>2
    <3> QED BY <3>1, <3>2, <3>3
  <2> QED BY <2>2, <2>4, <2>5 DEF InOrder
<1> QED BY <1>7, <1>8

\* The dispatcher takes an event.
LEMMA TakenInOrder ==
  ASSUME TypeOK, DeliversToBound, HandleInput \/ Drain, gui' = gui, SameMap,
         NEW k \in Key, InOrder(k)
  PROVE  InOrder(k)'
<1>1. /\ queue # <<>> /\ queue' = Tail(queue)
      /\ disp'.ongoing = Ongoing(disp.ongoing, Head(queue))
  BY Taken
<1>2. queue \in Seq(KeyEvent) /\ Flight \in Seq(KeyEvent) BY FlightIs DEF TypeOK, DispOK
<1>3. Flight # <<>> /\ Head(Flight) = Head(queue) /\ Flight' = Tail(Flight)
  <2>1. CASE gui.pc = "deliver" /\ gui.to = App
    <3>1. PICK m \in KeyEvent : m = Ev(Oriented(gui.ev.key), gui.ev.type) BY <2>1, FlightIs
    <3>2. Flight = Append(queue, m) BY <2>1, <3>1 DEF Flight
    <3>3. Flight' = Append(queue', m)
      <4>1. Oriented(gui.ev.key)' = Oriented(gui.ev.key) BY Zenon DEF Oriented, SameMap
      <4>2. Flight' = Append(queue', Ev(Oriented(gui.ev.key)', gui'.ev.type))
        BY <2>1 DEF Flight, Ev
      <4> QED BY <3>1, <4>1, <4>2
    <3>4. Append(queue, m) # <<>> /\ Head(Append(queue, m)) = Head(queue)
          /\ Tail(Append(queue, m)) = Append(Tail(queue), m)
      BY <1>1, <1>2
    <3> QED BY <1>1, <3>2, <3>3, <3>4
  <2>2. CASE ~(gui.pc = "deliver" /\ gui.to = App) BY <1>1, <2>2 DEF Flight
  <2> QED BY <2>1, <2>2
<1>4. Alternates(disp.ongoing, Flight, k) /\ (Ends(disp.ongoing, Flight, k) \/ Late(k))
  BY DEF InOrder
<1>5. Alternates(Ongoing(disp.ongoing, Head(Flight)), Tail(Flight), k)
  BY <1>2, <1>3, <1>4, TakeAlternates
<1>6. Ends(disp.ongoing, Flight, k) => Ends(Ongoing(disp.ongoing, Head(Flight)), Tail(Flight), k)
  BY <1>2, <1>3, TakeEnds
<1>7. Late(k) => Late(k)'
  <2>1. \A q : MapInput(q)' = MapInput(q) BY MapKept
  <2> QED BY <2>1 DEF Late
<1> QED BY <1>1, <1>3, <1>4, <1>5, <1>6, <1>7 DEF InOrder

\* Nothing the dispatcher has not yet taken, but for the event on its way.
LEMMA ResetInOrder ==
  ASSUME TypeOK, DeliversToBound, queue' = <<>>, disp'.ongoing = {}, SameMap,
         App \notin remapped, gui' = gui \/ gui'.pc # "deliver", NEW k \in Key
  PROVE  InOrder(k)'
<1>1. CASE ~(gui'.pc = "deliver" /\ gui'.to = App)
  <2>1. Flight' = <<>> BY <1>1 DEF Flight
  <2> QED BY <2>1, NothingInOrder DEF InOrder
<1>2. CASE gui'.pc = "deliver" /\ gui'.to = App
  <2>1. PICK m \in KeyEvent : /\ m = Ev(Oriented(gui.ev.key), gui.ev.type)
                              /\ m.key = Oriented(gui.ev.key) /\ m.type = gui.ev.type
    BY <1>2, FlightIs
  <2>2. Flight' = Append(<<>>, m)
    <3>1. Oriented(gui.ev.key)' = Oriented(gui.ev.key) BY <1>2, Zenon DEF Oriented, SameMap
    <3>2. Flight' = Append(queue', Ev(Oriented(gui.ev.key)', gui'.ev.type))
      BY <1>2 DEF Flight, Ev
    <3> QED BY <1>2, <2>1, <3>1, <3>2
  <2>3. <<>> \in Seq(KeyEvent) /\ Alternates({}, <<>>, k) /\ Ends({}, <<>>, k)
    BY NothingInOrder
  <2>4. Alternates({}, Append(<<>>, m), k) BY <2>3, AppendAlternates
  <2>5. Ends({}, Append(<<>>, m), k) \/ Late(k)'
    <3>1. CASE m.key = k /\ m.type = "Press"
      <4>1. PICK q \in gui.ongoing : gui.port = App /\ Handed(q) = gui.ev.key
        BY <1>2, <2>1, <3>1 DEF DeliversToBound
      <4>2. MapInput(q) = k BY <2>1, <3>1, <4>1 DEF MapInput
      <4>3. MapInput(q)' = k BY <4>2, MapKept
      <4>4. gui'.port = App /\ q \in gui'.ongoing BY <1>2, <4>1
      <4> QED BY <4>3, <4>4 DEF Late
    <3>2. CASE ~(m.key = k /\ m.type = "Press") BY <2>3, <3>2, AppendEnds
    <3> QED BY <3>1, <3>2
  <2> QED BY <2>2, <2>4, <2>5 DEF InOrder
<1> QED BY <1>1, <1>2

\* Steps that change neither the queue nor the keys counted.
Elsewhere ==
    \/ gui' = gui \/ Wake \/ InputDone \/ Redraw \/ Commit \/ DeliverPlain
    \/ \E p \in Plain \ {Home} : RemoveViewPort(p)

LEMMA SameInOrder ==
  ASSUME TypeOK, Elsewhere, queue' = queue, disp'.ongoing = disp.ongoing,
         SameMap, NEW k \in Key, InOrder(k)
  PROVE  InOrder(k)'
<1> USE DEF TypeOK, GuiOK
<1>1. \A q : MapInput(q)' = MapInput(q) BY MapKept
<1>2. CASE gui' = gui
  <2>1. Flight' = Flight
    <3>1. Oriented(gui.ev.key)' = Oriented(gui.ev.key) BY <1>2, Zenon DEF Oriented, SameMap
    <3>2. CASE gui.pc = "deliver" /\ gui.to = App
      <4>1. Flight' = Append(queue', Ev(Oriented(gui.ev.key)', gui'.ev.type))
        BY <1>2, <3>2 DEF Flight, Ev
      <4>2. Flight = Append(queue, Ev(Oriented(gui.ev.key), gui.ev.type)) BY <3>2 DEF Flight
      <4> QED BY <1>2, <3>1, <4>1, <4>2
    <3>3. CASE ~(gui.pc = "deliver" /\ gui.to = App) BY <1>2, <3>3 DEF Flight
    <3> QED BY <3>2, <3>3
  <2>2. Late(k) => Late(k)' BY <1>1, <1>2 DEF Late
  <2> QED BY <2>1, <2>2 DEF InOrder
<1>3. CASE /\ ~(gui.pc = "deliver" /\ gui.to = App) /\ gui'.pc # "deliver"
           /\ gui'.ongoing = gui.ongoing /\ (gui.port = App => gui'.port = App)
  <2>1. Flight' = Flight BY <1>3 DEF Flight
  <2>2. Late(k) => Late(k)' BY <1>1, <1>3 DEF Late
  <2> QED BY <2>1, <2>2 DEF InOrder
<1>4. CASE Wake \/ InputDone \/ Redraw \/ Commit
  BY <1>3, <1>4 DEF Wake, InputDone, Redraw, Commit, GuiThreadState
<1>5. CASE DeliverPlain BY <1>3, <1>5, Ports DEF DeliverPlain, Idle, GuiThreadState
<1>6. CASE \E p \in Plain \ {Home} : RemoveViewPort(p)
  BY <1>3, <1>6, Ports DEF RemoveViewPort, LockedCall, Locked, Forgotten, GuiThreadState
<1> QED BY <1>2, <1>4, <1>5, <1>6 DEF Elsewhere

\* A step of view_dispatcher_set_current_view that ends the loading view.
LEMMA LeaveInOrder ==
  ASSUME TypeOK, DeliversToBound, gui' = gui, disp' = disp, SameMap, App \notin remapped,
         queue' = queue \/ \E v : Leave(v), NEW k \in Key, InOrder(k)
  PROVE  InOrder(k)'
<1>1. queue' = queue \/ (queue' = <<>> /\ disp.ongoing = {}) BY DEF Leave, Resets
<1>2. CASE queue' = queue BY <1>2, SameInOrder DEF Elsewhere
<1>3. CASE queue' = <<>> /\ disp.ongoing = {} BY <1>3, ResetInOrder
<1> QED BY <1>1, <1>2, <1>3

LEMMA FlightInOrderStep ==
  ASSUME TypeOK, KeysInOrder, DeliversToBound, FlightInOrder, [Next]_vars
  PROVE  FlightInOrder'
<1>1. SUFFICES ASSUME App \notin remapped', NEW k \in Key PROVE InOrder(k)'
  BY DEF FlightInOrder
<1>0. App \notin remapped BY <1>1, RemappedGrows
<1>2. CASE Enter
  <2>1. gui' = gui /\ queue' = queue BY <1>2 DEF Enter, guiVars
  <2>2. Rotates(app.next) => queue = <<>> BY <1>1, <1>2, RotatedFree
  <2>3. InOrder(k) BY <1>0 DEF FlightInOrder
  <2>4. CASE Rotates(app.next)
    <3>1. disp'.ongoing = {} BY <1>2, <2>4 DEF Enter, TypeOK, DispOK, DispState
    <3>2. ~(gui'.pc = "deliver" /\ gui'.to = App) BY <1>2, <2>1, <2>4 DEF Enter
    <3>3. Flight' = <<>> BY <2>1, <2>2, <2>4, <3>2 DEF Flight
    <3> QED BY <3>1, <3>3, NothingInOrder DEF InOrder
  <2>5. CASE ~Rotates(app.next)
    <3>1. disp'.ongoing = disp.ongoing BY <1>2, <2>5 DEF Enter, TypeOK, DispOK, DispState
    <3>2. flipped' = flipped BY <1>2, <2>5, Zenon DEF Enter
    <3>3. mode'.hand = mode.hand BY <1>2 DEF Enter, guiVars
    <3>4. SameMap BY <3>2, <3>3, Zenon DEF SameMap
    <3> QED BY <2>1, <2>3, <3>1, <3>4, SameInOrder DEF Elsewhere
  <2> QED BY <2>4, <2>5
<1>3. CASE ~Enter
  <2>0. flipped' = flipped BY <1>3, FlippedFrame, Zenon
  <2>11. mode'.hand = mode.hand BY <1>1, HandRemaps, ModeFrame DEF TypeOK
  <2>1. SameMap BY <2>0, <2>11, Zenon DEF SameMap
  <2>3. InOrder(k) BY <1>0 DEF FlightInOrder
  <2>4. CASE Elsewhere /\ queue' = queue /\ disp'.ongoing = disp.ongoing
    BY <2>1, <2>3, <2>4, SameInOrder
  <2>5. CASE UNCHANGED vars
    BY <2>4, <2>5 DEF vars, guiVars, dispVars, Elsewhere
  <2>6. CASE GuiStep
    <3>1. queue' = queue /\ disp' = disp BY <2>6 DEF GuiStep, dispVars
    <3>2. CASE GuiInput BY <2>0, <2>3, <3>1, <3>2, RoutedInOrder
    <3>3. CASE ~GuiInput BY <2>4, <2>6, <3>1, <3>3 DEF GuiStep, GuiThread, Elsewhere
    <3> QED BY <3>2, <3>3
  <2>7. CASE DeliverApp
    <3>1. gui'.pc = "input" /\ gui'.port = gui.port /\ gui'.ongoing = gui.ongoing
      BY <2>7 DEF DeliverApp, Idle, TypeOK, GuiOK, GuiThreadState
    <3>2. Flight' = queue' BY <3>1 DEF Flight
    <3>3. Flight = queue' BY <2>7 DEF Flight, DeliverApp
    <3>4. \A q : MapInput(q)' = MapInput(q) BY <2>1, MapKept
    <3>5. Late(k) => Late(k)' BY <3>1, <3>4 DEF Late
    <3>6. disp' = disp BY <2>7 DEF DeliverApp
    <3> QED BY <2>3, <3>2, <3>3, <3>5, <3>6 DEF InOrder
  <2>8. CASE AppCalls
    <3>1. CASE Attach \/ SendTo \/ Stop \/ \E v \in View : AddView(v)
      BY <2>4, <3>1 DEF Attach, SendTo, Stop, AddView, dispVars, Elsewhere
    <3>4. CASE HandOrientChanged BY <1>1, <3>4, HandRemaps
    <3>2. CASE ShowLoading
      <4>1. gui' = gui /\ disp' = disp /\ Leave(Loading) BY <3>2 DEF ShowLoading
      <4> QED BY <1>0, <2>1, <2>3, <4>1, LeaveInOrder
    <3>3. CASE \E v \in View \cup {None} : SwitchToView(v)
      <4>1. gui' = gui /\ disp' = disp /\ \E v : Leave(v) BY <3>3 DEF SwitchToView
      <4> QED BY <1>0, <2>1, <2>3, <4>1, LeaveInOrder
    <3> QED BY <2>8, <3>1, <3>2, <3>3, <3>4 DEF AppCalls
  <2>9. CASE AppThread
    <3>1. CASE Show \/ RunReturns
      BY <2>4, <3>1 DEF Show, RunReturns, guiVars, Elsewhere
    <3>2. CASE HandleInput \/ Drain
      <4>1. gui' = gui BY <3>2 DEF HandleInput, Drain, guiVars
      <4> QED BY <2>1, <2>3, <3>2, <4>1, TakenInOrder
    <3>3. CASE Navigate
      <4>1. gui' = gui /\ disp' = disp /\ (queue' = queue \/ \E v : Leave(v))
        BY <3>3 DEF Navigate, guiVars
      <4> QED BY <1>0, <2>1, <2>3, <4>1, LeaveInOrder
    <3>4. CASE \E v \in View : RemoveView(v)
      <4>1. gui' = gui /\ queue' = queue /\ disp'.ongoing = disp.ongoing
        BY <3>4 DEF RemoveView, Unbound, TypeOK, DispOK, DispState
      <4> QED BY <2>4, <4>1 DEF Elsewhere
    <3>5. CASE Free
      <4>1. gui'.pc # "deliver" /\ queue' = <<>> /\ disp'.ongoing = {}
        BY <3>5 DEF Free, Locked, Forgotten, TypeOK, GuiOK, GuiThreadState
      <4> QED BY <1>0, <2>1, <4>1, ResetInOrder
    <3> QED BY <1>3, <2>9, <3>1, <3>2, <3>3, <3>4, <3>5 DEF AppThread
  <2>10. CASE Environment
    <3>1. queue' = queue /\ disp' = disp BY <2>10 DEF Environment, dispVars
    <3>2. gui' = gui \/ \E p \in Plain \ {Home} : RemoveViewPort(p)
      BY <2>10 DEF Environment, GuiCalls, KeyArrives, AddViewPort, Reorder, EnabledSet,
                   SetLockdown, SetLockdownInhibit, DirectDrawAcquire, DirectDrawRelease
    <3> QED BY <2>4, <3>1, <3>2 DEF Elsewhere
  <2> QED BY <2>5, <2>6, <2>7, <2>8, <2>9, <2>10 DEF Next
<1> QED BY <1>2, <1>3

-----------------------------------------------------------------------------
(* Keys that a port or a view holds                                          *)

LEMMA HeldHereStep ==
  ASSUME TypeOK, KeysInOrder, DeliversToBound, HeldHere, [Next]_vars
  PROVE  HeldHere'
<1> USE DEF TypeOK, GuiOK
<1>0. \A p : p \notin remapped' => p \notin remapped BY RemappedGrows
<1>8. HandOrientChanged \/ \A k : Handed(k)' = Handed(k) BY ModeFrame DEF Handed
<1>1. CASE GuiInput
  <2>1. PICK e \in KeyEvent, bound \in Port \cup {None}, to \in Port \cup {None} :
         /\ inputQueue # <<>> /\ e = Head(inputQueue) /\ gui.pc = "input"
         /\ gui' = [gui EXCEPT !.ongoing = Ongoing(gui.ongoing, e), !.port = bound, !.to = to,
                      !.ev = IF to = None THEN NoEvent ELSE Ev(Handed(e.key), e.type),
                      !.pc = IF to = None THEN "input" ELSE "deliver"]
         /\ bound # gui.port => IsFirstPress(gui.ongoing, e) /\ bound = TopPort
         /\ to # None => to = bound
         /\ e.type = "Release" /\ gui.port # None => to = gui.port
    BY <1>1, Routed
  <2>2. /\ gui'.port = bound /\ gui'.ongoing = Ongoing(gui.ongoing, e)
        /\ to # None => gui'.ev = Ev(Handed(e.key), e.type)
    BY <2>1 DEF GuiThreadState
  <2>3. e.type = "Press" => e.key \notin gui.ongoing
    BY <2>1, HeadIsNew DEF KeysInOrder, KeyEvent
  <2>4. ASSUME NEW p \in Plain, p \notin remapped, NEW k \in held[p]
        PROVE  gui'.port = p /\ ((\E q \in gui'.ongoing : Handed(q) = k) \/ gui'.ev = Ev(k, "Release"))
    <3>1. PICK q \in gui.ongoing : gui.port = p /\ Handed(q) = k
      <4>1. gui.ev = NoEvent BY <2>1 DEF DeliversToBound
      <4>2. gui.ev # Ev(k, "Release") BY <4>1 DEF NoEvent, Ev, None
      <4> QED BY <2>4, <4>2 DEF HeldHere
    <3>2. bound = p
      <4>1. SUFFICES ASSUME bound # gui.port PROVE FALSE BY <3>1
      <4>2. e.type = "Press" /\ Ongoing(gui.ongoing, e) = {e.key} BY <2>1, <4>1 DEF IsFirstPress
      <4>3. q = e.key BY <3>1, <4>2 DEF Ongoing
      <4> QED BY <2>3, <3>1, <4>2, <4>3
    <3>3. CASE e.type = "Release" /\ e.key = q
      <4>1. to = p /\ p # None BY <2>1, <3>1, <3>3, Ports
      <4>2. Ev(Handed(e.key), e.type) = Ev(k, "Release") BY <3>1, <3>3
      <4> QED BY <2>2, <3>2, <4>1, <4>2
    <3>4. CASE ~(e.type = "Release" /\ e.key = q)
      <4>1. q \in Ongoing(gui.ongoing, e) BY <3>1, <3>4 DEF Ongoing
      <4> QED BY <2>2, <3>1, <3>2, <4>1
    <3> QED BY <3>3, <3>4
  <2>5. held' = held /\ \A k : Handed(k)' = Handed(k) BY <1>1 DEF GuiInput, Handed
  <2> QED BY <1>0, <2>4, <2>5 DEF HeldHere
<1>2. CASE DeliverPlain
  <2>1. gui.pc = "deliver" /\ gui.to \in Plain /\ gui.to \in Port /\ gui.to = gui.port
    BY <1>2, Ports DEF DeliverPlain, DeliversToBound
  <2>2. gui'.port = gui.port /\ gui'.ongoing = gui.ongoing
    BY <1>2 DEF DeliverPlain, Idle, GuiThreadState
  <2>3. held' = [held EXCEPT ![gui.to] = Ongoing(held[gui.to], gui.ev)]
    BY <1>2 DEF DeliverPlain
  <2>4. ASSUME NEW p \in Plain, p \notin remapped, NEW k \in held'[p]
        PROVE  gui.port = p /\ \E q \in gui.ongoing : Handed(q) = k
    <3>1. CASE p # gui.to
      <4>1. k \in held[p] BY <2>3, <2>4, <3>1, Ports
      <4> QED BY <2>1, <2>4, <3>1, <4>1 DEF HeldHere
    <3>2. CASE p = gui.to
      <4>1. k \in Ongoing(held[p], gui.ev) BY <2>1, <2>3, <2>4, <3>2
      <4>2. CASE k \in held[p]
        <5>1. (\E q \in gui.ongoing : Handed(q) = k) \/ gui.ev = Ev(k, "Release")
          BY <2>4, <4>2 DEF HeldHere
        <5>2. gui.ev # Ev(k, "Release") BY <4>1 DEF Ongoing, Ev
        <5> QED BY <2>1, <3>2, <5>1, <5>2
      <4>3. CASE k \notin held[p]
        <5>1. gui.ev.type = "Press" /\ gui.ev.key = k BY <4>1, <4>3 DEF Ongoing
        <5> QED BY <2>1, <2>4, <3>2, <5>1 DEF DeliversToBound
      <4> QED BY <4>2, <4>3
    <3> QED BY <3>1, <3>2
  <2>5. \A k : Handed(k)' = Handed(k) BY <1>2 DEF DeliverPlain, Handed
  <2> QED BY <1>0, <2>2, <2>4, <2>5 DEF HeldHere
<1>3. CASE DeliverApp
  <2>1. gui.port = App BY <1>3 DEF DeliverApp, DeliversToBound
  <2>2. held' = held BY <1>3 DEF DeliverApp
  <2> QED BY <1>0, <2>1, <2>2, Ports DEF HeldHere
<1>4. CASE Wake \/ InputDone \/ Redraw \/ Commit
  <2>1. held' = held /\ gui'.port = gui.port /\ gui'.ongoing = gui.ongoing /\ gui'.ev = gui.ev
    BY <1>4 DEF Wake, InputDone, Redraw, Commit, GuiThreadState
  <2>2. \A k : Handed(k)' = Handed(k) BY <1>4 DEF Wake, InputDone, Redraw, Commit, Handed
  <2> QED BY <1>0, <2>1, <2>2 DEF HeldHere
<1>5. CASE Free
  <2>1. /\ held' = held /\ gui'.ongoing = gui.ongoing /\ gui'.ev = gui.ev
        /\ gui.port # App => gui'.port = gui.port
    BY <1>5 DEF Free, Forgotten, GuiThreadState
  <2>2. \A k : Handed(k)' = Handed(k) BY <1>5 DEF Free, Handed
  <2> QED BY <1>0, <2>1, <2>2, Ports DEF HeldHere
<1>6. CASE \E p \in Plain \ {Home} : RemoveViewPort(p)
  <2>1. PICK p \in Plain \ {Home} : RemoveViewPort(p) BY <1>6
  <2>2. /\ held' = [held EXCEPT ![p] = {}] /\ gui'.ongoing = gui.ongoing /\ gui'.ev = gui.ev
        /\ gui.port # p => gui'.port = gui.port
    BY <2>1 DEF RemoveViewPort, Forgotten, GuiThreadState
  <2>3. \A k : Handed(k)' = Handed(k) BY <2>1 DEF RemoveViewPort, Handed
  <2> QED BY <1>0, <2>2, <2>3, Ports DEF HeldHere
<1>7. CASE gui' = gui /\ held' = held
  <2>1. CASE HandOrientChanged
    <3>1. \A p \in Plain \ remapped' : held[p] = {} BY <2>1 DEF HandOrientChanged, LetIn
    <3> QED BY <1>7, <3>1 DEF HeldHere
  <2>2. CASE \A k : Handed(k)' = Handed(k) BY <1>0, <1>7, <2>2 DEF HeldHere
  <2> QED BY <1>8, <2>1, <2>2
<1> QED BY <1>1, <1>2, <1>3, <1>4, <1>5, <1>6, <1>7, GuiFrame DEF GuiThread

\* The dispatcher takes the Press of a key it does not count as down.
LEMMA HeadNotDown ==
  ASSUME TypeOK, DeliversToBound, FlightInOrder, App \notin remapped, queue # <<>>,
         Head(queue).type = "Press"
  PROVE  Head(queue).key \notin disp.ongoing
<1>1. queue \in Seq(KeyEvent) /\ Flight \in Seq(KeyEvent) BY FlightIs DEF TypeOK, DispOK
<1>2. Flight # <<>> /\ Head(Flight) = Head(queue)
  <2>1. CASE gui.pc = "deliver" /\ gui.to = App
    <3>1. PICK m \in KeyEvent : m = Ev(Oriented(gui.ev.key), gui.ev.type) BY <2>1, FlightIs
    <3>2. Flight = Append(queue, m) BY <2>1, <3>1 DEF Flight
    <3> QED BY <1>1, <3>2
  <2>2. CASE ~(gui.pc = "deliver" /\ gui.to = App) BY <2>2 DEF Flight
  <2> QED BY <2>1, <2>2
<1>3. Head(queue).key \in Key
  <2>1. Head(queue) \in KeyEvent BY <1>1, TailAt
  <2> QED BY <2>1 DEF KeyEvent
<1>4. Alternates(disp.ongoing, Flight, Head(queue).key) BY <1>3 DEF FlightInOrder, InOrder
<1> QED BY <1>1, <1>2, <1>4, HeadIsNew

\* The application is at work until the end of its loop, and never again.
Working == {"setup", "loop", "enter", "show", "back"}

LEMMA WorkingBefore ==
  ASSUME TypeOK, [Next]_vars, app'.pc \in Working
  PROVE  app.pc \in Working
<1> USE DEF TypeOK, DispOK, AppState, Working
<1>1. CASE Enter \/ Show \/ HandleInput \/ Navigate \/ Stop
  BY <1>1 DEF Enter, Show, HandleInput, Navigate, Stop
<1>2. CASE RunReturns \/ Free BY <1>2 DEF RunReturns, Free
<1>3. CASE ShowLoading \/ \E v \in View : AddView(v)
  BY <1>3 DEF ShowLoading, AddView, AppCall
<1>4. CASE \E v \in View \cup {None} : SwitchToView(v) BY <1>4 DEF SwitchToView, AppCall
<1>5. CASE \E v \in View : RemoveView(v) BY <1>5 DEF RemoveView
<1> QED BY <1>1, <1>2, <1>3, <1>4, <1>5, AppFrame

LEMMA SeenHereStep ==
  ASSUME TypeOK, DeliversToBound, FlightInOrder, SeenHere, [Next]_vars
  PROVE  SeenHere'
<1> USE DEF TypeOK, DispOK
<1>1. SUFFICES ASSUME app'.pc \in Working, App \notin remapped', NEW v \in View, NEW k \in seen'[v]
               PROVE  disp'.bound = v /\ k \in disp'.ongoing
  BY DEF SeenHere, Working
<1>2. app.pc \in Working BY <1>1, WorkingBefore
<1>3. App \notin remapped BY <1>1, RemappedGrows
<1>4. \A w \in View : \A q \in seen[w] : disp.bound = w /\ q \in disp.ongoing
  BY <1>2, <1>3 DEF SeenHere, Working
<1>5. CASE HandleInput
  <2>1. PICK e \in KeyEvent : e = Head(queue) /\ queue # <<>> BY <1>5, Taken
  <2>2. e.type = "Press" => e.key \notin disp.ongoing BY <1>3, <2>1, HeadNotDown
  <2>3. PICK b : b = IF IsFirstPress(disp.ongoing, e) THEN disp.current ELSE disp.bound OBVIOUS
  <2>4. Handled(e) = [disp EXCEPT !.ongoing = Ongoing(disp.ongoing, e), !.bound = b]
    BY <2>3 DEF Handled
  <2>5. Handled(e).bound = b BY <2>4 DEF DispState
  <2>6. disp' = Handled(e) BY <1>5, <2>1 DEF HandleInput
  <2>7. disp'.bound = b /\ disp'.ongoing = Ongoing(disp.ongoing, e)
    BY <2>4, <2>6 DEF DispState
  <2>8. PICK to : /\ to = IF IsComplementary(disp.ongoing, e)
                          THEN Receiver(e, disp.current, b) ELSE None
                  /\ seen' = IF to \in View THEN [seen EXCEPT ![to] = Ongoing(@, e)] ELSE seen
    BY <1>5, <2>1, <2>5 DEF HandleInput
  <2>9. to \in View => to = b BY <2>8, DispatcherAssumption DEF Receiver
  <2>10. ASSUME k \in seen[v], ~(e.type = "Release" /\ e.key = k)
         PROVE  b = v /\ k \in Ongoing(disp.ongoing, e)
    <3>1. disp.bound = v /\ k \in disp.ongoing BY <1>4, <2>10
    <3>2. ~IsFirstPress(disp.ongoing, e)
      <4>1. SUFFICES ASSUME e.type = "Press", Ongoing(disp.ongoing, e) = {e.key} PROVE FALSE
        BY DEF IsFirstPress
      <4>2. k = e.key BY <3>1, <4>1 DEF Ongoing
      <4> QED BY <2>2, <3>1, <4>1, <4>2
    <3>3. k \in Ongoing(disp.ongoing, e) BY <2>10, <3>1 DEF Ongoing
    <3> QED BY <2>3, <3>1, <3>2, <3>3
  <2>11. CASE to = v
    <3>1. k \in Ongoing(seen[v], e) BY <1>1, <2>8, <2>11
    <3>2. CASE k \in seen[v]
      <4>1. ~(e.type = "Release" /\ e.key = k) BY <3>1 DEF Ongoing
      <4> QED BY <2>7, <2>10, <3>2, <4>1
    <3>3. CASE k \notin seen[v]
      <4>1. e.type = "Press" /\ e.key = k BY <3>1, <3>3 DEF Ongoing
      <4>2. k \in Ongoing(disp.ongoing, e) BY <4>1 DEF Ongoing
      <4> QED BY <2>7, <2>9, <2>11, <4>2
    <3> QED BY <3>2, <3>3
  <2>12. CASE to # v
    <3>1. k \in seen[v] BY <1>1, <2>8, <2>12
    <3>2. ~(e.type = "Release" /\ e.key = k)
      <4>1. SUFFICES ASSUME e.type = "Release" PROVE FALSE OBVIOUS
      <4>2. b = v BY <1>4, <2>3, <3>1, <4>1 DEF IsFirstPress
      <4>3. to = b BY <2>8, <4>1 DEF IsComplementary, Receiver
      <4> QED BY <2>12, <4>2, <4>3
    <3> QED BY <2>7, <2>10, <3>1, <3>2
  <2> QED BY <2>11, <2>12
<1>6. CASE Enter
  <2>2. Rotates(app.next) => disp.ongoing = {} BY <1>1, <1>6, RotatedFree
  <2>3. disp'.bound = disp.bound /\ disp'.ongoing = disp.ongoing
    BY <1>6, <2>2 DEF Enter, DispState
  <2>4. seen' = seen BY <1>6 DEF Enter
  <2> QED BY <1>1, <1>4, <2>3, <2>4
<1>7. CASE \E w \in View : RemoveView(w)
  <2>1. PICK w \in View : RemoveView(w) BY <1>7
  <2>2. /\ seen' = [seen EXCEPT ![w] = {}] /\ disp'.ongoing = disp.ongoing
        /\ disp.bound # w => disp'.bound = disp.bound
    BY <2>1 DEF RemoveView, Unbound, DispState
  <2> QED BY <1>1, <1>4, <2>2
<1>8. CASE Drain BY <1>2, <1>8 DEF Drain, Working
<1>9. CASE Free BY <1>2, <1>9 DEF Free, Working
<1>10. CASE DeliverApp \/ Navigate \/ ShowLoading \/ \E w \in View \cup {None} : SwitchToView(w)
  <2>1. disp' = disp /\ seen' = seen
    BY <1>10 DEF DeliverApp, Navigate, ShowLoading, SwitchToView
  <2> QED BY <1>1, <1>4, <2>1
<1> QED BY <1>1, <1>4, <1>5, <1>6, <1>7, <1>8, <1>9, <1>10, DispFrame

-----------------------------------------------------------------------------
(* The screen                                                                *)

\* A frame that is up to date stays so while nothing it shows changes.
LEMMA FreshKept ==
  ASSUME Next, fresh, ~mode'.direct, Drawn(Content)' = Drawn(Content)
  PROVE  fresh'
<1>1. fresh' = (\/ gui.pc = "redraw" /\ ~mode.direct
                \/ fresh /\ ~mode.direct' /\ StaysDrawn) BY DEF Next
<1>3. StaysDrawn BY Zenon DEF StaysDrawn
<1>2. (\/ gui.pc = "redraw" /\ ~mode.direct
       \/ fresh /\ ~mode.direct' /\ StaysDrawn) BY <1>3
<1> HIDE DEF Next
<1> QED BY <1>1, <1>2, Zenon

LEMMA FreshDrawn ==
  ASSUME Next, gui.pc = "redraw", ~mode.direct
  PROVE  fresh'
<1>1. fresh' = (\/ gui.pc = "redraw" /\ ~mode.direct
                \/ fresh /\ ~mode.direct' /\ StaysDrawn) BY DEF Next
<1> QED BY <1>1, Zenon

\* Steps that touch nothing of a frame, nor the application.
LEMMA SameCurrent ==
  ASSUME Next, Current, ~mode.direct, layers' = layers, enabled' = enabled, mode' = mode,
         disp'.current = disp.current, Pending => Pending' \/ fresh',
         app' = app \/ app.pc # "show"
  PROVE  Current'
<1>1. fresh \/ Pending \/ (app.pc = "show" /\ App \in enabled /\ Attached) BY DEF Current
<1>2. CASE fresh
  <2>1. fresh' BY <1>2, SameFrame, FreshKept
  <2> QED BY <2>1 DEF Current
<1>3. CASE Pending BY <1>3 DEF Current
<1>4. CASE app.pc = "show" /\ App \in enabled /\ Attached
  <2>1. Attached' BY <1>4 DEF Attached, InLayer
  <2> QED BY <1>4, <2>1 DEF Current
<1> QED BY <1>1, <1>2, <1>3, <1>4

LEMMA CurrentStep ==
  ASSUME TypeOK, Current, Next
  PROVE  Current'
<1> USE DEF TypeOK, GuiOK, DispOK
<1>1. SUFFICES ASSUME ~mode'.direct PROVE Current' BY DEF Current
<1>2. CASE mode.direct
  <2>1. DirectDrawRelease
    BY <1>1, <1>2, ModeFrame DEF DirectDrawAcquire, ScreenOK
  <2>2. "DRAW" \in flags' BY <2>1 DEF DirectDrawRelease
  <2> QED BY <2>2 DEF Current, Pending
<1>3. CASE ~mode.direct
  <2>1. ASSUME flags' = Updated PROVE Current'
    BY <1>3, <2>1 DEF Updated, Current, Pending
  <2>2. ASSUME gui' = gui, flags \subseteq flags' PROVE Pending => Pending'
    BY <2>2 DEF Pending
  <2>3. CASE GuiStep
    <3>1. layers' = layers /\ enabled' = enabled /\ mode' = mode
      BY <2>3 DEF GuiStep, GuiThread, Wake, InputDone, GuiInput, DeliverPlain, Redraw, Commit
    <3>2. disp' = disp /\ app' = app BY <2>3 DEF GuiStep, dispVars
    <3>3. Pending => Pending' \/ fresh'
      <4>1. CASE Redraw BY <1>3, <4>1, FreshDrawn DEF Redraw
      <4>2. CASE Wake
        <5>1. SUFFICES ASSUME Pending PROVE Pending' OBVIOUS
        <5>2. "DRAW" \in flags BY <4>2, <5>1 DEF Wake, Pending
        <5>3. gui' = [gui EXCEPT !.pc = IF "INPUT" \in flags THEN "input" ELSE "redraw",
                                 !.draw = {"INPUT", "DRAW"} \subseteq flags]
          BY <4>2 DEF Wake
        <5>4. CASE "INPUT" \in flags
          <6>1. ({"INPUT", "DRAW"} \subseteq flags) = TRUE BY <5>2, <5>4
          <6>2. gui' = [gui EXCEPT !.pc = "input", !.draw = TRUE] BY <5>3, <5>4, <6>1
          <6>3. gui'.draw /\ gui'.pc = "input" BY <6>2 DEF GuiThreadState
          <6> QED BY <6>3 DEF Pending
        <5>5. CASE "INPUT" \notin flags
          <6>1. PICK b \in BOOLEAN : b = ({"INPUT", "DRAW"} \subseteq flags) BY IsWithin
          <6>2. gui' = [gui EXCEPT !.pc = "redraw", !.draw = b] BY <5>3, <5>5, <6>1
          <6>3. gui'.pc = "redraw" BY <6>2 DEF GuiThreadState
          <6> QED BY <6>3 DEF Pending
        <5> QED BY <5>4, <5>5
      <4>3. CASE InputDone
        <5>1. gui' = [gui EXCEPT !.pc = IF gui.draw THEN "redraw" ELSE "wait", !.draw = FALSE]
              /\ flags' = flags
          BY <4>3 DEF InputDone
        <5>2. gui.draw => gui'.pc = "redraw" BY <5>1 DEF GuiThreadState
        <5>3. gui.pc = "input" BY <4>3 DEF InputDone
        <5> QED BY <5>1, <5>2, <5>3 DEF Pending
      <4>4. CASE GuiInput
        <5>1. gui.pc = "input" /\ gui'.pc \in {"input", "deliver"} /\ gui'.draw = gui.draw
          BY <4>4, Routed DEF GuiThreadState
        <5>2. flags' = flags BY <4>4 DEF GuiInput
        <5> QED BY <5>1, <5>2 DEF Pending
      <4>5. CASE DeliverPlain
        <5>1. gui.pc = "deliver" /\ gui'.pc = "input" /\ gui'.draw = gui.draw /\ flags' = flags
          BY <4>5 DEF DeliverPlain, Idle, GuiThreadState
        <5> QED BY <5>1 DEF Pending
      <4>6. CASE Commit
        <5>1. gui.pc = "commit" /\ flags' = flags BY <4>6 DEF Commit, Committed
        <5> QED BY <5>1 DEF Pending
      <4> QED BY <2>3, <4>1, <4>2, <4>3, <4>4, <4>5, <4>6 DEF GuiStep, GuiThread
    <3> QED BY <1>3, <3>1, <3>2, <3>3, SameCurrent
  <2>4. CASE DeliverApp
    <3>1. /\ layers' = layers /\ enabled' = enabled /\ mode' = mode
          /\ disp' = disp /\ app' = app /\ flags' = flags
      BY <2>4 DEF DeliverApp
    <3>2. gui.pc = "deliver" /\ gui'.pc = "input" /\ gui'.draw = gui.draw
      BY <2>4 DEF DeliverApp, Idle, GuiThreadState
    <3>3. Pending => Pending' BY <3>1, <3>2 DEF Pending
    <3> QED BY <1>3, <3>1, <3>3, SameCurrent
  <2>5. CASE AppCalls
    <3>1. CASE Attach \/ SendTo BY <2>1, <3>1 DEF Attach, SendTo
    <3>2. CASE ShowLoading \/ Stop \/ (\E v \in View : AddView(v))
                 \/ \E v \in View \cup {None} : SwitchToView(v)
      <4>1. /\ layers' = layers /\ enabled' = enabled /\ mode' = mode
            /\ disp' = disp /\ flags' = flags /\ gui' = gui /\ app.pc # "show"
        BY <3>2 DEF ShowLoading, Stop, AddView, SwitchToView, AppCall
      <4>2. Pending => Pending' BY <2>2, <4>1
      <4> QED BY <1>3, <4>1, <4>2, SameCurrent
    <3>3. CASE HandOrientChanged
      <4>1. /\ layers' = layers /\ enabled' = enabled /\ disp' = disp /\ gui' = gui
            /\ flags' = (IF Attached /\ App \in enabled THEN Updated ELSE flags) /\ app.pc = "loop"
        BY <3>3 DEF HandOrientChanged
      <4>2. flags \subseteq flags' BY <4>1 DEF Updated
      <4>3. mode'.lockdown = mode.lockdown /\ mode'.inhibit = mode.inhibit
        BY <3>3 DEF HandOrientChanged, ScreenOK
      <4>4. Drawn(Content)' = Drawn(Content) BY <4>1, <4>3, SameFrame
      <4>5. fresh => fresh' BY <1>1, <4>4, FreshKept
      <4>6. Pending => Pending' BY <2>2, <4>1, <4>2
      <4> QED BY <1>3, <4>1, <4>5, <4>6 DEF Current
    <3> QED BY <2>5, <3>1, <3>2, <3>3 DEF AppCalls
  <2>6. CASE AppThread
    <3>1. CASE HandleInput \/ Navigate \/ Drain \/ RunReturns
      <4>1. /\ layers' = layers /\ enabled' = enabled /\ mode' = mode
            /\ flags' = flags /\ gui' = gui /\ app.pc # "show"
        BY <3>1 DEF HandleInput, Navigate, Drain, RunReturns, guiVars
      <4>2. disp'.current = disp.current BY <3>1, Taken DEF Navigate, RunReturns
      <4>3. Pending => Pending' BY <2>2, <4>1
      <4> QED BY <1>3, <4>1, <4>2, <4>3, SameCurrent
    <3>2. CASE Enter
      <4>1. /\ layers' = layers /\ enabled' = enabled /\ mode' = mode
            /\ flags' = flags /\ gui' = gui /\ app.pc = "enter"
        BY <3>2 DEF Enter, guiVars
      <4>2. app'.pc = "show" BY <3>2 DEF Enter, AppState
      <4>3. CASE Pending BY <2>2, <4>1, <4>3 DEF Current
      <4>4. CASE fresh /\ TopPort = App
        <5>1. App \in enabled /\ Attached BY <4>4, TopPortIn, Ports DEF Attached
        <5>2. Attached' BY <4>1, <5>1 DEF Attached, InLayer
        <5> QED BY <4>1, <4>2, <5>1, <5>2 DEF Current
      <4>5. CASE fresh /\ TopPort # App
        <5>1. TopPort' = TopPort /\ Above' = Above BY <4>1, SameTop
        <5>2. Drawn(Content)' = Drawn(Content)
          BY <4>1, <4>5, <5>1 DEF Drawn, Content, IsLockdown
        <5>3. fresh' BY <1>1, <4>5, <5>2, FreshKept
        <5> QED BY <5>3 DEF Current
      <4> QED BY <1>3, <4>1, <4>3, <4>4, <4>5 DEF Current
    <3>3. CASE Show
      <4>1. /\ layers' = layers /\ mode' = mode /\ disp' = disp /\ gui' = gui
            /\ enabled' = Shown(disp.current)
            /\ flags' = IF Attached /\ ShowUpdates THEN Updated ELSE flags
        BY <3>3 DEF Show
      <4>2. CASE Attached /\ ShowUpdates BY <2>1, <4>1, <4>2
      <4>3. CASE ~(Attached /\ ShowUpdates)
        <5>1. Pending => Pending' BY <2>2, <4>1, <4>3
        <5>2. ~(App \in enabled /\ Attached)
          <6>1. SUFFICES ASSUME App \in enabled, Attached PROVE ShowUpdates BY <4>3
          <6> QED BY <4>1, <6>1 DEF Shown, ShowUpdates
        <5>3. Drawn(Content)' = Drawn(Content)
          <6>1. CASE Attached
            <7>1. enabled' = enabled BY <4>3, <6>1 DEF ShowUpdates
            <7> QED BY <4>1, <7>1, SameFrame
          <6>2. CASE ~Attached
            <7>1. enabled' \in {enabled \cup {App}, enabled \ {App}} BY <4>1 DEF Shown
            <7> QED BY <4>1, <6>2, <7>1, OutsideFrame DEF Attached
          <6> QED BY <6>1, <6>2
        <5>4. fresh => fresh' BY <1>1, <5>3, FreshKept
        <5> QED BY <1>3, <5>1, <5>2, <5>4 DEF Current
      <4> QED BY <4>2, <4>3
    <3>4. CASE \E v \in View : RemoveView(v)
      <4>1. PICK v \in View : RemoveView(v) BY <3>4
      <4>2. /\ layers' = layers /\ mode' = mode /\ gui' = gui /\ app.pc # "show"
            /\ enabled' = (IF disp.current = v THEN enabled \ {App} ELSE enabled)
            /\ flags' = (IF disp.current = v /\ App \in enabled THEN Updated ELSE flags)
            /\ disp'.current = (IF disp.current = v THEN None ELSE disp.current)
        BY <4>1 DEF RemoveView, Unbound, DispState
      <4>3. CASE disp.current = v /\ App \in enabled BY <2>1, <4>2, <4>3
      <4>4. CASE disp.current = v /\ App \notin enabled
        <5>1. enabled' = enabled BY <4>2, <4>4
        <5>2. TopPort # App BY <4>4, TopPortIn, Ports
        <5>3. TopPort' = TopPort /\ Above' = Above BY <4>2, <5>1, SameTop
        <5>4. Drawn(Content)' = Drawn(Content)
          BY <4>2, <5>2, <5>3 DEF Drawn, Content, IsLockdown
        <5>5. fresh => fresh' BY <1>1, <5>4, FreshKept
        <5>6. Pending => Pending' BY <2>2, <4>2, <4>4
        <5> QED BY <1>3, <4>2, <5>5, <5>6 DEF Current
      <4>5. CASE disp.current # v
        <5>1. Pending => Pending' BY <2>2, <4>2, <4>5
        <5> QED BY <1>3, <4>2, <4>5, <5>1, SameCurrent
      <4> QED BY <4>3, <4>4, <4>5
    <3>5. CASE Free BY <2>1, <3>5 DEF Free
    <3> QED BY <2>6, <3>1, <3>2, <3>3, <3>4, <3>5 DEF AppThread
  <2>7. CASE Environment
    <3>0. disp' = disp /\ app' = app BY <2>7 DEF Environment, dispVars
    <3>1. CASE KeyArrives
      <4>1. /\ layers' = layers /\ enabled' = enabled /\ mode' = mode
            /\ flags \subseteq flags' /\ gui' = gui
        BY <3>1 DEF KeyArrives
      <4>2. Pending => Pending' BY <2>2, <4>1
      <4> QED BY <1>3, <3>0, <4>1, <4>2, SameCurrent
    <3>2. CASE \E p \in Plain \ {Home} : AddViewPort(p) \/ RemoveViewPort(p) \/ Reorder(p)
      BY <2>1, <3>2 DEF AddViewPort, RemoveViewPort, Reorder, LockedCall
    <3>3. CASE \E p \in Plain \ {Home} : EnabledSet(p)
      <4>1. PICK p \in Plain \ {Home} : EnabledSet(p) BY <3>3
      <4>2. /\ layers' = layers /\ mode' = mode /\ gui' = gui
            /\ enabled' \in {enabled \cup {p}, enabled \ {p}}
            /\ flags' = IF InLayer(p) THEN Updated ELSE flags
        BY <4>1 DEF EnabledSet
      <4>3. CASE InLayer(p) BY <2>1, <4>2, <4>3
      <4>4. CASE ~InLayer(p)
        <5>1. Drawn(Content)' = Drawn(Content) BY <3>0, <4>2, <4>4, OutsideFrame
        <5>2. fresh => fresh' BY <1>1, <5>1, FreshKept
        <5>3. Pending => Pending' BY <2>2, <4>2, <4>4
        <5>4. App \in enabled => App \in enabled' BY <4>2, Ports
        <5>5. Attached => Attached' BY <4>2 DEF Attached, InLayer
        <5> QED BY <1>3, <3>0, <5>2, <5>3, <5>4, <5>5 DEF Current
      <4> QED BY <4>3, <4>4
    <3>4. CASE SetLockdown \/ SetLockdownInhibit
      BY <2>1, <3>4 DEF SetLockdown, SetLockdownInhibit, LockedCall
    <3>5. CASE DirectDrawAcquire BY <1>1, <3>5 DEF DirectDrawAcquire, ScreenOK
    <3>6. CASE DirectDrawRelease BY <1>3, <3>6 DEF DirectDrawRelease
    <3> QED BY <2>7, <3>1, <3>2, <3>3, <3>4, <3>5, <3>6 DEF Environment, GuiCalls
  <2> QED BY <2>3, <2>4, <2>5, <2>6, <2>7 DEF Next
<1> QED BY <1>2, <1>3

-----------------------------------------------------------------------------
(* Theorems                                                                  *)

LEMMA InitInv == Init => DispatcherInv
<1> SUFFICES ASSUME Init PROVE DispatcherInv OBVIOUS
<1> USE DEF Init, GuiInit, KeysInit
<1>1. GuiOK
  <2>1. inputQueue \in Seq(KeyEvent) /\ down \subseteq Key /\ held \in [Port -> SUBSET Key]
    OBVIOUS
  <2>2. gui \in GuiThreadState BY DEF GuiThreadState
  <2> QED BY <2>1, <2>2 DEF GuiOK
<1>2. ScreenOK
  <2>1. Home \in Port BY GuiAssumption DEF Plain
  <2>2. <<Home>> \in Seq(Port) /\ <<>> \in Seq(Port) BY <2>1
  <2>3. layers \in [Layer -> Seq(Port)] BY <2>2
  <2>4. enabled \subseteq Port /\ flags \subseteq {"INPUT", "DRAW"} BY Ports
  <2>5. mode \in [lockdown : BOOLEAN, inhibit : BOOLEAN, direct : BOOLEAN, hand : BOOLEAN] OBVIOUS
  <2> QED BY <2>3, <2>4, <2>5 DEF ScreenOK
<1>3. DispOK
  <2>1. queue \in Seq(KeyEvent) /\ views \subseteq View /\ seen \in [View -> SUBSET Key]
    OBVIOUS
  <2>2. disp \in DispState BY DEF DispState, AnyView
  <2>3. app \in AppState BY DEF AppState, AnyView
  <2> QED BY <2>1, <2>2, <2>3 DEF DispOK
<1>4. KeysInOrder BY NothingInOrder DEF KeysInOrder
<1>5. DeliversToBound BY DEF DeliversToBound
<1>6. BoundExists BY DEF BoundExists, Bindable
<1>7. FlightInOrder
  <2>1. Flight = <<>> BY DEF Flight
  <2> QED BY <2>1, NothingInOrder DEF FlightInOrder, InOrder
<1>8. HeldHere BY Ports DEF HeldHere
<1>9. SeenHere BY DEF SeenHere
<1>10. Current BY DEF Current, Pending
<1> QED BY <1>1, <1>2, <1>3, <1>4, <1>5, <1>6, <1>7, <1>8, <1>9, <1>10 DEF DispatcherInv, TypeOK

LEMMA StepInv == DispatcherInv /\ [Next]_vars => DispatcherInv'
<1> SUFFICES ASSUME DispatcherInv, [Next]_vars PROVE DispatcherInv' OBVIOUS
<1> USE DEF DispatcherInv
<1>1. TypeOK' BY GuiTyped, ScreenTyped, DispTyped DEF TypeOK
<1>2. KeysInOrder' BY KeysInOrderStep
<1>3. DeliversToBound' BY DeliversStep
<1>4. BoundExists' BY BoundExistsStep
<1>5. FlightInOrder' BY FlightInOrderStep
<1>6. HeldHere' BY HeldHereStep
<1>7. SeenHere' BY SeenHereStep
<1>8. Current'
  <2>1. CASE Next BY <2>1, CurrentStep
  <2>2. CASE UNCHANGED vars
    <3>1. /\ mode' = mode /\ flags' = flags /\ gui' = gui /\ layers' = layers
          /\ enabled' = enabled /\ app' = app
      BY <2>2 DEF vars, guiVars, dispVars
    <3>2. fresh' = fresh BY <2>2, Zenon DEF vars
    <3>3. Attached' = Attached /\ Pending' = Pending BY <3>1 DEF Attached, InLayer, Pending
    <3>4. fresh => fresh' BY <3>2, Zenon
    <3> QED BY <3>1, <3>3, <3>4 DEF Current
  <2> QED BY <2>1, <2>2
<1> QED BY <1>1, <1>2, <1>3, <1>4, <1>5, <1>6, <1>7, <1>8

\* The inductive invariant holds: the variables have their values, the keys
\* in both queues alternate, what is bound exists, and the screen is current
\* or about to be redrawn.
THEOREM DispatcherInvariant == Spec => []DispatcherInv
  BY InitInv, StepInv, PTL DEF Spec

\* A key the dispatcher counts as down owns a Release, so the drain at the end
\* of view_dispatcher_run() is not left waiting by a lost one, unless the port
\* was rotated or the hand orientation changed with a key let in.
THEOREM DispatcherKeyOwnsRelease == Spec => []KeyOwnsRelease
<1>1. DispatcherInv => KeyOwnsRelease
  <2>1. SUFFICES ASSUME DispatcherInv, App \notin remapped, NEW k \in disp.ongoing PROVE ReleaseComing(k)
    BY DEF KeyOwnsRelease
  <2>2. TypeOK /\ DeliversToBound /\ queue \in Seq(KeyEvent) /\ k \in Key
    BY <2>1 DEF DispatcherInv, TypeOK, DispOK, DispState
  <2>3. InOrder(k) BY <2>1, <2>2 DEF DispatcherInv, FlightInOrder
  <2>4. CASE Late(k) BY <2>4 DEF Late, ReleaseComing
  <2>5. CASE Ends(disp.ongoing, Flight, k)
    <3>1. Flight \in Seq(KeyEvent) BY <2>2, FlightIs
    <3>2. 0 \in 0 .. Len(Flight) /\ Pressed(disp.ongoing, Flight, k, 0)
      BY <2>1, <3>1 DEF Pressed
    <3>3. PICK j \in 0 + 1 .. Len(Flight) : Released(Flight, k, j) BY <2>5, <3>2 DEF Ends
    <3>4. j \in 1 .. Len(Flight) BY <3>1
    <3>5. CASE ~(gui.pc = "deliver" /\ gui.to = App)
      <4>1. Flight = queue BY <3>5 DEF Flight
      <4> QED BY <3>3, <3>4, <4>1 DEF Released, ReleaseComing
    <3>6. CASE gui.pc = "deliver" /\ gui.to = App
      <4>1. PICK m \in KeyEvent : /\ m = Ev(Oriented(gui.ev.key), gui.ev.type)
                                  /\ m.key = Oriented(gui.ev.key) /\ m.type = gui.ev.type
        BY <2>2, <3>6, FlightIs
      <4>2. Flight = Append(queue, m) BY <3>6, <4>1 DEF Flight
      <4>3. /\ Len(queue) \in Nat /\ Len(Flight) = Len(queue) + 1 /\ Flight[Len(queue) + 1] = m
            /\ \A i \in 1 .. Len(queue) : Flight[i] = queue[i]
        BY <2>2, <4>2, AppendAt
      <4>4. CASE j = Len(queue) + 1
        BY <3>3, <3>6, <4>1, <4>3, <4>4 DEF Released, ReleaseComing
      <4>5. CASE j # Len(queue) + 1
        <5>1. j \in 1 .. Len(queue) BY <3>4, <4>3, <4>5
        <5> QED BY <3>3, <4>3, <5>1 DEF Released, ReleaseComing
      <4> QED BY <4>4, <4>5
    <3> QED BY <3>5, <3>6
  <2> QED BY <2>3, <2>4, <2>5 DEF InOrder
<1> QED BY <1>1, DispatcherInvariant, PTL

\* A port or a view that got a Press is the one its Release goes to, under the
\* same key, unless the port's keys were mapped anew in between.
THEOREM DispatcherNoStuckKeys == Spec => []NoStuckKeys
<1>1. DispatcherInv => NoStuckKeys
  BY DEF DispatcherInv, HeldHere, SeenHere, NoStuckKeys
<1> QED BY <1>1, DispatcherInvariant, PTL

\* The GUI and the dispatcher keep no pointer to a port or a view that is gone.
THEOREM DispatcherNothingDangles == Spec => []NothingDangles
<1>1. DispatcherInv => NothingDangles
  BY DEF DispatcherInv, BoundExists, DeliversToBound, Bindable, NothingDangles
<1> QED BY <1>1, DispatcherInvariant, PTL

\* A sleeping GUI with no draw flag shows what the state asks for.
THEOREM DispatcherScreenUpToDate == Spec => []ScreenUpToDate
<1>1. DispatcherInv => ScreenUpToDate
  BY DEF DispatcherInv, Current, Pending, ScreenUpToDate
<1> QED BY <1>1, DispatcherInvariant, PTL
=============================================================================
