--------------------------- MODULE EventLoopProofs ---------------------------
(* The safety of the kernel's event loop, for any queues and timers, any     *)
(* capacities and intervals, and any number of calls and notifications.      *)
EXTENDS EventLoop, SequenceTheorems, WellFoundedInduction, TLAPS

Flag == {"Event", "Timer", "Pending", "ThreadFlag", "Stop"}

LoopPc == Callback \cup {"setup", "wait", "done", "timers", "stopped", "freed", "crashed"}

Item == [object : Object \cup {"none"}, owned : BOOLEAN]

TimerState == [alive : BOOLEAN, active : BOOLEAN, request : {"none", "start", "stop", "free"},
               next : Nat, interval : Nat, elapsed : Nat]

In(s) == {s[i] : i \in 1 .. Len(s)}

Distinct(s) == \A i, j \in 1 .. Len(s) : s[i] = s[j] => i = j

\* Values of the variables of the items and of the loop.
ItemsOK ==
    /\ level \in [Object -> Nat] /\ telling \in SUBSET Object
    /\ pc \in LoopPc
    /\ subscribed \in SUBSET Object /\ waiting \in Seq(Object)
    /\ current \in Item /\ (pc \in {"event", "done"} => current.object \in Object)

\* Values of the timers: one that runs, or is asked to, has an interval.
TimersOK ==
    /\ timer \in [Timer -> TimerState]
    /\ timerList \in Seq(Timer) /\ timerQueue \in Seq(Timer)
    /\ \A t \in Timer : /\ timer[t].request = "start" => timer[t].next > 0
                        /\ timer[t].active => timer[t].interval > 0

\* An item waits once, and only while it is subscribed; the current item is
\* owned only while its event is processed and its object is subscribed.
ItemsKept ==
    /\ Distinct(waiting) /\ In(waiting) \subseteq subscribed
    /\ current.owned => current.object \in subscribed /\ pc \in {"event", "done"}
    /\ pc = "freed" => subscribed = {}

\* LevelWaits, also for an object that was unsubscribed in its own callback and
\* subscribed again: its old item is not owned any more.
LevelsKept ==
    \A o \in subscribed \ (Edge \cup telling) :
       level[o] > 0 /\ ~(current.object = o /\ current.owned) => o \in In(waiting)

\* A piece of work has its flag, in the notification value or among the flags
\* the branch will restore; the branch that handles it needs none.
Flagged ==
    /\ pending \in Nat /\ (pc = "pending" => pending > 0)
    /\ pc \notin {"event", "done", "timers"} => got = {}
    /\ pc \notin {"event", "done", "stopped", "freed", "crashed"} /\ waiting # <<>> =>
         "Event" \in flags
    /\ pc \notin {"timers", "stopped", "freed", "crashed"} /\ timerQueue # <<>> =>
         "Timer" \in flags \cup got
    /\ pc \notin {"pending", "stopped", "freed", "crashed"} /\ pending > 0 =>
         "Pending" \in flags \cup got

\* A request of a timer is in the queue.
Requested == \A t \in Timer : timer[t].request # "none" => t \in In(timerQueue)

\* A list of timers, each once and in the order of their expiry.
Sorted(s, tm) ==
    \A i, j \in 1 .. Len(s) :
       i < j => s[i] # s[j] /\ Remaining(tm[s[i]]) =< Remaining(tm[s[j]])

\* The list holds the timers that run.
Listed ==
    /\ \A t \in Timer : (timer[t].alive /\ timer[t].active) <=> t \in In(timerList)
    /\ Sorted(timerList, timer)

Freed == pc = "freed" => timerList = <<>>

EventLoopInv ==
    /\ ItemsOK /\ TimersOK
    /\ ItemsKept /\ LevelsKept /\ Flagged /\ Requested /\ Listed /\ Freed
-----------------------------------------------------------------------------
(* Lists                                                                     *)

\* A sub-sequence of a list, element by element.
LEMMA Part ==
  ASSUME NEW T, NEW s \in Seq(T), NEW a \in 1 .. Len(s) + 1, NEW b \in 0 .. Len(s), a =< b + 1
  PROVE  /\ SubSeq(s, a, b) \in Seq(T) /\ Len(SubSeq(s, a, b)) = b - a + 1
         /\ \A i \in 1 .. b - a + 1 : SubSeq(s, a, b)[i] = s[a + i - 1]
<1>1. Len(s) \in Nat /\ a \in Int /\ b \in Int OBVIOUS
<1>2. \A i \in a .. b : s[i] \in T BY <1>1
<1>3. /\ SubSeq(s, a, b) \in Seq(T)
      /\ Len(SubSeq(s, a, b)) = IF a <= b THEN b - a + 1 ELSE 0
      /\ \A i \in 1 .. b - a + 1 : SubSeq(s, a, b)[i] = s[a + i - 1]
  BY <1>1, <1>2, SubSeqProperties
<1>4. Len(SubSeq(s, a, b)) = b - a + 1
  <2>1. CASE a <= b BY <1>3, <2>1
  <2>2. CASE ~(a <= b)
    <3>1. b - a + 1 = 0 BY <1>1, <2>2
    <3> QED BY <1>3, <2>2, <3>1
  <2> QED BY <2>1, <2>2
<1> QED BY <1>3, <1>4

\* Unlinking takes the one node out and keeps the order of the others.
LEMMA UnlinkedAt ==
  ASSUME NEW T, NEW s \in Seq(T), NEW x
  PROVE  /\ Unlinked(s, x) \in Seq(T)
         /\ x \notin In(s) => Unlinked(s, x) = s
         /\ x \in In(s) =>
              \E p \in 1 .. Len(s) :
                /\ s[p] = x /\ Len(Unlinked(s, x)) = Len(s) - 1
                /\ \A i \in 1 .. Len(s) - 1 :
                     Unlinked(s, x)[i] = IF i < p THEN s[i] ELSE s[i + 1]
<1>1. CASE x \notin In(s) BY <1>1 DEF In, Unlinked
<1>2. CASE x \in In(s)
  <2>0. \E i \in 1 .. Len(s) : s[i] = x BY <1>2 DEF In
  <2> DEFINE q == CHOOSE i \in 1 .. Len(s) : s[i] = x
  <2>1. q \in 1 .. Len(s) /\ s[q] = x BY <2>0
  <2>2. Unlinked(s, x) = SubSeq(s, 1, q - 1) \o SubSeq(s, q + 1, Len(s)) BY <2>0 DEF Unlinked
  <2> HIDE DEF q
  <2>3. PICK p \in 1 .. Len(s) :
          s[p] = x /\ Unlinked(s, x) = SubSeq(s, 1, p - 1) \o SubSeq(s, p + 1, Len(s))
    BY <2>1, <2>2
  <2> DEFINE l == SubSeq(s, 1, p - 1)
             r == SubSeq(s, p + 1, Len(s))
             n == Len(s)
  <2>4. n \in Nat /\ p \in Nat /\ 1 <= p /\ p <= n OBVIOUS
  <2>5. l \in Seq(T) /\ Len(l) = p - 1 /\ \A i \in 1 .. p - 1 : l[i] = s[i]
    <3>1. 1 \in 1 .. n + 1 /\ p - 1 \in 0 .. n /\ 1 =< (p - 1) + 1 BY <2>4
    <3>2. /\ l \in Seq(T) /\ Len(l) = (p - 1) - 1 + 1
          /\ \A i \in 1 .. (p - 1) - 1 + 1 : l[i] = s[1 + i - 1]
      BY <3>1, Part
    <3>3. (p - 1) - 1 + 1 = p - 1 /\ \A i \in 1 .. p - 1 : 1 + i - 1 = i BY <2>4
    <3> HIDE DEF l, n
    <3> QED BY <3>2, <3>3
  <2>6. r \in Seq(T) /\ Len(r) = n - p /\ \A i \in 1 .. n - p : r[i] = s[p + i]
    <3>1. p + 1 \in 1 .. n + 1 /\ n \in 0 .. n /\ p + 1 =< n + 1 BY <2>4
    <3>2. /\ r \in Seq(T) /\ Len(r) = n - (p + 1) + 1
          /\ \A i \in 1 .. n - (p + 1) + 1 : r[i] = s[(p + 1) + i - 1]
      BY <3>1, Part
    <3>3. n - (p + 1) + 1 = n - p /\ \A i \in 1 .. n - p : (p + 1) + i - 1 = p + i BY <2>4
    <3> HIDE DEF r, n
    <3> QED BY <3>2, <3>3
  <2> HIDE DEF l, r
  <2>7. /\ l \o r \in Seq(T) /\ Len(l \o r) = Len(l) + Len(r)
        /\ \A i \in 1 .. Len(l) + Len(r) :
             (l \o r)[i] = IF i <= Len(l) THEN l[i] ELSE r[i - Len(l)]
    BY <2>5, <2>6, ConcatProperties
  <2>8. PICK u : u = l \o r OBVIOUS
  <2>9. u \in Seq(T) /\ Len(u) = n - 1
    <3>1. u \in Seq(T) /\ Len(u) = Len(l) + Len(r) BY <2>7, <2>8
    <3>2. (p - 1) + (n - p) = n - 1 BY <2>4
    <3> HIDE DEF n
    <3> QED BY <2>5, <2>6, <3>1, <3>2
  <2>10. ASSUME NEW i \in 1 .. n - 1 PROVE u[i] = IF i < p THEN s[i] ELSE s[i + 1]
    <3>1. i \in 1 .. Len(l) + Len(r) BY <2>4, <2>5, <2>6
    <3>2. CASE i < p
      <4>1. i <= Len(l) /\ i \in 1 .. p - 1 BY <2>4, <2>5, <3>2
      <4>2. u[i] = l[i] BY <2>7, <2>8, <3>1, <4>1
      <4> QED BY <2>5, <3>2, <4>1, <4>2
    <3>3. CASE ~(i < p)
      <4>1. ~(i <= Len(l)) /\ i - Len(l) = i - p + 1 /\ i - p + 1 \in 1 .. n - p
            /\ p + (i - p + 1) = i + 1
        BY <2>4, <2>5, <3>3
      <4>2. u[i] = r[i - p + 1] BY <2>7, <2>8, <3>1, <4>1
      <4>3. r[i - p + 1] = s[p + (i - p + 1)] BY <2>6, <4>1
      <4> QED BY <3>3, <4>1, <4>2, <4>3
    <3> QED BY <3>2, <3>3
  <2>11. Unlinked(s, x) = u BY <2>3, <2>8 DEF l, r
  <2> QED BY <1>2, <2>3, <2>9, <2>10, <2>11
<1> QED BY <1>1, <1>2

LEMMA UnlinkedIn ==
  ASSUME NEW T, NEW s \in Seq(T), NEW x
  PROVE  /\ Unlinked(s, x) \in Seq(T)
         /\ In(Unlinked(s, x)) \subseteq In(s) /\ In(s) \ {x} \subseteq In(Unlinked(s, x))
         /\ Distinct(s) => Distinct(Unlinked(s, x)) /\ x \notin In(Unlinked(s, x))
<1>0. PICK u : u = Unlinked(s, x) OBVIOUS
<1>1. u \in Seq(T) BY <1>0, UnlinkedAt
<1>2. CASE x \notin In(s)
  <2>1. u = s BY <1>0, <1>2, UnlinkedAt
  <2> QED BY <1>0, <1>2, <2>1
<1>3. CASE x \in In(s)
  <2> DEFINE n == Len(s)
  <2>1. PICK p \in 1 .. n :
          /\ s[p] = x /\ Len(u) = n - 1
          /\ \A i \in 1 .. n - 1 : u[i] = IF i < p THEN s[i] ELSE s[i + 1]
    BY <1>0, <1>3, UnlinkedAt
  <2>2. n \in Nat /\ p \in Nat /\ 1 <= p /\ p <= n OBVIOUS
  <2> HIDE DEF n
  <2>3. In(u) \subseteq In(s)
    <3>1. ASSUME NEW i \in 1 .. n - 1 PROVE u[i] \in In(s)
      <4>1. i \in 1 .. n /\ i + 1 \in 1 .. n /\ (u[i] = s[i] \/ u[i] = s[i + 1]) BY <2>1, <2>2
      <4> QED BY <4>1 DEF In, n
    <3> QED BY <2>1, <3>1 DEF In
  <2>4. ASSUME NEW i \in 1 .. n, s[i] # x PROVE s[i] \in In(u)
    <3>1. i < p \/ i > p BY <2>1, <2>2, <2>4
    <3>2. CASE i < p
      <4>1. i \in 1 .. n - 1 /\ u[i] = s[i] BY <2>1, <2>2, <3>2
      <4> QED BY <2>1, <4>1 DEF In
    <3>3. CASE i > p
      <4>1. i - 1 \in 1 .. n - 1 /\ ~(i - 1 < p) /\ (i - 1) + 1 = i BY <2>2, <3>3
      <4>2. u[i - 1] = s[i] BY <2>1, <4>1
      <4> QED BY <2>1, <4>1, <4>2 DEF In
    <3> QED BY <3>1, <3>2, <3>3
  <2>5. In(s) \ {x} \subseteq In(u) BY <2>4 DEF In, n
  <2>6. ASSUME Distinct(s) PROVE Distinct(u) /\ x \notin In(u)
    <3>1. ASSUME NEW i \in 1 .. n - 1
          PROVE  \E k \in 1 .. n : /\ u[i] = s[k] /\ k # p
                                   /\ k = IF i < p THEN i ELSE i + 1
      <4>1. CASE i < p BY <2>1, <2>2, <4>1
      <4>2. CASE ~(i < p) BY <2>1, <2>2, <4>2
      <4> QED BY <4>1, <4>2
    <3>2. ASSUME NEW i \in 1 .. n - 1, NEW j \in 1 .. n - 1, u[i] = u[j] PROVE i = j
      <4>1. PICK k \in 1 .. n : u[i] = s[k] /\ k = IF i < p THEN i ELSE i + 1 BY <3>1
      <4>2. PICK m \in 1 .. n : u[j] = s[m] /\ m = IF j < p THEN j ELSE j + 1 BY <3>1
      <4>3. k = m BY <2>6, <3>2, <4>1, <4>2 DEF Distinct, n
      <4> QED BY <2>2, <4>1, <4>2, <4>3
    <3>3. ASSUME NEW i \in 1 .. n - 1 PROVE u[i] # x
      <4>1. PICK k \in 1 .. n : u[i] = s[k] /\ k # p BY <3>1
      <4> QED BY <2>1, <2>6, <4>1 DEF Distinct, n
    <3> QED BY <2>1, <3>2, <3>3 DEF Distinct, In
  <2> QED BY <1>0, <1>1, <2>3, <2>5, <2>6
<1> QED BY <1>2, <1>3

LEMMA AppendIn ==
  ASSUME NEW T, NEW s \in Seq(T), NEW e \in T
  PROVE  /\ Append(s, e) \in Seq(T) /\ Append(s, e) # <<>>
         /\ In(Append(s, e)) = In(s) \cup {e}
         /\ Distinct(s) /\ e \notin In(s) => Distinct(Append(s, e))
<1> DEFINE n == Len(s)
           u == Append(s, e)
<1>1. /\ n \in Nat /\ u \in Seq(T) /\ Len(u) = n + 1 /\ u[n + 1] = e
      /\ \A i \in 1 .. n : u[i] = s[i]
  OBVIOUS
<1> HIDE DEF u
<1>2. In(u) = In(s) \cup {e} BY <1>1 DEF In
<1>3. u # <<>> BY <1>1
<1>4. ASSUME Distinct(s), e \notin In(s) PROVE Distinct(u)
  <2>1. \A i \in 1 .. n : s[i] # e BY <1>4 DEF In
  <2>2. \A i \in 1 .. n + 1 : i \in 1 .. n \/ i = n + 1 BY <1>1
  <2> QED BY <1>1, <1>4, <2>1, <2>2 DEF Distinct
<1> QED BY <1>1, <1>2, <1>3, <1>4 DEF u

LEMMA NotifiedIn ==
  ASSUME NEW s \in Seq(Object), NEW o \in Object
  PROVE  /\ Notified(o, s) \in Seq(Object) /\ Notified(o, s) # <<>>
         /\ In(Notified(o, s)) = In(s) \cup {o}
         /\ Distinct(s) => Distinct(Notified(o, s))
<1>1. CASE o \in In(s)
  <2>1. Notified(o, s) = s BY <1>1 DEF Notified, In
  <2>2. s # <<>> BY <1>1 DEF In
  <2> QED BY <1>1, <2>1, <2>2
<1>2. CASE o \notin In(s)
  <2>1. Notified(o, s) = Append(s, o) BY <1>2 DEF Notified, In
  <2> QED BY <1>2, <2>1, AppendIn
<1> QED BY <1>1, <1>2

LEMMA TailIn ==
  ASSUME NEW T, NEW s \in Seq(T), s # <<>>
  PROVE  /\ Head(s) \in T /\ Head(s) \in In(s) /\ Tail(s) \in Seq(T)
         /\ In(s) = In(Tail(s)) \cup {Head(s)}
         /\ Distinct(s) => Distinct(Tail(s)) /\ Head(s) \notin In(Tail(s))
<1> DEFINE n == Len(s)
           u == Tail(s)
<1>1. /\ n \in Nat /\ n > 0 /\ u \in Seq(T) /\ Len(u) = n - 1 /\ Head(s) = s[1]
      /\ \A i \in 1 .. n - 1 : u[i] = s[i + 1]
  OBVIOUS
<1> HIDE DEF u
<1>2. Head(s) \in T /\ Head(s) \in In(s) BY <1>1 DEF In
<1>3. In(u) \subseteq In(s)
  <2>1. \A i \in 1 .. n - 1 : i + 1 \in 1 .. n BY <1>1
  <2> QED BY <1>1, <2>1 DEF In
<1>4. In(s) \subseteq In(u) \cup {Head(s)}
  <2>1. ASSUME NEW i \in 1 .. n, i # 1 PROVE s[i] \in In(u)
    <3>1. i - 1 \in 1 .. n - 1 /\ (i - 1) + 1 = i BY <1>1, <2>1
    <3>2. u[i - 1] = s[i] BY <1>1, <3>1
    <3> QED BY <1>1, <3>1, <3>2 DEF In
  <2> QED BY <1>1, <2>1 DEF In
<1>5. ASSUME Distinct(s) PROVE Distinct(u) /\ Head(s) \notin In(u)
  <2>1. \A i \in 1 .. n - 1 : i + 1 \in 1 .. n /\ i + 1 # 1 BY <1>1
  <2>2. Distinct(u)
    <3>1. ASSUME NEW i \in 1 .. n - 1, NEW j \in 1 .. n - 1, u[i] = u[j] PROVE i = j
      <4>1. i + 1 = j + 1 BY <1>1, <1>5, <2>1, <3>1 DEF Distinct
      <4> QED BY <4>1
    <3> QED BY <1>1, <3>1 DEF Distinct
  <2>3. Head(s) \notin In(u) BY <1>1, <1>5, <2>1 DEF Distinct, In
  <2> QED BY <2>2, <2>3
<1> QED BY <1>1, <1>2, <1>3, <1>4, <1>5 DEF u
-----------------------------------------------------------------------------
(* Lists of timers                                                           *)

LEMMA RemainingNat == \A r \in TimerState : Remaining(r) \in Nat
  BY DEF TimerState, Remaining

LEMMA UnlinkedSorted ==
  ASSUME NEW s \in Seq(Timer), NEW tm, Sorted(s, tm), NEW x
  PROVE  Sorted(Unlinked(s, x), tm)
<1>0. PICK u : u = Unlinked(s, x) OBVIOUS
<1>1. CASE x \notin In(s) BY <1>1, UnlinkedAt
<1>2. CASE x \in In(s)
  <2> DEFINE n == Len(s)
  <2>1. PICK p \in 1 .. n :
          /\ s[p] = x /\ Len(u) = n - 1
          /\ \A i \in 1 .. n - 1 : u[i] = IF i < p THEN s[i] ELSE s[i + 1]
    BY <1>0, <1>2, UnlinkedAt
  <2>2. n \in Nat /\ p \in Nat OBVIOUS
  <2> HIDE DEF n
  <2>3. ASSUME NEW i \in 1 .. n - 1, NEW j \in 1 .. n - 1, i < j
        PROVE  u[i] # u[j] /\ Remaining(tm[u[i]]) =< Remaining(tm[u[j]])
    <3>1. PICK k \in 1 .. n : u[i] = s[k] /\ k = IF i < p THEN i ELSE i + 1 BY <2>1, <2>2
    <3>2. PICK m \in 1 .. n : u[j] = s[m] /\ m = IF j < p THEN j ELSE j + 1 BY <2>1, <2>2
    <3>3. k < m BY <2>2, <2>3, <3>1, <3>2
    <3> QED BY <3>1, <3>2, <3>3 DEF Sorted, n
  <2> QED BY <1>0, <2>1, <2>3 DEF Sorted
<1> QED BY <1>1, <1>2

LEMMA TailSorted ==
  ASSUME NEW s \in Seq(Timer), NEW tm, Sorted(s, tm), s # <<>>
  PROVE  Sorted(Tail(s), tm)
<1> DEFINE n == Len(s)
           u == Tail(s)
<1>1. n \in Nat /\ n > 0 /\ Len(u) = n - 1 /\ \A i \in 1 .. n - 1 : u[i] = s[i + 1]
  OBVIOUS
<1> HIDE DEF u
<1>2. ASSUME NEW i \in 1 .. n - 1, NEW j \in 1 .. n - 1, i < j
      PROVE  u[i] # u[j] /\ Remaining(tm[u[i]]) =< Remaining(tm[u[j]])
  <2>1. i + 1 \in 1 .. n /\ j + 1 \in 1 .. n /\ i + 1 < j + 1 BY <1>1, <1>2
  <2> QED BY <1>1, <2>1 DEF Sorted
<1> QED BY <1>1, <1>2 DEF Sorted, u

\* A list whose timers keep their time left stays sorted.
LEMMA SameSorted ==
  ASSUME NEW s, NEW a, NEW b, Sorted(s, a),
         \A i \in 1 .. Len(s) : Remaining(b[s[i]]) = Remaining(a[s[i]])
  PROVE  Sorted(s, b)
  BY DEF Sorted

LEMMA SortedDistinct ==
  ASSUME NEW s \in Seq(Timer), NEW tm, Sorted(s, tm)
  PROVE  Distinct(s)
<1>1. ASSUME NEW i \in 1 .. Len(s), NEW j \in 1 .. Len(s), s[i] = s[j], i # j PROVE FALSE
  <2>1. i < j \/ j < i BY <1>1
  <2> QED BY <1>1, <2>1 DEF Sorted
<1> QED BY <1>1 DEF Distinct

\* A set of positions in a list has a last one.
LEMMA LastPlace ==
  ASSUME NEW n \in Nat, NEW S, S \subseteq 1 .. n, S # {}
  PROVE  \E m \in S : \A k \in S : k =< m
<1> DEFINE R == OpToRel(<, Nat)
           D == {n - k : k \in S}
<1>1. IsWellFoundedOn(R, Nat) BY NatLessThanWellFounded
<1>2. D \subseteq Nat /\ D # {} OBVIOUS
<1> HIDE DEF D
<1>3. PICK d \in D : \A e \in D : ~(<<e, d>> \in R)
  <2> HIDE DEF R
  <2> QED BY <1>1, <1>2, WFMin
<1>4. PICK m \in S : d = n - m BY DEF D
<1>5. ASSUME NEW k \in S PROVE k =< m
  <2>1. n - k \in D /\ n - k \in Nat /\ d \in Nat BY <1>2 DEF D
  <2>2. ~(n - k < d) BY <1>3, <2>1 DEF OpToRel
  <2> QED BY <1>4, <2>1, <2>2
<1> QED BY <1>5

\* Where furi_event_loop_schedule_timer puts a timer: behind the last one that
\* expires no later.
LEMMA PlaceAt ==
  ASSUME NEW s \in Seq(Timer), NEW tm \in [Timer -> TimerState], NEW t \in Timer,
         Sorted(s, tm)
  PROVE  /\ Place(s, tm, t) \in 0 .. Len(s)
         /\ \A i \in 1 .. Len(s) :
              IF i =< Place(s, tm, t) THEN Remaining(tm[s[i]]) =< Remaining(tm[t])
                                      ELSE Remaining(tm[t]) =< Remaining(tm[s[i]])
<1> DEFINE n == Len(s)
           r(i) == Remaining(tm[s[i]])
           x == Remaining(tm[t])
           S == {i \in 1 .. n : x >= r(i)}
           p == Place(s, tm, t)
<1>1. n \in Nat /\ x \in Nat /\ \A i \in 1 .. n : r(i) \in Nat BY RemainingNat
<1>2. \A i, j \in 1 .. n : i < j => r(i) =< r(j) BY DEF Sorted
<1>3. p = IF S = {} THEN 0 ELSE Max(S) BY DEF Place
<1>4. S \subseteq 1 .. n OBVIOUS
<1> HIDE DEF r, x, p
<1>5. CASE S = {}
  <2>1. p = 0 BY <1>3, <1>5
  <2>2. \A i \in 1 .. n : ~(i =< 0) /\ x =< r(i) BY <1>1, <1>5
  <2> QED BY <1>1, <2>1, <2>2 DEF r, x, p
<1>6. CASE S # {}
  <2>1. \E m \in S : \A k \in S : m >= k
    <3> HIDE DEF S
    <3>1. PICK m \in S : \A k \in S : k =< m BY <1>1, <1>4, <1>6, LastPlace
    <3>2. \A k \in S : k \in Int BY <1>1, <1>4
    <3> QED BY <3>1, <3>2
  <2>2. p \in S /\ \A k \in S : p >= k
    <3>1. p = CHOOSE m \in S : \A k \in S : m >= k BY <1>3, <1>6 DEF Max
    <3> HIDE DEF S
    <3> QED BY <2>1, <3>1
  <2>3. p \in 1 .. n /\ x >= r(p) BY <2>2
  <2>4. ASSUME NEW i \in 1 .. n PROVE IF i =< p THEN r(i) =< x ELSE x =< r(i)
    <3>1. CASE i =< p
      <4>1. i = p \/ i < p BY <2>3, <3>1
      <4>2. r(i) =< r(p) BY <1>1, <1>2, <2>3, <4>1
      <4> QED BY <1>1, <2>3, <3>1, <4>2
    <3>2. CASE ~(i =< p)
      <4>1. i \notin S BY <2>2, <2>3, <3>2
      <4> QED BY <1>1, <3>2, <4>1
    <3> QED BY <3>1, <3>2
  <2> QED BY <1>1, <2>3, <2>4 DEF r, x, p
<1> QED BY <1>5, <1>6

\* The list with t at place p + 1.
Inserted(s, p, t) == SubSeq(s, 1, p) \o <<t>> \o SubSeq(s, p + 1, Len(s))

LEMMA InsertedAt ==
  ASSUME NEW s \in Seq(Timer), NEW t \in Timer, NEW p \in 0 .. Len(s)
  PROVE  /\ Inserted(s, p, t) \in Seq(Timer) /\ Len(Inserted(s, p, t)) = Len(s) + 1
         /\ Inserted(s, p, t)[p + 1] = t
         /\ \A i \in 1 .. p : Inserted(s, p, t)[i] = s[i]
         /\ \A i \in p + 1 .. Len(s) : Inserted(s, p, t)[i + 1] = s[i]
<1> DEFINE u == Inserted(s, p, t)
<1> DEFINE n == Len(s)
           l == SubSeq(s, 1, p)
           r == SubSeq(s, p + 1, n)
           m == l \o <<t>>
<1>0. n \in Nat /\ p \in Nat /\ p <= n OBVIOUS
<1>1. l \in Seq(Timer) /\ Len(l) = p /\ \A i \in 1 .. p : l[i] = s[i]
  <2>1. 1 \in 1 .. n + 1 /\ p \in 0 .. n /\ 1 =< p + 1 BY <1>0
  <2>2. /\ l \in Seq(Timer) /\ Len(l) = p - 1 + 1
        /\ \A i \in 1 .. p - 1 + 1 : l[i] = s[1 + i - 1]
    BY <2>1, Part
  <2>3. p - 1 + 1 = p /\ \A i \in 1 .. p : 1 + i - 1 = i BY <1>0
  <2> HIDE DEF l
  <2> QED BY <2>2, <2>3
<1>2. r \in Seq(Timer) /\ Len(r) = n - p /\ \A i \in 1 .. n - p : r[i] = s[p + i]
  <2>1. p + 1 \in 1 .. n + 1 /\ n \in 0 .. n /\ p + 1 =< n + 1 BY <1>0
  <2>2. /\ r \in Seq(Timer) /\ Len(r) = n - (p + 1) + 1
        /\ \A i \in 1 .. n - (p + 1) + 1 : r[i] = s[(p + 1) + i - 1]
    BY <2>1, Part
  <2>3. n - (p + 1) + 1 = n - p /\ \A i \in 1 .. n - p : (p + 1) + i - 1 = p + i BY <1>0
  <2> HIDE DEF r, n
  <2> QED BY <2>2, <2>3
<1> HIDE DEF l, r
<1>3. /\ m \in Seq(Timer) /\ Len(m) = p + 1 /\ m[p + 1] = t
      /\ \A i \in 1 .. p : m[i] = s[i]
  <2>1. m = Append(l, t) BY <1>1
  <2> HIDE DEF m
  <2> QED BY <1>0, <1>1, <2>1
<1>4. u = m \o r BY DEF l, r, Inserted
<1> HIDE DEF m, u
<1>5. /\ u \in Seq(Timer) /\ Len(u) = Len(m) + Len(r)
      /\ \A i \in 1 .. Len(m) + Len(r) : u[i] = IF i <= Len(m) THEN m[i] ELSE r[i - Len(m)]
  <2>1. m \in Seq(Timer) /\ r \in Seq(Timer) BY <1>2, <1>3
  <2>2. /\ m \o r \in Seq(Timer) /\ Len(m \o r) = Len(m) + Len(r)
        /\ \A i \in 1 .. Len(m) + Len(r) :
             (m \o r)[i] = IF i <= Len(m) THEN m[i] ELSE r[i - Len(m)]
    BY <2>1, ConcatProperties
  <2> QED BY <1>4, <2>2
<1>6. Len(u) = n + 1
  <2>1. Len(u) = Len(m) + Len(r) BY <1>5
  <2>2. (p + 1) + (n - p) = n + 1 BY <1>0
  <2> HIDE DEF n
  <2> QED BY <1>2, <1>3, <2>1, <2>2
<1>7. u[p + 1] = t
  <2>1. p + 1 \in 1 .. Len(m) + Len(r) /\ p + 1 <= Len(m) BY <1>0, <1>2, <1>3
  <2> QED BY <1>3, <1>5, <2>1
<1>8. ASSUME NEW i \in 1 .. p PROVE u[i] = s[i]
  <2>1. i \in 1 .. Len(m) + Len(r) /\ i <= Len(m) BY <1>0, <1>2, <1>3
  <2> QED BY <1>3, <1>5, <2>1
<1>9. ASSUME NEW i \in p + 1 .. n PROVE u[i + 1] = s[i]
  <2>1. /\ i + 1 \in 1 .. Len(m) + Len(r) /\ ~(i + 1 <= Len(m))
        /\ (i + 1) - Len(m) = i - p /\ i - p \in 1 .. n - p /\ p + (i - p) = i
    BY <1>0, <1>2, <1>3
  <2>2. u[i + 1] = r[i - p] BY <1>5, <2>1
  <2> QED BY <1>2, <2>1, <2>2
<1> QED BY <1>5, <1>6, <1>7, <1>8, <1>9 DEF u

\* furi_event_loop_schedule_timer keeps the list sorted.
LEMMA ScheduledSorted ==
  ASSUME NEW s \in Seq(Timer), NEW tm \in [Timer -> TimerState], NEW t \in Timer,
         Sorted(s, tm), t \notin In(s)
  PROVE  /\ Scheduled(s, tm, t) \in Seq(Timer)
         /\ In(Scheduled(s, tm, t)) = In(s) \cup {t}
         /\ Sorted(Scheduled(s, tm, t), tm)
<1>0. PICK u : u = Scheduled(s, tm, t) OBVIOUS
<1>1. PICK p \in 0 .. Len(s) :
        /\ u = Inserted(s, p, t)
        /\ \A i \in 1 .. Len(s) : IF i =< p THEN Remaining(tm[s[i]]) =< Remaining(tm[t])
                                            ELSE Remaining(tm[t]) =< Remaining(tm[s[i]])
  BY <1>0, PlaceAt DEF Scheduled, Inserted
<1> DEFINE n == Len(s)
<1>2. n \in Nat /\ p \in Nat /\ p <= n OBVIOUS
<1>3. /\ u \in Seq(Timer) /\ Len(u) = n + 1 /\ u[p + 1] = t
      /\ \A i \in 1 .. p : u[i] = s[i]
      /\ \A i \in p + 1 .. n : u[i + 1] = s[i]
  <2>1. /\ Inserted(s, p, t) \in Seq(Timer) /\ Len(Inserted(s, p, t)) = Len(s) + 1
        /\ Inserted(s, p, t)[p + 1] = t
        /\ \A i \in 1 .. p : Inserted(s, p, t)[i] = s[i]
        /\ \A i \in p + 1 .. Len(s) : Inserted(s, p, t)[i + 1] = s[i]
    BY InsertedAt, Zenon
  <2>2. u = Inserted(s, p, t) BY <1>1
  <2> QED BY <2>1, <2>2, Zenon
<1> HIDE DEF n
\* An element of the new list is t, or one of the old list on its side of t.
<1>4. ASSUME NEW i \in 1 .. n + 1
      PROVE  \/ i = p + 1 /\ u[i] = t
             \/ i =< p /\ i \in 1 .. n /\ u[i] = s[i]
             \/ i > p + 1 /\ i - 1 \in 1 .. n /\ u[i] = s[i - 1]
  <2>1. CASE i = p + 1 BY <1>3, <2>1
  <2>2. CASE i =< p BY <1>2, <1>3, <2>2
  <2>3. CASE i > p + 1
    <3>1. i - 1 \in p + 1 .. n /\ (i - 1) + 1 = i BY <1>2, <2>3
    <3>2. u[i] = s[i - 1] BY <1>3, <3>1
    <3> QED BY <1>2, <2>3, <3>1, <3>2
  <2> QED BY <1>2, <2>1, <2>2, <2>3
<1>5. \A i \in 1 .. n : s[i] # t BY DEF In, n
<1>6. In(u) \subseteq In(s) \cup {t} BY <1>3, <1>4 DEF In, n
<1>7. In(s) \cup {t} \subseteq In(u)
  <2>1. t \in In(u)
    <3>1. p + 1 \in 1 .. n + 1 BY <1>2
    <3> QED BY <1>3, <3>1 DEF In
  <2>2. ASSUME NEW i \in 1 .. n PROVE s[i] \in In(u)
    <3>1. CASE i =< p
      <4>1. i \in 1 .. n + 1 /\ i \in 1 .. p BY <1>2, <3>1
      <4> QED BY <1>3, <4>1 DEF In
    <3>2. CASE i > p
      <4>1. i + 1 \in 1 .. n + 1 /\ i \in p + 1 .. n BY <1>2, <3>2
      <4> QED BY <1>3, <4>1 DEF In
    <3> QED BY <1>2, <3>1, <3>2
  <2> QED BY <2>1, <2>2 DEF In, n
<1>8. ASSUME NEW i \in 1 .. n + 1, NEW j \in 1 .. n + 1, i < j
      PROVE  u[i] # u[j] /\ Remaining(tm[u[i]]) =< Remaining(tm[u[j]])
  <2>0. \A a, b \in 1 .. n : a < b => s[a] # s[b] /\ Remaining(tm[s[a]]) =< Remaining(tm[s[b]])
    BY DEF Sorted, n
  <2>1. \A a \in 1 .. n : IF a =< p THEN Remaining(tm[s[a]]) =< Remaining(tm[t])
                                    ELSE Remaining(tm[t]) =< Remaining(tm[s[a]])
    BY <1>1 DEF n
  <2>2. CASE i = p + 1 /\ u[i] = t
    <3>1. j - 1 \in 1 .. n /\ u[j] = s[j - 1] /\ ~(j - 1 =< p) BY <1>2, <1>4, <1>8, <2>2
    <3> QED BY <1>5, <2>1, <2>2, <3>1
  <2>3. CASE i =< p /\ i \in 1 .. n /\ u[i] = s[i]
    <3>1. CASE j = p + 1 /\ u[j] = t BY <1>5, <2>1, <2>3, <3>1
    <3>2. CASE j =< p /\ j \in 1 .. n /\ u[j] = s[j] BY <1>8, <2>0, <2>3, <3>2
    <3>3. CASE j > p + 1 /\ j - 1 \in 1 .. n /\ u[j] = s[j - 1]
      <4>1. i < j - 1 BY <1>2, <2>3, <3>3
      <4> QED BY <2>0, <2>3, <3>3, <4>1
    <3> QED BY <1>4, <3>1, <3>2, <3>3
  <2>4. CASE i > p + 1 /\ i - 1 \in 1 .. n /\ u[i] = s[i - 1]
    <3>1. j - 1 \in 1 .. n /\ u[j] = s[j - 1] /\ i - 1 < j - 1 BY <1>2, <1>4, <1>8, <2>4
    <3> QED BY <2>0, <2>4, <3>1
  <2> QED BY <1>4, <2>2, <2>3, <2>4
<1>9. Sorted(u, tm) BY <1>3, <1>8 DEF Sorted
<1> QED BY <1>0, <1>3, <1>6, <1>7, <1>9
-----------------------------------------------------------------------------
(* Items and levels                                                          *)

Items == ItemsOK /\ ItemsKept /\ LevelsKept

itemsVars == <<level, telling, subscribed, waiting, current>>

\* Steps that leave the items alone: pc may change, but not into or out of the
\* processing of an event.
LEMMA ItemsFrame ==
  ASSUME Items, UNCHANGED itemsVars, pc' \in LoopPc,
         pc' = pc \/ (pc \notin {"event", "done"} /\ pc' \notin {"event", "done"}),
         pc' = "freed" => subscribed = {}
  PROVE  Items'
<1>1. ItemsOK' BY DEF Items, ItemsOK, itemsVars
<1>2. ItemsKept' BY DEF Items, ItemsKept, itemsVars, Distinct, In
<1>3. LevelsKept' BY DEF Items, LevelsKept, itemsVars, In
<1> QED BY <1>1, <1>2, <1>3 DEF Items

LEMMA ItemMoves ==
  ASSUME current \in Item
  PROVE  /\ [current EXCEPT !.owned = FALSE] \in Item
         /\ [current EXCEPT !.owned = FALSE].object = current.object
         /\ ~[current EXCEPT !.owned = FALSE].owned
         /\ None \in Item /\ ~None.owned
         /\ \A o \in Object : /\ [object |-> o, owned |-> TRUE] \in Item
                              /\ [object |-> o, owned |-> TRUE].object = o
                              /\ [object |-> o, owned |-> TRUE].owned
  BY DEF Item, None

LEMMA SendItems ==
  ASSUME Items, NEW o \in Object, Send(o)
  PROVE  Items'
<1>0. level \in [Object -> Nat] /\ telling \in SUBSET Object BY DEF Items, ItemsOK
<1>1. /\ level' = [level EXCEPT ![o] = @ + 1] /\ telling' = telling \cup {o}
      /\ UNCHANGED <<pc, subscribed, waiting, current>>
  BY DEF Send, itemVars
<1>2. ItemsOK' BY <1>0, <1>1 DEF Items, ItemsOK
<1>3. ItemsKept' BY <1>1 DEF Items, ItemsKept
<1>4. \A p \in Object : p # o => level'[p] = level[p] BY <1>0, <1>1
<1>5. subscribed \subseteq Object BY DEF Items, ItemsOK
<1>6. LevelsKept' BY <1>1, <1>4, <1>5 DEF Items, LevelsKept
<1> QED BY <1>2, <1>3, <1>6 DEF Items

LEMMA LinkNotifyItems ==
  ASSUME Items, NEW o \in Object, LinkNotify(o)
  PROVE  Items'
<1>0. waiting \in Seq(Object) /\ telling \in SUBSET Object BY DEF Items, ItemsOK
<1>1. /\ telling' = telling \ {o} /\ UNCHANGED <<level, pc, subscribed, current>>
      /\ o \in subscribed => waiting' = Notified(o, waiting)
      /\ o \notin subscribed => waiting' = waiting
  BY DEF LinkNotify
<1>2. /\ waiting' \in Seq(Object) /\ Distinct(waiting')
      /\ In(waiting') = In(waiting) \cup (IF o \in subscribed THEN {o} ELSE {})
  <2>1. CASE o \in subscribed BY <1>0, <1>1, <2>1, NotifiedIn DEF Items, ItemsKept
  <2>2. CASE o \notin subscribed BY <1>0, <1>1, <2>2 DEF Items, ItemsKept
  <2> QED BY <2>1, <2>2
<1>3. ItemsOK' BY <1>0, <1>1, <1>2 DEF Items, ItemsOK
<1>4. ItemsKept' BY <1>1, <1>2 DEF Items, ItemsKept
<1>5. LevelsKept' BY <1>1, <1>2 DEF Items, LevelsKept
<1> QED BY <1>3, <1>4, <1>5 DEF Items

LEMMA SubscribeItems ==
  ASSUME Items, NEW o \in Object, Subscribe(o)
  PROVE  Items'
<1>0. waiting \in Seq(Object) /\ level \in [Object -> Nat] BY DEF Items, ItemsOK
<1>1. /\ subscribed' = subscribed \cup {o} /\ UNCHANGED <<level, telling, pc, current>>
      /\ pc # "freed"
      /\ o \notin Edge /\ level[o] > 0 => waiting' = Notified(o, waiting)
      /\ ~(o \notin Edge /\ level[o] > 0) => waiting' = waiting
  BY DEF Subscribe, queueVars, Call, Callback
<1>2. /\ waiting' \in Seq(Object) /\ Distinct(waiting')
      /\ In(waiting') = In(waiting) \cup (IF o \notin Edge /\ level[o] > 0 THEN {o} ELSE {})
  <2>1. CASE o \notin Edge /\ level[o] > 0 BY <1>0, <1>1, <2>1, NotifiedIn DEF Items, ItemsKept
  <2>2. CASE ~(o \notin Edge /\ level[o] > 0) BY <1>0, <1>1, <2>2 DEF Items, ItemsKept
  <2> QED BY <2>1, <2>2
<1>3. ItemsOK' BY <1>0, <1>1, <1>2 DEF Items, ItemsOK
<1>4. ItemsKept' BY <1>1, <1>2 DEF Items, ItemsKept
<1>5. LevelsKept' BY <1>1, <1>2 DEF Items, LevelsKept
<1> QED BY <1>3, <1>4, <1>5 DEF Items

LEMMA UnsubscribeItems ==
  ASSUME Items, NEW o \in Object, Unsubscribe(o)
  PROVE  Items'
<1>0. waiting \in Seq(Object) /\ current \in Item BY DEF Items, ItemsOK
<1>1. /\ subscribed' = subscribed \ {o} /\ UNCHANGED <<level, telling, pc>>
      /\ pc # "freed" /\ waiting' = Unlinked(waiting, o)
      /\ current.object = o => current' = [current EXCEPT !.owned = FALSE]
      /\ current.object # o => current' = current
  BY DEF Unsubscribe, queueVars, CallOrTeardown, Call, Callback, Unlink
<1>2. /\ waiting' \in Seq(Object) /\ Distinct(waiting') /\ o \notin In(waiting')
      /\ In(waiting') \subseteq In(waiting) /\ In(waiting) \ {o} \subseteq In(waiting')
  BY <1>0, <1>1, UnlinkedIn DEF Items, ItemsKept
<1>3. /\ current' \in Item /\ current'.object = current.object
      /\ current'.owned => current.owned /\ current.object # o
      /\ current.owned /\ current.object # o => current'.owned
  BY <1>0, <1>1, ItemMoves
<1>4. ItemsOK' BY <1>0, <1>1, <1>2, <1>3 DEF Items, ItemsOK
<1>5. ItemsKept' BY <1>1, <1>2, <1>3 DEF Items, ItemsKept
<1>6. LevelsKept' BY <1>1, <1>2, <1>3 DEF Items, LevelsKept
<1> QED BY <1>4, <1>5, <1>6 DEF Items

LEMMA TakeEventItems ==
  ASSUME Items, TakeEvent
  PROVE  Items'
<1>0. waiting \in Seq(Object) /\ current \in Item /\ level \in [Object -> Nat]
      /\ pc = "wait" /\ ~current.owned
  BY DEF Items, ItemsOK, ItemsKept, TakeEvent, Woken
<1>1. UNCHANGED <<level, telling, subscribed>> BY DEF TakeEvent, queueVars
<1>2. CASE waiting = <<>>
  <2>1. waiting' = waiting /\ pc' = pc /\ current' = current BY <1>2 DEF TakeEvent
  <2> QED BY <1>0, <1>1, <2>1, ItemsFrame DEF itemsVars, LoopPc
<1>3. CASE waiting # <<>>
  <2>0. PICK h : h = Head(waiting) OBVIOUS
  <2>1. /\ h \in Object /\ h \in subscribed /\ Tail(waiting) \in Seq(Object)
        /\ In(waiting) = In(Tail(waiting)) \cup {h} /\ Distinct(Tail(waiting))
    BY <1>0, <1>3, <2>0, TailIn DEF Items, ItemsKept
  <2>2. waiting' = Tail(waiting) BY <1>3 DEF TakeEvent
  <2>3. CASE h \notin Edge /\ level[h] = 0
    <3>1. pc' = pc /\ current' = current BY <1>3, <2>0, <2>3 DEF TakeEvent
    <3>2. ItemsOK' BY <1>1, <2>1, <2>2, <3>1 DEF Items, ItemsOK
    <3>3. ItemsKept' BY <1>1, <2>1, <2>2, <3>1 DEF Items, ItemsKept
    <3>4. LevelsKept' BY <1>1, <2>1, <2>2, <2>3, <3>1 DEF Items, LevelsKept
    <3> QED BY <3>2, <3>3, <3>4 DEF Items
  <2>4. CASE ~(h \notin Edge /\ level[h] = 0)
    <3>1. pc' = "event" /\ current' = [object |-> h, owned |-> TRUE]
      BY <1>3, <2>0, <2>4 DEF TakeEvent
    <3>2. current' \in Item /\ current'.object = h /\ current'.owned
      BY <1>0, <2>1, <3>1, ItemMoves
    <3>3. ItemsOK' BY <1>1, <2>1, <2>2, <3>1, <3>2 DEF Items, ItemsOK, LoopPc, Callback
    <3>4. ItemsKept' BY <1>1, <2>1, <2>2, <3>1, <3>2 DEF Items, ItemsKept
    <3>5. LevelsKept' BY <1>0, <1>1, <2>1, <2>2, <3>2 DEF Items, LevelsKept
    <3> QED BY <3>3, <3>4, <3>5 DEF Items
  <2> QED BY <2>3, <2>4
<1> QED BY <1>2, <1>3

LEMMA GetMessageItems ==
  ASSUME Items, GetMessage
  PROVE  Items'
<1>0. level \in [Object -> Nat] /\ pc = "event" /\ current.object \in Object
      /\ subscribed \subseteq Object
  BY DEF Items, ItemsOK, GetMessage
<1>1. /\ level[current.object] > 0 /\ level' = [level EXCEPT ![current.object] = @ - 1]
      /\ pc' = "done" /\ UNCHANGED <<telling, subscribed, waiting, current>>
  BY DEF GetMessage, itemVars
<1>2. level' \in [Object -> Nat] /\ \A o \in Object : level'[o] > 0 => level[o] > 0
  BY <1>0, <1>1
<1>3. ItemsOK' BY <1>0, <1>1, <1>2 DEF Items, ItemsOK, LoopPc
<1>4. ItemsKept' BY <1>0, <1>1 DEF Items, ItemsKept
<1>5. LevelsKept' BY <1>0, <1>1, <1>2 DEF Items, LevelsKept
<1> QED BY <1>3, <1>4, <1>5 DEF Items

LEMMA EventDoneItems ==
  ASSUME Items, EventDone
  PROVE  Items'
<1>0. /\ waiting \in Seq(Object) /\ current \in Item /\ pc \in {"event", "done"}
      /\ level \in [Object -> Nat] /\ current.object \in Object
  BY DEF Items, ItemsOK, EventDone
<1>1. PICK o : o = current.object OBVIOUS
<1>2. /\ UNCHANGED <<level, telling, subscribed>> /\ current' = None /\ pc' = "wait"
      /\ waiting' = IF current.owned /\ o \notin Edge /\ level[o] > 0
                    THEN Notified(o, waiting) ELSE waiting
  BY <1>1 DEF EventDone, queueVars, Incomplete
<1>3. current' \in Item /\ ~current'.owned BY <1>0, <1>2, ItemMoves
<1>4. CASE current.owned /\ o \notin Edge /\ level[o] > 0
  <2>1. /\ waiting' \in Seq(Object) /\ Distinct(waiting') /\ In(waiting') = In(waiting) \cup {o}
    BY <1>0, <1>1, <1>2, <1>4, NotifiedIn DEF Items, ItemsKept
  <2>2. o \in subscribed BY <1>1, <1>4 DEF Items, ItemsKept
  <2>3. ItemsOK' BY <1>2, <1>3, <2>1 DEF Items, ItemsOK, LoopPc
  <2>4. ItemsKept' BY <1>2, <1>3, <2>1, <2>2 DEF Items, ItemsKept
  <2>5. LevelsKept' BY <1>1, <1>2, <2>1 DEF Items, LevelsKept
  <2> QED BY <2>3, <2>4, <2>5 DEF Items
<1>5. CASE ~(current.owned /\ o \notin Edge /\ level[o] > 0)
  <2>1. waiting' = waiting BY <1>2, <1>5
  <2>2. ItemsOK' BY <1>2, <1>3, <2>1 DEF Items, ItemsOK, LoopPc
  <2>3. ItemsKept' BY <1>2, <1>3, <2>1 DEF Items, ItemsKept
  <2>4. LevelsKept' BY <1>1, <1>2, <1>5, <2>1 DEF Items, LevelsKept
  <2> QED BY <2>2, <2>3, <2>4 DEF Items
<1> QED BY <1>4, <1>5

\* Steps that change only flags, timers and what is heard.
Aside ==
    \/ SetThreadFlag \/ StopSignal \/ Elapse
    \/ \E t \in Timer : TimerStart(t) \/ TimerRestart(t) \/ TimerStop(t) \/ TimerFree(t)
    \/ Stop \/ (\E h \in BOOLEAN : HearThreadFlags(h))
    \/ ServeTimerRequest \/ ServeAtFree

LEMMA AsideSteps == Aside => UNCHANGED itemsVars /\ UNCHANGED <<pc, pending, got>>
<1>1. CASE SetThreadFlag \/ StopSignal \/ Elapse
  BY <1>1, Zenon DEF SetThreadFlag, StopSignal, Elapse, itemsVars, queueVars, itemVars
<1>2. CASE \E t \in Timer : TimerStart(t) \/ TimerRestart(t) \/ TimerStop(t) \/ TimerFree(t)
  BY <1>2, Zenon DEF TimerStart, TimerRestart, TimerStop, TimerFree, Enqueue, itemsVars,
                     queueVars, itemVars
<1>3. CASE Stop \/ \E h \in BOOLEAN : HearThreadFlags(h)
  BY <1>3, Zenon DEF Stop, HearThreadFlags, itemsVars, queueVars, itemVars
<1>4. CASE ServeTimerRequest \/ ServeAtFree
  BY <1>4, Zenon DEF ServeTimerRequest, ServeAtFree, itemsVars, queueVars, itemVars
<1> QED BY <1>1, <1>2, <1>3, <1>4 DEF Aside

LEMMA LoopSteps ==
  ASSUME \/ Run \/ LoopStops \/ TakeOnce \/ TakeTimers \/ TimersDone \/ TakePending
         \/ PendingDone \/ TakeThreadFlag \/ TimerExpires \/ Tick \/ CallbackDone \/ Free
  PROVE  /\ UNCHANGED itemsVars
         /\ pc \notin {"event", "done"} /\ pc' \notin {"event", "done"} /\ pc' \in LoopPc
         /\ pc' = "freed" => subscribed = {} /\ Free
<1>1. CASE Run \/ LoopStops \/ TakeOnce \/ TakeTimers \/ TimersDone
  BY <1>1 DEF Run, LoopStops, TakeOnce, TakeTimers, TimersDone, Woken, itemsVars, queueVars,
              itemVars, LoopPc
<1>2. CASE TakePending \/ PendingDone \/ TimerExpires \/ Tick \/ CallbackDone
  BY <1>2 DEF TakePending, PendingDone, TimerExpires, Tick, CallbackDone, Woken, itemsVars,
              queueVars, itemVars, LoopPc, Callback
<1>3. CASE TakeThreadFlag
  <2>1. UNCHANGED itemsVars /\ pc = "wait" /\ pc' \in {"threadflag", "wait"}
    BY <1>3 DEF TakeThreadFlag, Woken, itemsVars, queueVars, itemVars
  <2> QED BY <2>1 DEF LoopPc, Callback
<1>4. CASE Free
  <2>1. UNCHANGED itemsVars /\ pc = "stopped" /\ pc' = "freed" /\ subscribed = {}
    BY <1>4, Zenon DEF Free, itemsVars, queueVars, itemVars
  <2> QED BY <1>4, <2>1 DEF LoopPc
<1> QED BY <1>1, <1>2, <1>3, <1>4

LEMMA NextItems == Items /\ [Next]_vars => Items'
<1> SUFFICES ASSUME Items, [Next]_vars PROVE Items' OBVIOUS
<1>0. pc \in LoopPc /\ (pc = "freed" => subscribed = {}) BY DEF Items, ItemsOK, ItemsKept
<1>1. CASE UNCHANGED vars
  <2>1. UNCHANGED itemsVars /\ pc' = pc BY <1>1 DEF vars, itemsVars
  <2> QED BY <1>0, <2>1, ItemsFrame
<1>2. CASE Aside BY <1>0, <1>2, AsideSteps, ItemsFrame
<1>3. CASE PendCallback
  <2>1. UNCHANGED itemsVars /\ pc' = pc BY <1>3 DEF PendCallback, itemsVars, queueVars, itemVars
  <2> QED BY <1>0, <2>1, ItemsFrame
<1>4. CASE \/ Run \/ LoopStops \/ TakeOnce \/ TakeTimers \/ TimersDone \/ TakePending
           \/ PendingDone \/ TakeThreadFlag \/ TimerExpires \/ Tick \/ CallbackDone \/ Free
  BY <1>4, LoopSteps, ItemsFrame
<1> QED BY <1>1, <1>2, <1>3, <1>4, SendItems, LinkNotifyItems, SubscribeItems, UnsubscribeItems,
           TakeEventItems, GetMessageItems, EventDoneItems
    DEF Next, Others, Api, Loop, Aside
-----------------------------------------------------------------------------
(* Flags                                                                     *)

\* New work comes with its flag.
LEMMA FlagsGrow ==
  ASSUME Flagged, UNCHANGED <<pc, got>>, flags \subseteq flags',
         waiting' # <<>> => waiting # <<>> \/ "Event" \in flags',
         timerQueue' # <<>> => timerQueue # <<>> \/ "Timer" \in flags',
         pending' = pending \/ (pending' = pending + 1 /\ "Pending" \in flags')
  PROVE  Flagged'
  BY DEF Flagged

LEMMA OthersFlagged ==
  ASSUME Flagged, Others
  PROVE  Flagged'
<1>1. UNCHANGED <<pc, got, timerQueue, pending>> /\ flags \subseteq flags'
      /\ (waiting' # <<>> => waiting # <<>> \/ "Event" \in flags')
  <2>1. CASE \E o \in Object : Send(o) \/ LinkNotify(o)
    BY <2>1 DEF Send, LinkNotify, itemVars, timerVars
  <2>2. CASE SetThreadFlag \/ StopSignal \/ Elapse
    <3>1. UNCHANGED <<pc, got, timerQueue, pending, waiting>>
          /\ (flags' = flags \cup {"ThreadFlag"} \/ flags' = flags \cup {"Stop"} \/ flags' = flags)
      BY <2>2, Zenon DEF SetThreadFlag, StopSignal, Elapse, itemVars, timerVars
    <3> QED BY <3>1
  <2> QED BY <2>1, <2>2 DEF Others
<1> QED BY <1>1, FlagsGrow

LEMMA ApiFlagged ==
  ASSUME Items, Flagged, Api
  PROVE  Flagged'
<1>1. CASE \E o \in Object : Subscribe(o)
  <2>1. UNCHANGED <<pc, got, timerQueue, pending>> /\ flags \subseteq flags'
        /\ (waiting' # <<>> => waiting # <<>> \/ "Event" \in flags')
    BY <1>1 DEF Subscribe, timerVars
  <2> QED BY <2>1, FlagsGrow
<1>2. CASE \E o \in Object : Unsubscribe(o)
  <2>1. PICK o \in Object : Unsubscribe(o) BY <1>2
  <2>2. UNCHANGED <<pc, got, flags, timerQueue, pending>> /\ waiting' = Unlinked(waiting, o)
    BY <2>1 DEF Unsubscribe, Unlink, timerVars
  <2>3. waiting = <<>> => waiting' = waiting
    <3>1. waiting = <<>> => o \notin In(waiting) BY DEF In
    <3>2. waiting \in Seq(Object) BY DEF Items, ItemsOK
    <3> QED BY <2>2, <3>1, <3>2, UnlinkedAt
  <2> QED BY <2>2, <2>3, FlagsGrow
<1>3. CASE \E t \in Timer : TimerStart(t) \/ TimerRestart(t) \/ TimerStop(t) \/ TimerFree(t)
  <2>1. PICK t \in Timer : \E r, i : Enqueue(t, r, i)
    BY <1>3, Zenon DEF TimerStart, TimerRestart, TimerStop, TimerFree
  <2>2. UNCHANGED <<pc, got, waiting, pending>> /\ flags' = flags \cup {"Timer"}
    BY <2>1, Zenon DEF Enqueue, itemVars
  <2> QED BY <2>2, FlagsGrow
<1>4. CASE PendCallback
  <2>1. UNCHANGED <<pc, got, waiting, timerQueue>> /\ flags' = flags \cup {"Pending"}
        /\ pending' = pending + 1
    BY <1>4 DEF PendCallback, itemVars, timerVars
  <2> QED BY <2>1, FlagsGrow
<1>5. CASE Stop \/ (\E h \in BOOLEAN : HearThreadFlags(h))
  <2>1. UNCHANGED <<pc, got, waiting, timerQueue, pending>>
        /\ (flags' = flags \cup {"Stop"} \/ flags' = flags)
    BY <1>5, Zenon DEF Stop, HearThreadFlags, itemVars, timerVars
  <2> QED BY <2>1, FlagsGrow
<1> QED BY <1>1, <1>2, <1>3, <1>4, <1>5, Zenon DEF Api

LEMMA TakesFlagged ==
  ASSUME Flagged, pc = "wait",
         TakeEvent \/ TakeTimers \/ TakePending \/ TakeThreadFlag \/ LoopStops \/ TakeOnce
  PROVE  Flagged'
<1>0. /\ got = {} /\ pending \in Nat /\ (waiting # <<>> => "Event" \in flags)
      /\ (timerQueue # <<>> => "Timer" \in flags) /\ (pending > 0 => "Pending" \in flags)
  BY DEF Flagged
<1>1. CASE TakeEvent
  <2>1. UNCHANGED <<timerQueue, pending>> BY <1>1 DEF TakeEvent, timerVars
  <2>2. \/ /\ UNCHANGED <<got, pc>>
           /\ flags' = (flags \ {"Event"}) \cup (IF waiting' # <<>> THEN {"Event"} ELSE {})
        \/ got' = flags \ {"Event"} /\ flags' = {} /\ pc' = "event"
    BY <1>1 DEF TakeEvent, Synced
  <2> QED BY <1>0, <2>1, <2>2 DEF Flagged
<1>2. CASE TakeTimers
  <2>1. /\ UNCHANGED <<timerQueue, pending, waiting>> /\ "Event" \notin flags
        /\ got' = flags \ {"Timer"} /\ flags' = {} /\ pc' = "timers"
    BY <1>2 DEF TakeTimers, timerVars, itemVars
  <2> QED BY <1>0, <2>1 DEF Flagged
<1>3. CASE TakePending
  <2>1. /\ UNCHANGED <<timerQueue, pending, waiting, got>>
        /\ "Event" \notin flags /\ "Timer" \notin flags
        /\ pc' = IF pending > 0 THEN "pending" ELSE "wait"
    BY <1>3 DEF TakePending, timerVars, itemVars
  <2> QED BY <1>0, <2>1 DEF Flagged
<1>4. CASE TakeThreadFlag
  <2>1. /\ UNCHANGED <<timerQueue, pending, waiting, got>> /\ flags = {"ThreadFlag"}
        /\ pc' \in {"threadflag", "wait"}
    BY <1>4 DEF TakeThreadFlag, timerVars, itemVars
  <2> QED BY <1>0, <2>1 DEF Flagged
<1>5. CASE LoopStops \/ TakeOnce
  <2>1. UNCHANGED <<pending, got>> /\ pc' \in {"stopped", "crashed"}
    BY <1>5 DEF LoopStops, TakeOnce
  <2> QED BY <1>0, <2>1 DEF Flagged
<1> QED BY <1>1, <1>2, <1>3, <1>4, <1>5

LEMMA LoopFlagged ==
  ASSUME Flagged, Loop
  PROVE  Flagged'
<1>1. CASE TakeEvent \/ TakeTimers \/ TakePending \/ TakeThreadFlag \/ LoopStops \/ TakeOnce
  <2>1. pc = "wait"
    BY <1>1 DEF TakeEvent, TakeTimers, TakePending, TakeThreadFlag, LoopStops, TakeOnce, Woken
  <2> QED BY <1>1, <2>1, TakesFlagged
<1>2. CASE Run
  <2>1. UNCHANGED <<flags, got, waiting, timerQueue, pending>> /\ pc = "setup" /\ pc' = "wait"
    BY <1>2 DEF Run, itemVars, timerVars
  <2> QED BY <2>1 DEF Flagged
<1>3. CASE GetMessage
  <2>1. UNCHANGED <<flags, got, waiting, timerQueue, pending>> /\ pc = "event" /\ pc' = "done"
    BY <1>3 DEF GetMessage, itemVars, timerVars
  <2> QED BY <2>1 DEF Flagged
<1>4. CASE EventDone
  <2>1. /\ UNCHANGED <<timerQueue, pending>> /\ pc \in {"event", "done"} /\ pc' = "wait"
        /\ got' = {}
        /\ flags' = flags \cup (IF waiting' # <<>> THEN {"Event"} ELSE {}) \cup got
    BY <1>4 DEF EventDone, Synced, Restored, timerVars
  <2> QED BY <2>1 DEF Flagged
<1>5. CASE ServeTimerRequest \/ ServeAtFree
  <2>1. UNCHANGED <<pc, got, flags, waiting, pending>> /\ timerQueue # <<>>
    BY <1>5, Zenon DEF ServeTimerRequest, ServeAtFree, itemVars
  <2> QED BY <2>1, FlagsGrow
<1>6. CASE TimersDone
  <2>1. /\ UNCHANGED <<waiting, timerQueue, pending>> /\ pc = "timers" /\ timerQueue = <<>>
        /\ flags' = flags \cup got /\ got' = {} /\ pc' = "wait"
    BY <1>6 DEF TimersDone, Restored, itemVars, timerVars
  <2> QED BY <2>1 DEF Flagged
<1>7. CASE PendingDone
  <2>1. /\ UNCHANGED <<waiting, timerQueue, flags, got>> /\ pc = "pending"
        /\ pending' = pending - 1 /\ pc' = IF pending > 1 THEN "pending" ELSE "wait"
    BY <1>7 DEF PendingDone, itemVars, timerVars
  <2> QED BY <2>1 DEF Flagged
<1>8. CASE TimerExpires \/ Tick
  <2>1. /\ UNCHANGED <<waiting, timerQueue, pending, got>> /\ pc = "wait" /\ flags = {}
        /\ pc' \in {"expired", "tick"}
    BY <1>8 DEF TimerExpires, Tick, itemVars, timerVars
  <2> QED BY <2>1 DEF Flagged
<1>9. CASE CallbackDone
  <2>1. /\ UNCHANGED <<waiting, timerQueue, pending, got, flags>>
        /\ pc \in {"threadflag", "expired", "tick"} /\ pc' = "wait"
    BY <1>9 DEF CallbackDone, itemVars
  <2> QED BY <2>1 DEF Flagged
<1>10. CASE Free
  <2>1. pending' = 0 /\ got' = got /\ pc = "stopped" /\ pc' = "freed"
    BY <1>10, Zenon DEF Free
  <2> QED BY <2>1 DEF Flagged
<1> QED BY <1>1, <1>2, <1>3, <1>4, <1>5, <1>6, <1>7, <1>8, <1>9, <1>10 DEF Loop

LEMMA NextFlagged == Items /\ Flagged /\ [Next]_vars => Flagged'
<1> SUFFICES ASSUME Items, Flagged, [Next]_vars PROVE Flagged' OBVIOUS
<1>1. CASE UNCHANGED vars
  <2>1. UNCHANGED <<pc, got, flags, waiting, timerQueue, pending>> BY <1>1 DEF vars
  <2> QED BY <2>1, FlagsGrow
<1> QED BY <1>1, OthersFlagged, ApiFlagged, LoopFlagged DEF Next
-----------------------------------------------------------------------------
(* Timers                                                                    *)

Timers == TimersOK /\ Requested /\ Listed

LEMMA TimersFrame ==
  ASSUME Timers, UNCHANGED <<timer, timerList, timerQueue>>
  PROVE  Timers'
<1>1. TimersOK' BY DEF Timers, TimersOK
<1>2. Requested' BY DEF Timers, Requested, In
<1>3. Listed' BY DEF Timers, Listed, In, Sorted, Remaining
<1> QED BY <1>1, <1>2, <1>3 DEF Timers

\* A tick for a timer that runs: the time left goes down to zero and stays.
LEMMA ElapsedRecord ==
  ASSUME NEW r \in TimerState
  PROVE  /\ [r EXCEPT !.elapsed = @ + 1] \in TimerState
         /\ [r EXCEPT !.elapsed = @ + 1].request = r.request
         /\ [r EXCEPT !.elapsed = @ + 1].next = r.next
         /\ [r EXCEPT !.elapsed = @ + 1].interval = r.interval
         /\ [r EXCEPT !.elapsed = @ + 1].alive = r.alive
         /\ [r EXCEPT !.elapsed = @ + 1].active = r.active
         /\ Remaining([r EXCEPT !.elapsed = @ + 1]) =
              IF Remaining(r) = 0 THEN 0 ELSE Remaining(r) - 1
  BY DEF TimerState, Remaining

LEMMA ElapseTimers ==
  ASSUME Timers, Elapse
  PROVE  Timers'
<1>0. timer \in [Timer -> TimerState] /\ timerList \in Seq(Timer) BY DEF Timers, TimersOK
<1>1. /\ timer' = [t \in Timer |-> IF timer[t].active
                                   THEN [timer[t] EXCEPT !.elapsed = @ + 1] ELSE timer[t]]
      /\ UNCHANGED <<timerList, timerQueue>>
  BY DEF Elapse
<1>2. ASSUME NEW t \in Timer
      PROVE  /\ timer'[t] \in TimerState
             /\ timer'[t].request = timer[t].request /\ timer'[t].next = timer[t].next
             /\ timer'[t].interval = timer[t].interval
             /\ timer'[t].alive = timer[t].alive /\ timer'[t].active = timer[t].active
             /\ timer[t].active =>
                  Remaining(timer'[t]) = IF Remaining(timer[t]) = 0 THEN 0
                                         ELSE Remaining(timer[t]) - 1
  <2>1. CASE timer[t].active
    <3>1. timer'[t] = [timer[t] EXCEPT !.elapsed = @ + 1] BY <1>1, <2>1
    <3>2. timer[t] \in TimerState BY <1>0
    <3> QED BY <3>1, <3>2, ElapsedRecord
  <2>2. CASE ~timer[t].active
    <3>1. timer'[t] = timer[t] BY <1>1, <2>2
    <3> QED BY <1>0, <2>2, <3>1
  <2> QED BY <2>1, <2>2
<1>3. timer' \in [Timer -> TimerState] BY <1>1, <1>2
<1>4. TimersOK' BY <1>1, <1>2, <1>3 DEF Timers, TimersOK
<1>5. Requested' BY <1>1, <1>2 DEF Timers, Requested
<1>6. Sorted(timerList, timer')
  <2>1. ASSUME NEW i \in 1 .. Len(timerList)
        PROVE  /\ Remaining(timer[timerList[i]]) \in Nat
               /\ Remaining(timer'[timerList[i]]) =
                    IF Remaining(timer[timerList[i]]) = 0 THEN 0
                    ELSE Remaining(timer[timerList[i]]) - 1
    <3>1. PICK t \in Timer : t = timerList[i] BY <1>0
    <3>2. timer[t].active /\ timer[t] \in TimerState BY <1>0, <3>1 DEF Timers, Listed, In
    <3> QED BY <1>2, <3>1, <3>2, RemainingNat
  <2>2. ASSUME NEW i \in 1 .. Len(timerList), NEW j \in 1 .. Len(timerList), i < j
        PROVE  /\ timerList[i] # timerList[j]
               /\ Remaining(timer'[timerList[i]]) =< Remaining(timer'[timerList[j]])
    <3>1. /\ timerList[i] # timerList[j]
          /\ Remaining(timer[timerList[i]]) =< Remaining(timer[timerList[j]])
      BY <2>2 DEF Timers, Listed, Sorted
    <3> QED BY <2>1, <3>1
  <2> QED BY <2>2 DEF Sorted
<1>7. Listed' BY <1>1, <1>2, <1>6 DEF Timers, Listed
<1> QED BY <1>4, <1>5, <1>7 DEF Timers

LEMMA EnqueueTimers ==
  ASSUME Timers, NEW t \in Timer, NEW r \in {"start", "stop", "free"}, NEW i \in Nat,
         r = "start" => i > 0, Enqueue(t, r, i)
  PROVE  Timers'
<1>0. /\ timer \in [Timer -> TimerState] /\ timerList \in Seq(Timer)
      /\ timerQueue \in Seq(Timer)
  BY DEF Timers, TimersOK
<1>1. /\ timer' = [timer EXCEPT ![t].request = r, ![t].next = i]
      /\ timerQueue' = Append(Unlinked(timerQueue, t), t) /\ timerList' = timerList
  BY DEF Enqueue
<1>2. /\ timer' \in [Timer -> TimerState]
      /\ timer'[t].request = r /\ timer'[t].next = i
      /\ timer'[t].interval = timer[t].interval /\ timer'[t].elapsed = timer[t].elapsed
      /\ timer'[t].alive = timer[t].alive /\ timer'[t].active = timer[t].active
      /\ \A u \in Timer : u # t => timer'[u] = timer[u]
  BY <1>0, <1>1 DEF TimerState
<1>3. timerQueue' \in Seq(Timer) /\ In(timerQueue) \cup {t} \subseteq In(timerQueue')
  <2>1. PICK q : q = Unlinked(timerQueue, t) OBVIOUS
  <2>2. q \in Seq(Timer) /\ In(timerQueue) \ {t} \subseteq In(q) BY <1>0, <2>1, UnlinkedIn
  <2>3. timerQueue' = Append(q, t) BY <1>1, <2>1
  <2> QED BY <2>2, <2>3, AppendIn
<1>4. TimersOK' BY <1>0, <1>1, <1>2, <1>3 DEF Timers, TimersOK
<1>5. Requested' BY <1>2, <1>3 DEF Timers, Requested
<1>6. \A u \in Timer : Remaining(timer'[u]) = Remaining(timer[u]) BY <1>2 DEF Remaining
<1>7. Sorted(timerList, timer')
  <2>1. \A k \in 1 .. Len(timerList) :
          Remaining(timer'[timerList[k]]) = Remaining(timer[timerList[k]])
    BY <1>0, <1>6
  <2> QED BY <2>1, SameSorted DEF Timers, Listed
<1>8. Listed' BY <1>1, <1>2, <1>7 DEF Timers, Listed
<1> QED BY <1>4, <1>5, <1>8 DEF Timers

\* What serving a request leaves in a timer.
LEMMA AnsweredRecord ==
  ASSUME NEW x \in TimerState
  PROVE  /\ Answered(x) \in TimerState
         /\ Answered(x).request = "none"
         /\ Answered(x).active <=> x.request = "start"
         /\ Answered(x).alive <=> x.request # "free"
         /\ x.request = "start" => Answered(x).interval = x.next
<1>1. PICK b \in BOOLEAN : b = (x.request = "start") OBVIOUS
<1>2. PICK c \in BOOLEAN : c = (x.request # "free") OBVIOUS
<1>3. PICK n : n = IF x.request = "start" THEN x.next ELSE x.interval OBVIOUS
<1>4. n \in Nat BY <1>3 DEF TimerState
<1>5. Answered(x) = [x EXCEPT !.active = b, !.alive = c, !.request = "none",
                              !.elapsed = 0, !.interval = n]
  BY <1>1, <1>2, <1>3 DEF Answered
<1>6. PICK y : y = Answered(x) OBVIOUS
<1>7. /\ y \in TimerState /\ y.request = "none"
      /\ y.active = b /\ y.alive = c /\ y.interval = n
  <2>1. y = [x EXCEPT !.active = b, !.alive = c, !.request = "none",
                      !.elapsed = 0, !.interval = n]
    BY <1>5, <1>6, Zenon
  <2> QED BY <1>4, <2>1 DEF TimerState
<1>8. /\ (y.active <=> x.request = "start") /\ (y.alive <=> x.request # "free")
      /\ x.request = "start" => y.interval = x.next
  BY <1>1, <1>2, <1>3, <1>7
<1> QED BY <1>6, <1>7, <1>8, Zenon

LEMMA ServedTimers ==
  ASSUME Timers, timerQueue # <<>>, Served(Head(timerQueue))
  PROVE  Timers'
<1>0. /\ timer \in [Timer -> TimerState] /\ timerList \in Seq(Timer)
      /\ timerQueue \in Seq(Timer) /\ Sorted(timerList, timer)
  BY DEF Timers, TimersOK, Listed
<1>1. PICK t : t = Head(timerQueue) OBVIOUS
<1>2. t \in Timer /\ timerQueue' \in Seq(Timer) /\ In(timerQueue) = In(timerQueue') \cup {t}
  BY <1>0, <1>1, TailIn DEF Served
<1>3. PICK r : r = timer[t].request OBVIOUS
<1>4. PICK list : list = Unlinked(timerList, t) OBVIOUS
<1>5. /\ timer' = [timer EXCEPT ![t] = Answered(timer[t])]
      /\ timerList' = IF r = "start" THEN Scheduled(list, timer', t) ELSE list
  BY <1>1, <1>3, <1>4 DEF Served
<1>6. /\ timer' \in [Timer -> TimerState]
      /\ timer'[t].request = "none"
      /\ timer'[t].active <=> r = "start"
      /\ timer'[t].alive <=> r # "free"
      /\ r = "start" => timer'[t].interval = timer[t].next
      /\ \A u \in Timer : u # t => timer'[u] = timer[u]
  <2>1. timer[t] \in TimerState BY <1>0, <1>2
  <2>2. /\ timer'[t] = Answered(timer[t])
        /\ \A u \in Timer : u # t => timer'[u] = timer[u]
    BY <1>0, <1>2, <1>5
  <2>3. timer' \in [Timer -> TimerState] BY <1>0, <1>5, <2>1, AnsweredRecord
  <2> QED BY <1>3, <2>1, <2>2, <2>3, AnsweredRecord
<1>7. /\ list \in Seq(Timer) /\ t \notin In(list) /\ In(list) = In(timerList) \ {t}
      /\ Sorted(list, timer)
  <2>1. Distinct(timerList) BY <1>0, SortedDistinct
  <2>2. /\ list \in Seq(Timer) /\ t \notin In(list)
        /\ In(list) \subseteq In(timerList) /\ In(timerList) \ {t} \subseteq In(list)
    BY <1>0, <1>4, <2>1, UnlinkedIn
  <2>3. Sorted(list, timer) BY <1>0, <1>4, UnlinkedSorted
  <2> QED BY <2>2, <2>3
<1>8. Sorted(list, timer')
  <2>1. ASSUME NEW k \in 1 .. Len(list)
        PROVE  Remaining(timer'[list[k]]) = Remaining(timer[list[k]])
    <3>1. list[k] \in Timer /\ list[k] # t BY <1>7 DEF In
    <3> QED BY <1>6, <3>1
  <2> QED BY <1>7, <2>1, SameSorted
<1>9. /\ timerList' \in Seq(Timer) /\ Sorted(timerList', timer')
      /\ In(timerList') = (In(timerList) \ {t}) \cup (IF r = "start" THEN {t} ELSE {})
  <2>1. CASE r = "start"
    <3>1. timerList' = Scheduled(list, timer', t) BY <1>5, <2>1
    <3> QED BY <1>2, <1>6, <1>7, <1>8, <2>1, <3>1, ScheduledSorted
  <2>2. CASE r # "start"
    <3>1. timerList' = list BY <1>5, <2>2
    <3> QED BY <1>7, <1>8, <2>2, <3>1
  <2> QED BY <2>1, <2>2
<1>10. TimersOK'
  <2>1. ASSUME NEW u \in Timer
        PROVE  /\ timer'[u].request = "start" => timer'[u].next > 0
               /\ timer'[u].active => timer'[u].interval > 0
    <3>1. CASE u = t BY <1>3, <1>6, <3>1 DEF Timers, TimersOK
    <3>2. CASE u # t BY <1>6, <3>2 DEF Timers, TimersOK
    <3> QED BY <3>1, <3>2
  <2> QED BY <1>2, <1>6, <1>9, <2>1 DEF TimersOK
<1>11. Requested'
  <2>1. ASSUME NEW u \in Timer, timer'[u].request # "none" PROVE u \in In(timerQueue')
    <3>1. u # t /\ timer[u].request # "none" BY <1>6, <2>1
    <3> QED BY <1>2, <3>1 DEF Timers, Requested
  <2> QED BY <2>1 DEF Requested
<1>12. Listed'
  <2>1. ASSUME NEW u \in Timer
        PROVE  (timer'[u].alive /\ timer'[u].active) <=> u \in In(timerList')
    <3>1. CASE u = t BY <1>6, <1>9, <3>1
    <3>2. CASE u # t
      <4>1. (timer[u].alive /\ timer[u].active) <=> u \in In(timerList) BY DEF Timers, Listed
      <4> QED BY <1>6, <1>9, <3>2, <4>1
    <3> QED BY <3>1, <3>2
  <2> QED BY <1>9, <2>1 DEF Listed
<1> QED BY <1>10, <1>11, <1>12 DEF Timers

LEMMA Modulo == \A a, b \in Nat : b > 0 => a % b \in Nat
  OBVIOUS

LEMMA ExpiresTimers ==
  ASSUME Timers, TimerExpires
  PROVE  Timers'
<1>0. /\ timer \in [Timer -> TimerState] /\ timerList \in Seq(Timer)
      /\ timerQueue \in Seq(Timer) /\ Sorted(timerList, timer) /\ timerList # <<>>
  BY DEF Timers, TimersOK, Listed, TimerExpires, FrontExpired
<1>1. PICK t : t = Head(timerList) OBVIOUS
<1>2. PICK rest : rest = Tail(timerList) OBVIOUS
<1>3. /\ t \in Timer /\ t \in In(timerList) /\ rest \in Seq(Timer)
      /\ In(timerList) = In(rest) \cup {t} /\ t \notin In(rest) /\ Sorted(rest, timer)
  BY <1>0, <1>1, <1>2, TailIn, TailSorted, SortedDistinct
<1>4. timer[t].alive /\ timer[t].active /\ timer[t].interval \in Nat /\ timer[t].interval > 0
      /\ timer[t].elapsed \in Nat /\ timer[t] \in TimerState
  <2>1. timer[t].alive /\ timer[t].active BY <1>3 DEF Timers, Listed
  <2>2. timer[t] \in TimerState BY <1>0, <1>3
  <2> QED BY <1>3, <2>1, <2>2 DEF Timers, TimersOK, TimerState
<1>5. timerQueue' = timerQueue BY DEF TimerExpires
\* What both kinds of timer need of their step.
<1>6. ASSUME /\ timer' \in [Timer -> TimerState] /\ timerList' \in Seq(Timer)
             /\ \A u \in Timer : u # t => timer'[u] = timer[u]
             /\ timer'[t].request = timer[t].request /\ timer'[t].next = timer[t].next
             /\ timer'[t].active => timer'[t].interval > 0
             /\ (timer'[t].alive /\ timer'[t].active) <=> t \in In(timerList')
             /\ In(timerList') \ {t} = In(rest)
             /\ Sorted(timerList', timer')
      PROVE  Timers'
  <2>1. TimersOK'
    <3>1. ASSUME NEW u \in Timer
          PROVE  /\ timer'[u].request = "start" => timer'[u].next > 0
                 /\ timer'[u].active => timer'[u].interval > 0
      <4>1. CASE u = t BY <1>6, <4>1 DEF Timers, TimersOK
      <4>2. CASE u # t BY <1>6, <4>2 DEF Timers, TimersOK
      <4> QED BY <4>1, <4>2
    <3> QED BY <1>0, <1>5, <1>6, <3>1 DEF TimersOK
  <2>2. Requested'
    <3>1. \A u \in Timer : timer'[u].request = timer[u].request BY <1>6
    <3> QED BY <1>5, <3>1 DEF Timers, Requested
  <2>3. Listed'
    <3>1. ASSUME NEW u \in Timer, u # t
          PROVE  (timer'[u].alive /\ timer'[u].active) <=> u \in In(timerList')
      <4>1. (timer[u].alive /\ timer[u].active) <=> u \in In(timerList) BY DEF Timers, Listed
      <4>2. u \in In(timerList) <=> u \in In(timerList') BY <1>3, <1>6, <3>1
      <4>3. timer'[u] = timer[u] BY <1>6, <3>1
      <4> QED BY <4>1, <4>2, <4>3
    <3> QED BY <1>6, <3>1 DEF Listed
  <2> QED BY <2>1, <2>2, <2>3 DEF Timers
<1>7. ASSUME NEW tm \in [Timer -> TimerState], \A u \in Timer : u # t => tm[u] = timer[u]
      PROVE  Sorted(rest, tm)
  <2>1. ASSUME NEW k \in 1 .. Len(rest) PROVE Remaining(tm[rest[k]]) = Remaining(timer[rest[k]])
    <3>1. rest[k] \in Timer /\ rest[k] # t BY <1>3 DEF In
    <3> QED BY <1>7, <3>1
  <2> QED BY <1>3, <2>1, SameSorted
<1>8. CASE t \in Periodic
  <2>1. /\ timer' = [timer EXCEPT ![t].elapsed = @ % timer[t].interval]
        /\ timerList' = Scheduled(rest, timer', t)
    BY <1>1, <1>2, <1>8 DEF TimerExpires
  <2>2. PICK m \in Nat : m = timer[t].elapsed % timer[t].interval BY <1>4, Modulo
  <2>3. timer' = [timer EXCEPT ![t].elapsed = m] BY <1>0, <1>3, <2>1, <2>2
  <2>4. /\ timer' \in [Timer -> TimerState]
        /\ \A u \in Timer : u # t => timer'[u] = timer[u]
        /\ timer'[t].request = timer[t].request /\ timer'[t].next = timer[t].next
        /\ timer'[t].interval = timer[t].interval
        /\ timer'[t].alive = timer[t].alive /\ timer'[t].active = timer[t].active
    BY <1>0, <1>3, <2>3 DEF TimerState
  <2>5. Sorted(rest, timer') BY <1>7, <2>4
  <2>6. /\ timerList' \in Seq(Timer) /\ In(timerList') = In(rest) \cup {t}
        /\ Sorted(timerList', timer')
    BY <1>3, <2>1, <2>4, <2>5, ScheduledSorted
  <2> QED BY <1>3, <1>4, <1>6, <2>4, <2>6
<1>9. CASE t \notin Periodic
  <2>1. timer' = [timer EXCEPT ![t].active = FALSE] /\ timerList' = rest
    BY <1>1, <1>2, <1>9 DEF TimerExpires
  <2>2. /\ timer' \in [Timer -> TimerState]
        /\ \A u \in Timer : u # t => timer'[u] = timer[u]
        /\ timer'[t].request = timer[t].request /\ timer'[t].next = timer[t].next
        /\ ~timer'[t].active
    BY <1>0, <1>3, <2>1 DEF TimerState
  <2>3. Sorted(rest, timer') BY <1>7, <2>2
  <2> QED BY <1>3, <1>6, <2>1, <2>2, <2>3
<1> QED BY <1>8, <1>9
LEMMA NextTimers == Timers /\ [Next]_vars => Timers'
<1> SUFFICES ASSUME Timers, [Next]_vars PROVE Timers' OBVIOUS
<1>0. timer \in [Timer -> TimerState] BY DEF Timers, TimersOK
<1>1. CASE UNCHANGED vars
  <2>1. UNCHANGED <<timer, timerList, timerQueue>> BY <1>1 DEF vars
  <2> QED BY <2>1, TimersFrame
<1>2. CASE Others
  <2>1. CASE (\E o \in Object : Send(o) \/ LinkNotify(o)) \/ SetThreadFlag \/ StopSignal
    <3>1. UNCHANGED <<timer, timerList, timerQueue>>
      BY <2>1, Zenon DEF Send, LinkNotify, SetThreadFlag, StopSignal, timerVars
    <3> QED BY <3>1, TimersFrame
  <2> QED BY <1>2, <2>1, ElapseTimers DEF Others
<1>3. CASE Api
  <2>1. CASE \/ \E o \in Object : Subscribe(o) \/ Unsubscribe(o)
             \/ PendCallback \/ Stop \/ (\E h \in BOOLEAN : HearThreadFlags(h))
    <3>1. UNCHANGED <<timer, timerList, timerQueue>>
      BY <2>1, Zenon DEF Subscribe, Unsubscribe, PendCallback, Stop, HearThreadFlags, timerVars
    <3> QED BY <3>1, TimersFrame
  <2>2. ASSUME NEW t \in Timer, TimerStart(t) \/ TimerRestart(t) \/ TimerStop(t) \/ TimerFree(t)
        PROVE  Timers'
    <3>0. timer[t].next \in Nat /\ timer[t].interval \in Nat
      <4>1. timer[t] \in TimerState BY <1>0
      <4> QED BY <4>1 DEF TimerState
    <3>1. CASE TimerStart(t)
      <4>1. PICK i \in Intervals : Enqueue(t, "start", i) BY <3>1, Zenon DEF TimerStart
      <4>2. i \in Nat /\ i > 0 BY EventLoopAssumption
      <4> QED BY <4>1, <4>2, EnqueueTimers
    <3>2. CASE TimerRestart(t)
      <4>1. timer[t].interval > 0 /\ Enqueue(t, "start", timer[t].interval)
        BY <3>2 DEF TimerRestart
      <4> QED BY <3>0, <4>1, EnqueueTimers
    <3>3. CASE TimerStop(t)
      <4>1. Enqueue(t, "stop", timer[t].next) BY <3>3 DEF TimerStop
      <4> QED BY <3>0, <4>1, EnqueueTimers
    <3>4. CASE TimerFree(t)
      <4>1. Enqueue(t, "free", timer[t].next) BY <3>4 DEF TimerFree
      <4> QED BY <3>0, <4>1, EnqueueTimers
    <3> QED BY <2>2, <3>1, <3>2, <3>3, <3>4
  <2> QED BY <1>3, <2>1, <2>2, Zenon DEF Api
<1>4. CASE Loop
  <2>1. CASE \/ Run \/ LoopStops \/ TakeEvent \/ TakeOnce \/ GetMessage \/ EventDone
             \/ TakeTimers \/ TimersDone \/ TakePending \/ PendingDone \/ TakeThreadFlag
             \/ Tick \/ CallbackDone \/ Free
    <3>1. CASE Run \/ LoopStops \/ TakeEvent \/ TakeOnce \/ GetMessage \/ EventDone
      <4>1. UNCHANGED <<timer, timerList, timerQueue>>
        BY <3>1, Zenon DEF Run, LoopStops, TakeEvent, TakeOnce, GetMessage, EventDone, timerVars
      <4> QED BY <4>1, TimersFrame
    <3>2. CASE \/ TakeTimers \/ TimersDone \/ TakePending \/ PendingDone \/ TakeThreadFlag
               \/ Tick \/ CallbackDone \/ Free
      <4>1. UNCHANGED <<timer, timerList, timerQueue>>
        BY <3>2, Zenon DEF TakeTimers, TimersDone, TakePending, PendingDone, TakeThreadFlag,
                           Tick, CallbackDone, Free, timerVars
      <4> QED BY <4>1, TimersFrame
    <3> QED BY <2>1, <3>1, <3>2
  <2>2. CASE ServeTimerRequest \/ ServeAtFree
    <3>1. timerQueue # <<>> /\ Served(Head(timerQueue))
      BY <2>2, Zenon DEF ServeTimerRequest, ServeAtFree
    <3> QED BY <3>1, ServedTimers
  <2> QED BY <1>4, <2>1, <2>2, ExpiresTimers DEF Loop
<1> QED BY <1>1, <1>2, <1>3, <1>4 DEF Next

\* A loop is freed when no timer is alive, and its list stays empty.
LEMMA NextFreed == ItemsOK /\ Timers /\ Freed /\ [Next]_vars => Freed'
<1> SUFFICES ASSUME ItemsOK, Timers, Freed, [Next]_vars, pc' = "freed" PROVE timerList' = <<>>
  BY DEF Freed
<1>1. CASE Free
  <2>1. timerList' = timerList /\ \A t \in Timer : ~timer[t].alive
    BY <1>1, Zenon DEF Free, timerVars
  <2>2. timerList \in Seq(Timer) /\ \A t \in Timer : t \notin In(timerList)
    BY <2>1 DEF Timers, TimersOK, Listed
  <2>3. \A i \in 1 .. Len(timerList) : FALSE BY <2>2 DEF In
  <2>4. Len(timerList) \in Nat /\ ~(1 \in 1 .. Len(timerList)) BY <2>2, <2>3
  <2>5. Len(timerList) = 0 BY <2>4
  <2> QED BY <2>1, <2>2, <2>5
<1>2. CASE ~Free
  <2>1. pc = "freed" /\ timerList' = timerList
    <3>1. CASE UNCHANGED vars BY <3>1 DEF vars
    <3>2. CASE Others
      <4>1. pc' = pc /\ timerList' = timerList
        BY <3>2, Zenon DEF Others, Send, LinkNotify, SetThreadFlag, StopSignal, Elapse, timerVars
      <4> QED BY <4>1
    <3>3. CASE Api
      <4>1. pc' = pc /\ timerList' = timerList
        <5>1. CASE \E o \in Object : Subscribe(o) \/ Unsubscribe(o)
          BY <5>1, Zenon DEF Subscribe, Unsubscribe, timerVars
        <5>2. CASE PendCallback \/ Stop \/ \E h \in BOOLEAN : HearThreadFlags(h)
          BY <5>2, Zenon DEF PendCallback, Stop, HearThreadFlags, timerVars
        <5>3. CASE \E t \in Timer : TimerStart(t) \/ TimerRestart(t) \/ TimerStop(t) \/ TimerFree(t)
          BY <5>3, Zenon DEF TimerStart, TimerRestart, TimerStop, TimerFree, Enqueue
        <5> QED BY <3>3, <5>1, <5>2, <5>3, Zenon DEF Api
      <4> QED BY <4>1
    <3>4. CASE Loop
      <4>1. CASE ServeTimerRequest \/ ServeAtFree
        <5>1. pc' = pc /\ pc \in {"timers", "stopped"}
          BY <4>1, Zenon DEF ServeTimerRequest, ServeAtFree
        <5> QED BY <5>1
      <4>2. CASE TakeEvent \/ GetMessage \/ EventDone
        <5>1. pc' # "freed" BY <4>2 DEF TakeEvent, GetMessage, EventDone, Woken
        <5> QED BY <5>1
      <4>3. CASE \/ Run \/ LoopStops \/ TakeOnce \/ TakeTimers \/ TimersDone \/ TakePending
                 \/ PendingDone \/ TakeThreadFlag \/ TimerExpires \/ Tick \/ CallbackDone
        BY <1>2, <4>3, LoopSteps
      <4> QED BY <1>2, <3>4, <4>1, <4>2, <4>3 DEF Loop
    <3> QED BY <3>1, <3>2, <3>3, <3>4 DEF Next
  <2> QED BY <2>1 DEF Freed
<1> QED BY <1>1, <1>2

-----------------------------------------------------------------------------
LEMMA InitEventLoop == Init => EventLoopInv
<1> SUFFICES ASSUME Init PROVE EventLoopInv OBVIOUS
<1>1. /\ level = [o \in Object |-> 0] /\ telling = {} /\ flags = {} /\ got = {} /\ pc = "setup"
      /\ subscribed = {} /\ waiting = <<>> /\ current = None
      /\ timerList = <<>> /\ timerQueue = <<>> /\ pending = 0
      /\ timer = [t \in Timer |-> [alive |-> TRUE, active |-> FALSE, request |-> "none",
                                   next |-> 0, interval |-> 0, elapsed |-> 0]]
  BY Zenon DEF Init
<1>2. In(<<>>) = {} /\ Distinct(<<>>) /\ Len(<<>>) = 0 BY DEF In, Distinct
<1>3. current \in Item /\ ~current.owned BY <1>1 DEF Item, None
<1>4. ItemsOK BY <1>1, <1>3 DEF ItemsOK, LoopPc
<1>5. ItemsKept /\ LevelsKept BY <1>1, <1>2, <1>3 DEF ItemsKept, LevelsKept
<1>6. timer \in [Timer -> TimerState]
      /\ \A t \in Timer : timer[t].request = "none" /\ ~timer[t].active
  BY <1>1 DEF TimerState
<1>7. TimersOK BY <1>1, <1>6 DEF TimersOK
<1>8. Requested BY <1>6 DEF Requested
<1>9. Listed BY <1>1, <1>2, <1>6 DEF Listed, Sorted
<1>10. Flagged /\ Freed BY <1>1 DEF Flagged, Freed
<1> QED BY <1>4, <1>5, <1>7, <1>8, <1>9, <1>10 DEF EventLoopInv

LEMMA NextEventLoop == EventLoopInv /\ [Next]_vars => EventLoopInv'
<1> SUFFICES ASSUME EventLoopInv, [Next]_vars PROVE EventLoopInv' OBVIOUS
<1>1. Items /\ Timers /\ Flagged /\ Freed BY DEF EventLoopInv, Items, Timers
<1>2. Items' /\ Timers' /\ Flagged' /\ Freed'
  BY <1>1, NextItems, NextTimers, NextFlagged, NextFreed DEF Items
<1> QED BY <1>2 DEF EventLoopInv, Items, Timers

\* The invariant of furi_event_loop_run and its API: what waits is subscribed
\* and waits once, a level that is up waits or is being processed, every piece
\* of work has its flag set or kept for furi_event_loop_restore_flags, a timer
\* with a request is in the queue, and the list holds the running timers in the
\* order of their expiry.
THEOREM EventLoopInvariant == Spec => []EventLoopInv
  BY InitEventLoop, NextEventLoop, PTL DEF Spec

\* furi_event_loop_run never waits on an item, a timer request or a pending
\* callback whose flag was lost.
THEOREM EventLoopNoSleepOnWork == Spec => []NoSleepOnWork
<1>1. EventLoopInv => NoSleepOnWork BY DEF EventLoopInv, Flagged, NoSleepOnWork
<1> QED BY <1>1, EventLoopInvariant, PTL

\* furi_event_loop_schedule_timer: the front of the list is the first timer to
\* expire, and the list holds the running timers once each.
THEOREM EventLoopFrontIsEarliest == Spec => []FrontIsEarliest
<1>1. EventLoopInv => FrontIsEarliest
  BY DEF EventLoopInv, Listed, Sorted, In, FrontIsEarliest
<1> QED BY <1>1, EventLoopInvariant, PTL

\* The assertions of furi_event_loop_free and on items hold.
THEOREM EventLoopListsAlive == Spec => []ListsAlive
<1>1. EventLoopInv => ListsAlive
  <2> SUFFICES ASSUME EventLoopInv PROVE ListsAlive OBVIOUS
  <2>0. waiting \in Seq(Object) /\ In(waiting) \subseteq subscribed
        /\ (pc = "freed" => subscribed = {} /\ timerList = <<>>)
    BY DEF EventLoopInv, ItemsOK, ItemsKept, Freed
  <2>1. \A i \in 1 .. Len(waiting) : waiting[i] \in subscribed BY <2>0 DEF In
  <2>2. ASSUME pc = "freed" PROVE waiting = <<>>
    <3>1. Len(waiting) \in Nat /\ ~(1 \in 1 .. Len(waiting)) BY <2>0, <2>1, <2>2
    <3>2. Len(waiting) = 0 BY <3>1
    <3> QED BY <2>0, <3>2
  <2> QED BY <2>0, <2>1, <2>2 DEF ListsAlive
<1> QED BY <1>1, EventLoopInvariant, PTL

\* A watched queue whose level is up waits for its callback.
THEOREM EventLoopLevelWaits == Spec => []LevelWaits
<1>1. EventLoopInv => LevelWaits
  BY DEF EventLoopInv, LevelsKept, LevelWaits, IsWaiting, In
<1> QED BY <1>1, EventLoopInvariant, PTL

\* furi_event_loop_timer_stop and furi_event_loop_timer_free: a timer whose stop
\* or free has been requested does not fire.
THEOREM EventLoopStopMeansStop == Spec => StopMeansStop
<1>1. EventLoopInv /\ [Next]_vars =>
        [pc = "wait" /\ pc' = "expired" => timer[Head(timerList)].request = "none"]_vars
  <2> SUFFICES ASSUME EventLoopInv, Next, pc = "wait", pc' = "expired"
               PROVE  timer[Head(timerList)].request = "none"
    OBVIOUS
  <2>1. TimerExpires
    <3>1. CASE Others
      <4>1. pc' = pc
        BY <3>1, Zenon DEF Others, Send, LinkNotify, SetThreadFlag, StopSignal, Elapse
      <4> QED BY <4>1
    <3>2. CASE Api
      <4>1. pc \in Callback \cup {"setup", "stopped"}
        BY <3>2, Zenon DEF Api, Subscribe, Unsubscribe, TimerStart, TimerRestart, TimerStop,
                           TimerFree, PendCallback, Stop, HearThreadFlags, CallOrTeardown, Call
      <4> QED BY <4>1 DEF Callback
    <3>3. CASE Loop
      <4>1. CASE Free \/ ServeAtFree \/ ServeTimerRequest
        <5>1. pc \in {"stopped", "timers"} BY <4>1, Zenon DEF Free, ServeAtFree, ServeTimerRequest
        <5> QED BY <5>1
      <4>2. CASE TakeThreadFlag
        <5>1. pc' \in {"threadflag", "wait"} BY <4>2 DEF TakeThreadFlag
        <5> QED BY <5>1
      <4>3. CASE \/ Run \/ LoopStops \/ TakeEvent \/ TakeOnce \/ GetMessage \/ EventDone
                 \/ TakeTimers \/ TimersDone \/ TakePending \/ PendingDone \/ Tick \/ CallbackDone
        BY <4>3 DEF Run, LoopStops, TakeEvent, TakeOnce, GetMessage, EventDone, TakeTimers,
                    TimersDone, TakePending, PendingDone, Tick, CallbackDone
      <4> QED BY <3>3, <4>1, <4>2, <4>3 DEF Loop
    <3> QED BY <3>1, <3>2, <3>3 DEF Next
  <2>2. flags = {} /\ timerList # <<>> BY <2>1 DEF TimerExpires, FrontExpired
  <2>3. timerQueue = <<>> BY <2>2 DEF EventLoopInv, Flagged
  <2>4. Head(timerList) \in Timer BY <2>2 DEF EventLoopInv, TimersOK
  <2>5. In(timerQueue) = {} BY <2>3 DEF In
  <2> QED BY <2>4, <2>5 DEF EventLoopInv, Requested
<1> QED BY <1>1, EventLoopInvariant, PTL DEF Spec, StopMeansStop
=============================================================================
