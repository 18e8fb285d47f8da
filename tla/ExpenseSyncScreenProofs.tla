---------------------- MODULE ExpenseSyncScreenProofs ----------------------
(***************************************************************************)
(* The screen of ExpenseSync is in step with the local view, for any       *)
(* number of devices, expenses, listeners and failures.                    *)
(*                                                                         *)
(* The invariant says of each device what the listeners have been told:    *)
(* the last block queued carries the local view; while no listener has had *)
(* an event nothing is queued or shown; and a listener only waits while    *)
(* there is nothing to tell it.  The last two are what a listener added on *)
(* an empty view, which is told nothing, leaves to the first.              *)
(***************************************************************************)
EXTENDS ExpenseSyncProofs

IsSnapshot(b) == b.kind = "snapshot"

NoSnapshot(m) == \A i \in DOMAIN m : ~IsSnapshot(m[i])

\* The last snapshot of the blocks m, or S if there is none, is V.
Shows(m, S, V) ==
  \/ NoSnapshot(m) /\ S = V
  \/ \E i \in DOMAIN m : /\ IsSnapshot(m[i]) /\ m[i].docs = V
                         /\ \A j \in DOMAIN m : j > i => ~IsSnapshot(m[j])

\* What has been told of the view V to the listeners r over the link l, if m is
\* queued and S shown.
Tells(m, S, V, r, l) ==
  /\ r.live = 0 => NoSnapshot(m) /\ S = {}
  /\ r.waiting > 0 => V = {} /\ l = "waiting"
  /\ r.live + r.waiting > 0 => Shows(m, S, V)

ViewIsTold == \A d \in Devices : Tells(main[d], expenses[d], View(d), listeners[d], link[d])

\* The total and the label are of the list.
TotalInStep == \A d \in Devices : totalExpenses[d] = Total(expenses[d])

ScreenInv == ViewIsTold /\ TotalInStep /\ LabelIsTotal

-----------------------------------------------------------------------------
(* Sums.                                                                   *)

\* The sum of no spendings, which a process starts with.
LEMMA TotalOfNone == Total({}) = 0
<1> DEFINE F(it) == [s \in SUBSET {} |->
                       IF s = {} THEN 0
                       ELSE LET x == CHOOSE y \in s : TRUE IN Ammount[x] + it[s \ {x}]]
           zero == [s \in SUBSET {} |-> 0]
           fix == CHOOSE it : it = F(it)
<1>1. \A it : F(it) = zero
  OBVIOUS
<1>2. fix = F(fix)
  <2>1. zero = F(zero)
    BY <1>1
  <2> HIDE DEF F, zero
  <2> QED
    BY <2>1
<1>3. fix[{}] = 0
  BY <1>1, <1>2
<1>4. Total({}) = fix[{}]
  BY DEF Total, MapThenSumSet, MapThenFoldSet
<1> QED
  BY <1>3, <1>4

-----------------------------------------------------------------------------
(* The blocks queued on the main thread.                                   *)

\* Shows says what LastSnapshot computes.
LEMMA ShowsLast ==
  ASSUME NEW m \in Seq(Events), NEW S, NEW V, Shows(m, S, V)
  PROVE  LET I == {i \in DOMAIN m : m[i].kind = "snapshot"}
         IN (IF I = {} THEN S ELSE m[Max(I)].docs) = V
<1> DEFINE I == {i \in DOMAIN m : m[i].kind = "snapshot"}
<1>1. CASE NoSnapshot(m) /\ S = V
  BY <1>1 DEF NoSnapshot, IsSnapshot
<1>2. ASSUME NEW i \in DOMAIN m, IsSnapshot(m[i]), m[i].docs = V,
             \A j \in DOMAIN m : j > i => ~IsSnapshot(m[j])
      PROVE  I # {} /\ m[Max(I)].docs = V
  <2>1. i \in I /\ \A j \in I : j <= i
    BY <1>2 DEF IsSnapshot
  <2>2. Len(m) \in Nat /\ I \in SUBSET (0..Len(m))
    OBVIOUS
  <2>3. Max(I) \in I /\ Max(I) >= i
    BY <2>1, <2>2, MaxOfBounded
  <2>4. Max(I) = i
    BY <2>1, <2>2, <2>3
  <2> QED
    BY <1>2, <2>1, <2>4
<1> QED
  BY <1>1, <1>2 DEF Shows

\* A block that is no snapshot may join the queue.
LEMMA JoinQueue ==
  ASSUME NEW m \in Seq(Events), NEW q \in Seq(Events), NoSnapshot(q)
  PROVE  /\ NoSnapshot(m) => NoSnapshot(m \o q)
         /\ \A S, V : Shows(m, S, V) => Shows(m \o q, S, V)
<1> DEFINE n == m \o q
<1>1. /\ DOMAIN n = 1..(Len(m) + Len(q)) /\ DOMAIN m = 1..Len(m) /\ DOMAIN q = 1..Len(q)
      /\ Len(m) \in Nat /\ Len(q) \in Nat
      /\ \A i \in DOMAIN m : n[i] = m[i]
      /\ \A i \in DOMAIN n : i > Len(m) => n[i] = q[i - Len(m)]
  OBVIOUS
<1> HIDE DEF n
<1>2. \A i \in DOMAIN n : i > Len(m) => ~IsSnapshot(n[i])
  BY <1>1 DEF NoSnapshot
<1>3. NoSnapshot(m) => NoSnapshot(n)
  BY <1>1, <1>2 DEF NoSnapshot
<1>4. ASSUME NEW S, NEW V, Shows(m, S, V) PROVE Shows(n, S, V)
  BY <1>1, <1>2, <1>3, <1>4 DEF Shows
<1> QED
  BY <1>3, <1>4 DEF n

\* When snapshots of V join it, V is what it shows.
LEMMA JoinSnapshots ==
  ASSUME NEW m \in Seq(Events), NEW V \in SUBSET Expenses, NEW n \in Nat \ {0}, NEW S
  PROVE  Shows(m \o [i \in 1..n |-> Snapshot(V)], S, V)
<1> DEFINE q == [i \in 1..n |-> Snapshot(V)]
           t == m \o q
<1>1. q \in Seq(Events)
  BY QueueTypes, RepeatedIsSeq
<1>2. DOMAIN t = 1..(Len(m) + n) /\ t[Len(m) + n] = Snapshot(V) /\ Len(m) \in Nat
  BY <1>1
<1> HIDE DEF t
<1>3. /\ Len(m) + n \in DOMAIN t /\ IsSnapshot(t[Len(m) + n]) /\ t[Len(m) + n].docs = V
      /\ \A j \in DOMAIN t : ~(j > Len(m) + n)
  BY <1>2 DEF IsSnapshot, Snapshot
<1> QED
  BY <1>3 DEF Shows, t

\* The first block leaves the queue; if it is a snapshot it becomes the list.
LEMMA LeaveQueue ==
  ASSUME NEW m \in Seq(Events), m # <<>>, NEW S, NEW V, Shows(m, S, V)
  PROVE  Shows(Tail(m), IF IsSnapshot(Head(m)) THEN Head(m).docs ELSE S, V)
<1> DEFINE n == Tail(m)
<1>1. /\ DOMAIN m = 1..Len(m) /\ DOMAIN n = 1..(Len(m) - 1) /\ Len(m) \in Nat \ {0}
      /\ \A i \in DOMAIN n : i + 1 \in DOMAIN m /\ n[i] = m[i + 1]
      /\ Head(m) = m[1] /\ 1 \in DOMAIN m
  OBVIOUS
<1> HIDE DEF n
<1>2. CASE NoSnapshot(m) /\ S = V
  BY <1>1, <1>2 DEF NoSnapshot, Shows
<1>3. ASSUME NEW i \in DOMAIN m, IsSnapshot(m[i]), m[i].docs = V,
             \A j \in DOMAIN m : j > i => ~IsSnapshot(m[j])
      PROVE  Shows(n, IF IsSnapshot(Head(m)) THEN Head(m).docs ELSE S, V)
  <2>1. CASE i = 1
    <3>1. NoSnapshot(n)
      BY <1>1, <1>3, <2>1 DEF NoSnapshot
    <3> QED
      BY <1>1, <1>3, <2>1, <3>1 DEF Shows
  <2>2. CASE i # 1
    <3>1. i - 1 \in DOMAIN n /\ n[i - 1] = m[i]
      BY <1>1, <2>2
    <3>2. \A j \in DOMAIN n : j > i - 1 => ~IsSnapshot(n[j])
      BY <1>1, <1>3
    <3> QED
      BY <1>3, <3>1, <3>2 DEF Shows
  <2> QED
    BY <2>1, <2>2
<1> QED
  BY <1>2, <1>3 DEF Shows, n

\* Raise tells the listeners of d the view S, given that they were told the view old.
LEMMA RaiseTells ==
  ASSUME TypeOK, NEW d \in Devices, NEW old, NEW S \in SUBSET Expenses,
         NEW l \in {"waiting", "current", "offline"},
         Tells(main[d], expenses[d], old, listeners[d], link[d]),
         Raise(d, old, S, l)
  PROVE  /\ Tells(main'[d], expenses[d], S, listeners'[d], l)
         /\ \A x \in Devices \ {d} : main'[x] = main[x] /\ listeners'[x] = listeners[x]
<1> DEFINE r == listeners[d]
           first == First(d, S, l)
           n == Heard(d, old, S, l) + first
           q == [i \in 1..n |-> Snapshot(S)]
<1>1. /\ main[d] \in Seq(Events) /\ r \in [live : Nat, waiting : Nat]
      /\ main \in [Devices -> Seq(Events)]
      /\ listeners \in [Devices -> [live : Nat, waiting : Nat]]
  BY DEF TypeOK
<1>2. /\ first = IF Ready(S, l) THEN r.waiting ELSE 0
      /\ n = (IF S # old THEN r.live ELSE 0) + first
  BY DEF First, Heard
<1>3. /\ main'[d] = main[d] \o q
      /\ listeners'[d] = [live |-> r.live + first, waiting |-> r.waiting - first]
      /\ \A x \in Devices \ {d} : main'[x] = main[x] /\ listeners'[x] = listeners[x]
  BY <1>1 DEF Raise
<1>4. r.live \in Nat /\ r.waiting \in Nat
  BY <1>1
<1> HIDE DEF r, first, n
<1>5. n \in Nat
  BY <1>2, <1>4
<1>6. ~Ready(S, l) => S = {} /\ l = "waiting"
  BY DEF Ready
<1>7. n = 0 => q = <<>> /\ main'[d] = main[d]
  BY <1>1, <1>3
<1>8. CASE n = 0
  <2>1. S # old => (r.waiting > 0 /\ ~Ready(S, l)) \/ r.live + r.waiting = 0
    BY <1>2, <1>4, <1>8
  <2>2. r.waiting > 0 => S = old
    BY <1>2, <1>4, <1>6, <1>8 DEF Tells, r
  <2>3. main'[d] = main[d] /\ listeners'[d] = [live |-> r.live, waiting |-> r.waiting]
    BY <1>2, <1>3, <1>4, <1>7, <1>8
  <2>4. r.live = 0 => NoSnapshot(main[d]) /\ expenses[d] = {}
    BY DEF Tells, r
  <2>5. r.waiting > 0 => S = {} /\ l = "waiting"
    BY <1>2, <1>4, <1>6, <1>8
  <2>6. r.live + r.waiting > 0 => Shows(main[d], expenses[d], S)
    BY <1>4, <2>1, <2>2 DEF Tells, r
  <2>7. Tells(main[d], expenses[d], S, [live |-> r.live, waiting |-> r.waiting], l)
    BY <2>4, <2>5, <2>6 DEF Tells
  <2> QED
    BY <1>3, <2>3, <2>7
<1>9. CASE n # 0
  <2>1. Shows(main'[d], expenses[d], S)
    <3>1. n \in Nat \ {0}
      BY <1>5, <1>9
    <3>2. Shows(main[d] \o q, expenses[d], S)
      BY <1>1, <3>1, JoinSnapshots
    <3> QED
      BY <1>3, <3>2
  <2>2. r.live + first # 0
    BY <1>2, <1>4, <1>9
  <2>3. r.waiting - first > 0 => S = {} /\ l = "waiting"
    BY <1>2, <1>4, <1>6
  <2> QED
    BY <1>3, <2>1, <2>2, <2>3 DEF Tells
<1> QED
  BY <1>3, <1>8, <1>9

-----------------------------------------------------------------------------
(* Every step tells.                                                       *)

SameScreen(x) ==
  UNCHANGED <<main[x], expenses[x], cached[x], pending[x], listeners[x], link[x]>>

\* A step of one device concerns no other's screen.
LEMMA OneDevice ==
  ASSUME ViewIsTold, NEW d \in Devices,
         Tells(main'[d], expenses'[d], Overlay(cached'[d], pending'[d]), listeners'[d], link'[d]),
         \A x \in Devices \ {d} : SameScreen(x)
  PROVE  ViewIsTold'
<1> SUFFICES ASSUME NEW x \in Devices
             PROVE  Tells(main'[x], expenses'[x], Overlay(cached'[x], pending'[x]),
                          listeners'[x], link'[x])
  BY DEF ViewIsTold, View
<1>1. CASE x = d
  BY <1>1
<1>2. CASE x # d
  BY <1>2 DEF ViewIsTold, View, SameScreen
<1> QED
  BY <1>1, <1>2

\* A step that leaves the view and the listeners alone, and queues blocks that
\* are no snapshots.
LEMMA Unheard ==
  ASSUME TypeOK, ViewIsTold, NEW d \in Devices, NEW q \in Seq(Events), NoSnapshot(q),
         main'[d] = main[d] \o q, \A x \in Devices \ {d} : main'[x] = main[x],
         UNCHANGED <<expenses, cached, pending, listeners, link>>
  PROVE  ViewIsTold'
<1>1. main[d] \in Seq(Events)
  BY DEF TypeOK
<1>2. Tells(main[d], expenses[d], Overlay(cached[d], pending[d]), listeners[d], link[d])
  BY DEF ViewIsTold, View
<1>3. Tells(main'[d], expenses[d], Overlay(cached[d], pending[d]), listeners[d], link[d])
  BY <1>1, <1>2, JoinQueue DEF Tells
<1> QED
  BY <1>3, OneDevice DEF SameScreen

\* A step that raises the new view.
LEMMA Raised ==
  ASSUME TypeOK, ViewIsTold, NEW d \in Devices,
         Raise(d, View(d), Overlay(cached'[d], pending'[d]), link'[d]),
         link'[d] \in {"waiting", "current", "offline"},
         UNCHANGED expenses,
         \A x \in Devices \ {d} : UNCHANGED <<cached[x], pending[x], link[x]>>
  PROVE  ViewIsTold'
<1>1. Tells(main[d], expenses[d], View(d), listeners[d], link[d])
  BY DEF ViewIsTold
<1>2. /\ Tells(main'[d], expenses[d], Overlay(cached'[d], pending'[d]), listeners'[d], link'[d])
      /\ \A x \in Devices \ {d} : main'[x] = main[x] /\ listeners'[x] = listeners[x]
  BY <1>1, RaiseTells, OverlayType
<1> QED
  BY <1>2, OneDevice DEF SameScreen

\* The blocks that are no snapshots.
LEMMA LoadsAreQuiet == NoSnapshot(<<Load>>) /\ NoSnapshot(FirstLoads) /\ NoSnapshot(<<>>)
  BY DEF NoSnapshot, IsSnapshot, Load, FirstLoads

\* A listener is added: it is told the view at once, or waits for there to be one.
LEMMA RunListenTells ==
  ASSUME TypeOK, ViewIsTold, NEW d \in Devices, RunListen(d)
  PROVE  ViewIsTold'
<1> USE DEF store, screen
<1> DEFINE V == View(d)
           r == listeners[d]
<1>1. /\ main[d] \in Seq(Events) /\ main \in [Devices -> Seq(Events)]
      /\ listeners \in [Devices -> [live : Nat, waiting : Nat]]
      /\ r.live \in Nat /\ r.waiting \in Nat
  BY DEF TypeOK
<1>2. UNCHANGED <<expenses, cached, pending, link>>
  BY DEF RunListen
<1>3. Tells(main[d], expenses[d], V, r, link[d])
  BY DEF ViewIsTold
<1>4. V \in SUBSET Expenses /\ Snapshot(V) \in Events
  BY OverlayType, QueueTypes DEF View
<1>5. \A x \in Devices \ {d} : main'[x] = main[x] /\ listeners'[x] = listeners[x]
  BY <1>1 DEF RunListen
<1>6. CASE Ready(V, link[d])
  <2>1. main'[d] = Append(main[d], Snapshot(V)) /\ listeners'[d] = [r EXCEPT !.live = @ + 1]
    BY <1>1, <1>6 DEF RunListen
  <2>2. Shows(main'[d], expenses[d], V)
    <3>1. 1 \in Nat \ {0}
      OBVIOUS
    <3>2. Shows(main[d] \o [i \in 1..1 |-> Snapshot(V)], expenses[d], V)
      BY <1>1, <1>4, <3>1, JoinSnapshots
    <3>3. main'[d] = main[d] \o [i \in 1..1 |-> Snapshot(V)]
      BY <1>1, <1>4, <2>1, AppendBlock
    <3> QED
      BY <3>2, <3>3
  <2>3. listeners'[d].live = r.live + 1 /\ listeners'[d].waiting = r.waiting
    BY <1>1, <2>1
  <2>4. Tells(main'[d], expenses[d], V, listeners'[d], link[d])
    BY <1>1, <1>3, <2>2, <2>3 DEF Tells
  <2> QED
    BY <1>2, <1>5, <2>4, OneDevice DEF SameScreen, View
<1>7. CASE ~Ready(V, link[d])
  <2>1. main'[d] = main[d] /\ listeners'[d] = [r EXCEPT !.waiting = @ + 1]
    BY <1>1, <1>7 DEF RunListen
  <2>2. listeners'[d].live = r.live /\ listeners'[d].waiting = r.waiting + 1
    BY <1>1, <2>1
  <2>3. V = {} /\ link[d] = "waiting"
    BY <1>7 DEF Ready
  <2>4. Shows(main[d], expenses[d], V)
    BY <1>1, <1>3, <2>3 DEF Tells, Shows
  <2>5. Tells(main'[d], expenses[d], V, listeners'[d], link[d])
    BY <1>1, <1>3, <2>1, <2>2, <2>3, <2>4 DEF Tells
  <2> QED
    BY <1>2, <1>5, <2>5, OneDevice DEF SameScreen, View
<1> QED
  BY <1>6, <1>7

\* A block of the main thread runs.
LEMMA DeliveryTells ==
  ASSUME TypeOK, ViewIsTold, NEW d \in Devices, DeliverSnapshot(d) \/ DeliverLoad(d)
  PROVE  ViewIsTold'
<1> USE DEF store, screen
<1> DEFINE m == main[d]
           S == IF IsSnapshot(Head(m)) THEN Head(m).docs ELSE expenses[d]
           V == Overlay(cached[d], pending[d])
<1>1. /\ main \in [Devices -> Seq(Events)] /\ m \in Seq(Events) /\ m # <<>>
      /\ expenses \in [Devices -> SUBSET Expenses]
      /\ listeners[d].live \in Nat /\ listeners[d].waiting \in Nat
  BY DEF TypeOK, DeliverSnapshot, DeliverLoad
<1>2. /\ main'[d] = Tail(m) /\ expenses'[d] = S
      /\ \A x \in Devices \ {d} : main'[x] = main[x] /\ expenses'[x] = expenses[x]
      /\ UNCHANGED <<cached, pending, listeners, link>>
  BY <1>1 DEF DeliverSnapshot, DeliverLoad, IsSnapshot
<1>3. Tells(m, expenses[d], V, listeners[d], link[d])
  BY DEF ViewIsTold, View
<1>4. listeners[d].live = 0 => NoSnapshot(Tail(m)) /\ S = {}
  <2> SUFFICES ASSUME NoSnapshot(m) PROVE NoSnapshot(Tail(m)) /\ ~IsSnapshot(Head(m))
    BY <1>3 DEF Tells
  <2>1. \A i \in DOMAIN Tail(m) : i + 1 \in DOMAIN m /\ Tail(m)[i] = m[i + 1]
    BY <1>1
  <2>2. 1 \in DOMAIN m /\ Head(m) = m[1]
    BY <1>1
  <2> QED
    BY <2>1, <2>2 DEF NoSnapshot
<1>5. Shows(m, expenses[d], V) => Shows(Tail(m), S, V)
  BY <1>1, LeaveQueue
<1> HIDE DEF S, V, m
<1>6. Tells(Tail(m), S, V, listeners[d], link[d])
  BY <1>3, <1>4, <1>5 DEF Tells
<1> QED
  BY <1>2, <1>6, OneDevice DEF SameScreen, V

\* A step that neither tells the listeners anything nor gives them reason to.
LEMMA Silent ==
  ASSUME ViewIsTold, UNCHANGED <<main, expenses, cached, pending, listeners, link>>
  PROVE  ViewIsTold'
  BY DEF ViewIsTold, View

\* A kill takes the blocks, the list and the listeners together.
LEMMA KillTells ==
  ASSUME TypeOK, ViewIsTold, NEW d \in Devices, Kill(d)
  PROVE  ViewIsTold'
<1> USE DEF store, screen
<1>1. /\ main'[d] = <<>> /\ expenses'[d] = {} /\ listeners'[d] = [live |-> 0, waiting |-> 0]
      /\ \A x \in Devices \ {d} :
           UNCHANGED <<main[x], expenses[x], listeners[x], link[x]>>
      /\ UNCHANGED <<cached, pending>>
  BY DEF Kill, TypeOK
<1>2. NoSnapshot(<<>>)
  BY LoadsAreQuiet
<1>3. Tells(main'[d], expenses'[d], Overlay(cached'[d], pending'[d]), listeners'[d], link'[d])
  BY <1>1, <1>2 DEF Tells
<1> QED
  BY <1>1, <1>3, OneDevice DEF SameScreen

\* The watch stream comes back: no listener has waited through the outage.
LEMMA ReconnectTells ==
  ASSUME TypeOK, ViewIsTold, NEW d \in Devices, Reconnect(d)
  PROVE  ViewIsTold'
<1> USE DEF store, screen
<1>1. /\ UNCHANGED <<main, expenses, listeners, cached, pending>>
      /\ link[d] = "offline" /\ link'[d] = "waiting"
      /\ \A x \in Devices \ {d} : link'[x] = link[x]
  BY DEF Reconnect, TypeOK
<1>2. Tells(main[d], expenses[d], Overlay(cached[d], pending[d]), listeners[d], "offline")
  BY <1>1 DEF ViewIsTold, View
<1>3. Tells(main[d], expenses[d], Overlay(cached[d], pending[d]), listeners[d], "waiting")
  BY <1>2 DEF Tells
<1> QED
  BY <1>1, <1>3, OneDevice DEF SameScreen

\* Every step keeps the listeners in step with the local view.
LEMMA NextViewIsTold ==
  ASSUME TypeOK, AcksMatchQueue, ViewIsTold, [Next]_vars
  PROVE  ViewIsTold'
<1> USE DEF vars, backend, store, screen, history, budgets
<1>1. TypeOK' /\ main \in [Devices -> Seq(Events)]
      /\ pending \in [Devices -> Seq(Mutations)]
      /\ cached \in [Devices -> [Expenses -> [there : BOOLEAN, version : Nat]]]
      /\ link \in [Devices -> {"waiting", "current", "offline"}]
  BY NextTypeOK DEF TypeOK
<1>2. \A d \in Devices : link'[d] \in {"waiting", "current", "offline"}
  BY <1>1 DEF TypeOK
<1>3. ASSUME NEW d \in Devices, Launch(d) PROVE ViewIsTold'
  BY <1>3, Silent DEF Launch
<1>4. ASSUME NEW d \in Devices, HomeAppears(d) PROVE ViewIsTold'
  <2>1. main'[d] = main[d] \o FirstLoads /\ \A x \in Devices \ {d} : main'[x] = main[x]
    BY <1>1, <1>4 DEF HomeAppears
  <2>2. UNCHANGED <<expenses, cached, pending, listeners, link>>
    BY <1>4 DEF HomeAppears
  <2> QED
    BY <2>1, <2>2, QueueTypes, LoadsAreQuiet, Unheard
<1>5. ASSUME NEW d \in Devices, HomeReappears(d) PROVE ViewIsTold'
  <2>1. main'[d] = Append(main[d], Load) /\ \A x \in Devices \ {d} : main'[x] = main[x]
    BY <1>1, <1>5 DEF HomeReappears
  <2>2. main'[d] = main[d] \o <<Load>>
    BY <1>1, <2>1, QueueTypes, AppendBlock
  <2>3. UNCHANGED <<expenses, cached, pending, listeners, link>>
    BY <1>5 DEF HomeReappears
  <2> QED
    BY <2>1, <2>2, <2>3, QueueTypes, LoadsAreQuiet, Unheard
<1>6. ASSUME NEW d \in Devices, NEW e \in Expenses, AddExpense(d, e) \/ DeleteExpense(d, e)
      PROVE  ViewIsTold'
  BY <1>6, Silent DEF AddExpense, DeleteExpense
<1>7. ASSUME NEW d \in Devices, DeliverSnapshot(d) \/ DeliverLoad(d) PROVE ViewIsTold'
  BY <1>7, DeliveryTells
<1>8. ASSUME NEW d \in Devices, RunListen(d) PROVE ViewIsTold'
  BY <1>8, RunListenTells
<1>9. ASSUME NEW d \in Devices, RunWrite(d) PROVE ViewIsTold'
  <2>1. pending'[d] = Persist(pending[d], Head(worker[d])) /\ cached'[d] = cached[d]
    BY <1>1, <1>9 DEF RunWrite
  <2>2. Raise(d, View(d), Overlay(cached'[d], pending'[d]), link'[d])
    BY <1>9, <2>1 DEF RunWrite
  <2>3. /\ UNCHANGED expenses
        /\ \A x \in Devices \ {d} : UNCHANGED <<cached[x], pending[x], link[x]>>
    BY <1>1, <1>9 DEF RunWrite
  <2> QED
    BY <1>2, <2>2, <2>3, Raised
<1>10. ASSUME NEW d \in Devices, Commit(d) \/ BreakWriteStream(d) PROVE ViewIsTold'
  BY <1>10, Silent DEF Commit, BreakWriteStream
<1>11. ASSUME NEW d \in Devices, Acknowledge(d) PROVE ViewIsTold'
  <2>1. /\ pending'[d] = Tail(pending[d])
        /\ cached'[d] = Acked(cached[d], Head(pending[d]), Head(acks[d]))
        /\ link' = link
    BY <1>1, <1>11 DEF Acknowledge
  <2>2. Raise(d, View(d), Overlay(cached'[d], pending'[d]), link'[d])
    BY <1>11, <2>1 DEF Acknowledge
  <2>3. /\ UNCHANGED expenses
        /\ \A x \in Devices \ {d} : UNCHANGED <<cached[x], pending[x], link[x]>>
    BY <1>1, <1>11 DEF Acknowledge
  <2> QED
    BY <1>2, <2>2, <2>3, Raised
<1>12. ASSUME NEW d \in Devices, Reject(d) PROVE ViewIsTold'
  <2>1. pending'[d] = Tail(pending[d]) /\ cached' = cached /\ link' = link
    BY <1>1, <1>12 DEF Reject
  <2>2. Raise(d, View(d), Overlay(cached'[d], pending'[d]), link'[d])
    BY <1>12, <2>1 DEF Reject
  <2>3. /\ UNCHANGED expenses
        /\ \A x \in Devices \ {d} : UNCHANGED <<cached[x], pending[x], link[x]>>
    BY <1>1, <1>12 DEF Reject
  <2> QED
    BY <1>2, <2>2, <2>3, Raised
<1>13. ASSUME NEW d \in Devices, NEW v \in seen[d]..Len(log), Watch(d, v) PROVE ViewIsTold'
  <2> DEFINE c == [e \in Expenses |->
                     LET new == DocAt(log, v, e) IN
                     IF new.version > seen[d] /\ Newer(cached[d], e, new.version)
                       THEN new ELSE cached[d][e]]
  <2>1. /\ cached' = [cached EXCEPT ![d] = c]
        /\ Raise(d, View(d), Overlay(c, pending[d]), "current")
    BY <1>13 DEF Watch
  <2> HIDE DEF c
  <2>2. cached'[d] = c /\ link'[d] = "current" /\ pending' = pending
    BY <1>1, <1>13, <2>1 DEF Watch
  <2>3. Raise(d, View(d), Overlay(cached'[d], pending'[d]), link'[d])
    BY <2>1, <2>2
  <2>4. /\ UNCHANGED expenses
        /\ \A x \in Devices \ {d} : UNCHANGED <<cached[x], pending[x], link[x]>>
    BY <1>1, <1>13, <2>1 DEF Watch
  <2> QED
    BY <1>2, <2>3, <2>4, Raised
<1>14. ASSUME NEW d \in Devices, GoOffline(d) PROVE ViewIsTold'
  <2>1. link'[d] = "offline" /\ UNCHANGED <<pending, cached, expenses>>
    BY <1>1, <1>14 DEF GoOffline
  <2>2. Raise(d, View(d), Overlay(cached'[d], pending'[d]), link'[d])
    BY <1>14, <2>1 DEF GoOffline, View
  <2>3. \A x \in Devices \ {d} : UNCHANGED <<cached[x], pending[x], link[x]>>
    BY <1>1, <1>14 DEF GoOffline
  <2> QED
    BY <1>2, <2>1, <2>2, <2>3, Raised
<1>15. ASSUME NEW d \in Devices, Reconnect(d) PROVE ViewIsTold'
  BY <1>15, ReconnectTells
<1>16. ASSUME NEW d \in Devices, Kill(d) PROVE ViewIsTold'
  BY <1>16, KillTells
<1>17. CASE UNCHANGED vars
  BY <1>17, Silent
<1> QED
  BY <1>3, <1>4, <1>5, <1>6, <1>7, <1>8, <1>9, <1>10, <1>11, <1>12, <1>13, <1>14, <1>15,
     <1>16, <1>17
     DEF Next, User, MainThread, Worker, WriteStream, WatchStream, Failure

-----------------------------------------------------------------------------
(* The total and the label.                                                *)

\* What LabelIsTotal says of one device with the blocks m queued.
LabelOK(p, label, S, m) ==
  p = "home" => label = Total(S) \/ \E i \in DOMAIN m : m[i] = Load

\* The blocks of m stay queued, where they are, when others join.
Longer(m, n) == DOMAIN m \subseteq DOMAIN n /\ \A i \in DOMAIN m : n[i] = m[i]

\* Joining blocks makes a queue longer.
LEMMA JoiningIsLonger ==
  ASSUME NEW m \in Seq(Events), NEW q \in Seq(Events)
  PROVE  Longer(m, m \o q)
<1> DEFINE n == m \o q
<1>1. /\ DOMAIN n = 1..(Len(m) + Len(q)) /\ DOMAIN m = 1..Len(m)
      /\ Len(m) \in Nat /\ Len(q) \in Nat /\ \A i \in DOMAIN m : n[i] = m[i]
  OBVIOUS
<1> QED
  BY <1>1 DEF Longer

\* A step that leaves list and label of every device alone, lets no block of the
\* main thread go and brings no device to Home.
LEMMA LabelKept ==
  ASSUME TotalInStep, LabelIsTotal, UNCHANGED screen,
         \A x \in Devices : phase'[x] = "home" => phase[x] = "home",
         \A x \in Devices : Longer(main[x], main'[x])
  PROVE  TotalInStep' /\ LabelIsTotal'
  BY DEF TotalInStep, LabelIsTotal, screen, Longer

\* Raise lets no block go.
LEMMA RaiseIsLonger ==
  ASSUME TypeOK, NEW d \in Devices, NEW old, NEW S \in SUBSET Expenses, NEW l,
         Raise(d, old, S, l)
  PROVE  \A x \in Devices : Longer(main[x], main'[x])
<1> DEFINE n == Heard(d, old, S, l) + First(d, S, l)
           q == [i \in 1..n |-> Snapshot(S)]
<1>1. listeners[d].live \in Nat /\ listeners[d].waiting \in Nat
  BY DEF TypeOK
<1>2. n \in Nat
  BY <1>1 DEF Heard, First
<1>3. main \in [Devices -> Seq(Events)] /\ main' = [main EXCEPT ![d] = @ \o q]
  BY DEF TypeOK, Raise
<1> HIDE DEF n
<1>4. q \in Seq(Events)
  BY <1>2, QueueTypes, RepeatedIsSeq
<1> HIDE DEF q
<1>5. Longer(main[d], main'[d])
  BY <1>3, <1>4, JoiningIsLonger
<1>6. \A x \in Devices \ {d} : main'[x] = main[x]
  BY <1>3
<1> QED
  BY <1>5, <1>6 DEF Longer

\* The first block of the main thread runs and leaves label and total as it does.
LEMMA DeliveryLabels ==
  ASSUME TypeOK, TotalInStep, LabelIsTotal, NEW d \in Devices,
         DeliverSnapshot(d) \/ DeliverLoad(d)
  PROVE  TotalInStep' /\ LabelIsTotal'
<1> USE DEF store, screen
<1>1. /\ main \in [Devices -> Seq(Events)] /\ main[d] \in Seq(Events) /\ main[d] # <<>>
      /\ expenses \in [Devices -> SUBSET Expenses]
      /\ totalExpenses \in [Devices -> Totals]
      /\ budgetLabel \in [Devices -> Totals \cup {Placeholder}]
  BY DEF TypeOK, DeliverSnapshot, DeliverLoad
<1>2. /\ phase' = phase
      /\ \A x \in Devices \ {d} : UNCHANGED <<main[x], expenses[x], totalExpenses[x], budgetLabel[x]>>
  BY <1>1 DEF DeliverSnapshot, DeliverLoad
<1>3. totalExpenses'[d] = Total(expenses'[d])
  BY <1>1 DEF DeliverSnapshot, DeliverLoad, TotalInStep
<1>4. phase[d] = "home" => budgetLabel'[d] = Total(expenses'[d])
  <2>1. CASE DeliverSnapshot(d)
    BY <1>1, <2>1 DEF DeliverSnapshot
  <2>2. CASE DeliverLoad(d)
    BY <1>1, <2>2 DEF DeliverLoad, TotalInStep
  <2> QED
    BY <2>1, <2>2
<1>5. TotalInStep'
  BY <1>2, <1>3 DEF TotalInStep
<1>6. ASSUME NEW x \in Devices
      PROVE  phase'[x] = "home" => \/ budgetLabel'[x] = Total(expenses'[x])
                                  \/ \E i \in DOMAIN main'[x] : main'[x][i] = Load
  <2>1. CASE x = d
    BY <1>2, <1>4, <2>1
  <2>2. CASE x # d
    BY <1>2, <2>2 DEF LabelIsTotal
  <2> QED
    BY <2>1, <2>2
<1> QED
  BY <1>5, <1>6 DEF LabelIsTotal

\* Home appears: two blocks that redraw its label are queued.
LEMMA HomeLabels ==
  ASSUME TypeOK, TotalInStep, LabelIsTotal, NEW d \in Devices, HomeAppears(d)
  PROVE  TotalInStep' /\ LabelIsTotal'
<1> USE DEF screen
<1>1. main[d] \in Seq(Events) /\ Len(main[d]) \in Nat
  BY DEF TypeOK
<1>2. /\ UNCHANGED screen
      /\ \A x \in Devices \ {d} : main'[x] = main[x] /\ phase'[x] = phase[x]
      /\ main'[d] = main[d] \o FirstLoads
  BY DEF HomeAppears, TypeOK
<1>3. Len(main[d]) + 1 \in DOMAIN main'[d] /\ main'[d][Len(main[d]) + 1] = Load
  <2> DEFINE L == Load
  <2>1. FirstLoads = <<L, L>>
    BY DEF FirstLoads
  <2> HIDE DEF L
  <2>2. /\ Len(main[d]) + 1 \in DOMAIN (main[d] \o <<L, L>>)
        /\ (main[d] \o <<L, L>>)[Len(main[d]) + 1] = L
    BY <1>1
  <2> QED
    BY <1>2, <2>1, <2>2 DEF L
<1>4. TotalInStep'
  BY <1>2 DEF TotalInStep
<1>5. ASSUME NEW x \in Devices
      PROVE  phase'[x] = "home" => \/ budgetLabel'[x] = Total(expenses'[x])
                                  \/ \E i \in DOMAIN main'[x] : main'[x][i] = Load
  BY <1>2, <1>3 DEF LabelIsTotal
<1> QED
  BY <1>4, <1>5 DEF LabelIsTotal

\* A kill empties the list, and with it the total.
LEMMA KillLabels ==
  ASSUME TypeOK, TotalInStep, LabelIsTotal, NEW d \in Devices, Kill(d)
  PROVE  TotalInStep' /\ LabelIsTotal'
<1>1. /\ expenses'[d] = {} /\ totalExpenses'[d] = 0 /\ phase'[d] = "dead"
      /\ \A x \in Devices \ {d} :
           UNCHANGED <<phase[x], main[x], expenses[x], totalExpenses[x], budgetLabel[x]>>
  BY DEF Kill, TypeOK
<1>2. TotalInStep'
  BY <1>1, TotalOfNone DEF TotalInStep
<1>3. ASSUME NEW x \in Devices
      PROVE  phase'[x] = "home" => \/ budgetLabel'[x] = Total(expenses'[x])
                                  \/ \E i \in DOMAIN main'[x] : main'[x][i] = Load
  BY <1>1 DEF LabelIsTotal
<1> QED
  BY <1>2, <1>3 DEF LabelIsTotal

\* Every step keeps total and label in step with the list.
LEMMA NextLabel ==
  ASSUME TypeOK, TotalInStep, LabelIsTotal, [Next]_vars
  PROVE  TotalInStep' /\ LabelIsTotal'
<1> USE DEF vars, backend, store, history, budgets
<1>1. main \in [Devices -> Seq(Events)]
  BY DEF TypeOK
<1>2. ASSUME NEW d \in Devices, Launch(d) PROVE TotalInStep' /\ LabelIsTotal'
  <2>1. UNCHANGED <<screen, main>> /\ \A x \in Devices : phase'[x] = "home" => phase[x] = "home"
    BY <1>2 DEF Launch, TypeOK
  <2> QED
    BY <2>1, LabelKept DEF Longer
<1>3. ASSUME NEW d \in Devices, HomeAppears(d) PROVE TotalInStep' /\ LabelIsTotal'
  BY <1>3, HomeLabels
<1>4. ASSUME NEW d \in Devices, HomeReappears(d) PROVE TotalInStep' /\ LabelIsTotal'
  <2>1. main'[d] = Append(main[d], Load) /\ \A x \in Devices \ {d} : main'[x] = main[x]
    BY <1>1, <1>4 DEF HomeReappears
  <2>2. main[d] \in Seq(Events) /\ Load \in Events
    BY <1>1, QueueTypes
  <2>3. Longer(main[d], main'[d])
    <3>1. main'[d] = main[d] \o <<Load>> /\ <<Load>> \in Seq(Events)
      BY <2>1, <2>2, AppendBlock
    <3> QED
      BY <2>2, <3>1, JoiningIsLonger
  <2>4. UNCHANGED <<screen, phase>> /\ \A x \in Devices : Longer(main[x], main'[x])
    BY <1>4, <2>1, <2>3 DEF HomeReappears, Longer
  <2> QED
    BY <2>4, LabelKept
<1>5. ASSUME NEW d \in Devices, DeliverSnapshot(d) \/ DeliverLoad(d)
      PROVE  TotalInStep' /\ LabelIsTotal'
  BY <1>5, DeliveryLabels
<1>6. ASSUME NEW d \in Devices, Kill(d) PROVE TotalInStep' /\ LabelIsTotal'
  BY <1>6, KillLabels
<1>7. ASSUME NEW d \in Devices, RunListen(d) PROVE TotalInStep' /\ LabelIsTotal'
  <2>1. main'[d] = main[d] \/ main'[d] = Append(main[d], Snapshot(View(d)))
    BY <1>1, <1>7 DEF RunListen
  <2>2. \A x \in Devices \ {d} : main'[x] = main[x]
    BY <1>1, <1>7 DEF RunListen
  <2>3. main[d] \in Seq(Events) /\ Snapshot(View(d)) \in Events
    BY <1>1, QueueTypes, OverlayType DEF View
  <2>4. Longer(main[d], main'[d])
    BY <2>1, <2>3, AppendBlock, JoiningIsLonger DEF Longer
  <2>5. UNCHANGED <<screen, phase>> /\ \A x \in Devices : Longer(main[x], main'[x])
    BY <1>7, <2>2, <2>4 DEF RunListen, Longer
  <2> QED
    BY <2>5, LabelKept
<1>8. ASSUME NEW d \in Devices,
             \/ RunWrite(d) \/ Acknowledge(d) \/ Reject(d) \/ GoOffline(d)
             \/ \E v \in seen[d]..Len(log) : Watch(d, v)
      PROVE  TotalInStep' /\ LabelIsTotal'
  <2>1. \E S \in SUBSET Expenses : \E l, old : Raise(d, old, S, l)
    BY <1>8, OverlayType DEF RunWrite, Acknowledge, Reject, GoOffline, Watch, View
  <2>2. UNCHANGED <<screen, phase>>
    BY <1>8 DEF RunWrite, Acknowledge, Reject, GoOffline, Watch
  <2>3. \A x \in Devices : Longer(main[x], main'[x])
    BY <2>1, RaiseIsLonger
  <2> QED
    BY <2>2, <2>3, LabelKept
<1>9. ASSUME NEW d \in Devices,
             \/ \E e \in Expenses : AddExpense(d, e) \/ DeleteExpense(d, e)
             \/ Commit(d) \/ BreakWriteStream(d) \/ Reconnect(d)
      PROVE  TotalInStep' /\ LabelIsTotal'
  <2>1. UNCHANGED <<screen, phase, main>>
    BY <1>9 DEF AddExpense, DeleteExpense, Commit, BreakWriteStream, Reconnect
  <2> QED
    BY <2>1, LabelKept DEF Longer
<1>10. CASE UNCHANGED vars
  BY <1>10, LabelKept DEF Longer
<1> QED
  BY <1>2, <1>3, <1>4, <1>5, <1>6, <1>7, <1>8, <1>9, <1>10
     DEF Next, User, MainThread, Worker, WriteStream, WatchStream, Failure

-----------------------------------------------------------------------------
(* The results.                                                            *)

\* The initial state satisfies the invariant of the screen.
LEMMA InitScreenInv == Init => ScreenInv
<1> SUFFICES ASSUME Init PROVE ScreenInv
  OBVIOUS
<1>1. ASSUME NEW d \in Devices
      PROVE  Tells(main[d], expenses[d], View(d), listeners[d], link[d])
  <2>1. /\ main[d] = <<>> /\ expenses[d] = {} /\ link[d] = "waiting"
        /\ listeners[d] = [live |-> 0, waiting |-> 0]
    BY DEF Init
  <2> QED
    BY <2>1, LoadsAreQuiet DEF Tells
<1>2. TotalInStep
  BY TotalOfNone DEF Init, TotalInStep
<1>3. LabelIsTotal
  BY DEF Init, LabelIsTotal
<1> QED
  BY <1>1, <1>2, <1>3 DEF ScreenInv, ViewIsTold

\* Every step keeps it.
LEMMA NextScreenInv == IInv /\ ScreenInv /\ [Next]_vars => ScreenInv'
  BY NextViewIsTold, NextLabel DEF IInv, ScreenInv

\* The total of Home is the sum of the rows under it, unless a block that redraws
\* it is still queued, whatever the order of launch, snapshots and loadData.
THEOREM LabelKeepsTotal == Spec => []LabelIsTotal
<1>1. ScreenInv => LabelIsTotal
  BY DEF ScreenInv
<1> QED
  BY <1>1, InitScreenInv, NextScreenInv, IInvHolds, PTL DEF Spec

\* Once the queued blocks have run, the list on screen is the local view: through
\* any number of listeners, writes, answers, snapshots, outages and kills.
THEOREM ScreenShows == Spec => []ScreenWillShowView
<1>1. IInv /\ ScreenInv => ScreenWillShowView
  <2> SUFFICES ASSUME IInv, ScreenInv, NEW d \in Devices, Listening(d)
               PROVE  LastSnapshot(d) = View(d)
    BY DEF ScreenWillShowView
  <2>1. main[d] \in Seq(Events)
    BY DEF IInv, TypeOK
  <2>2. Shows(main[d], expenses[d], View(d))
    BY DEF ScreenInv, ViewIsTold, Tells, Listening
  <2> QED
    BY <2>1, <2>2, ShowsLast DEF LastSnapshot
<1> QED
  BY <1>1, InitScreenInv, NextScreenInv, IInvHolds, PTL DEF Spec
=============================================================================
