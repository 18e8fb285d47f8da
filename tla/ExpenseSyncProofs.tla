------------------------- MODULE ExpenseSyncProofs -------------------------
(***************************************************************************)
(* What holds of ExpenseSync for every number of devices and expenses, any *)
(* refused mutations and any number of failures.                           *)
(*                                                                         *)
(* The inductive invariant is IInv: the types, the agreement of the unread *)
(* answers with the mutation queue (without which the answer of one write  *)
(* could be filed under the document of another), and the coherence of the *)
(* document cache with the backend's history.                              *)
(***************************************************************************)
EXTENDS ExpenseSync, TLAPS, SequenceTheorems, WellFoundedInduction

-----------------------------------------------------------------------------
(* Sequences and maxima.                                                   *)

\* A sequence that repeats one element, as the blocks of one event do.
LEMMA RepeatedIsSeq ==
  ASSUME NEW S, NEW x \in S, NEW n \in Nat
  PROVE  [i \in 1..n |-> x] \in Seq(S)
  OBVIOUS

\* Appending is concatenating.
LEMMA AppendBlock ==
  ASSUME NEW m \in Seq(Events), NEW b \in Events
  PROVE  Append(m, b) = m \o <<b>> /\ <<b>> \in Seq(Events) /\ <<b>> = [i \in 1..1 |-> b]
  OBVIOUS

\* A non-empty set of bounded naturals has the maximum that Max picks.
LEMMA MaxOfBounded ==
  ASSUME NEW n \in Nat, NEW S \in SUBSET (0..n), S # {}
  PROVE  Max(S) \in S /\ \A y \in S : Max(S) >= y
<1> DEFINE T == {m \in Nat : n - m \in S}
<1>1. T # {}
  <2>1. PICK x \in S : TRUE
    OBVIOUS
  <2>2. n - x \in T
    BY <2>1
  <2> QED
    BY <2>2
<1>2. PICK t \in T : \A y \in T : ~ (<<y, t>> \in OpToRel(<, Nat))
  <2>1. T \subseteq Nat
    OBVIOUS
  <2> HIDE DEF T
  <2> QED
    BY <1>1, <2>1, NatLessThanWellFounded, WFMin, Zenon
<1>3. \A y \in T : ~ (y < t)
  BY <1>2 DEF OpToRel
<1>4. \A y \in S : n - t >= y
  <2> SUFFICES ASSUME NEW y \in S PROVE n - t >= y
    OBVIOUS
  <2>1. n - y \in T
    OBVIOUS
  <2>2. ~ (n - y < t)
    BY <1>3, <2>1
  <2>3. y \in Int /\ t \in Int
    OBVIOUS
  <2> HIDE DEF T
  <2> QED
    BY <2>2, <2>3
<1> QED
  BY <1>4 DEF Max

-----------------------------------------------------------------------------
(* The history of a document.                                              *)

\* LastOn is the greatest position of a mutation of e among the first v, or 0.
LEMMA LastOnIsGreatest ==
  ASSUME NEW s \in Seq(Mutations), NEW v \in 0..Len(s), NEW e \in Expenses
  PROVE  /\ LastOn(s, v, e) \in 0..v
         /\ LastOn(s, v, e) > 0 => s[LastOn(s, v, e)].doc = e
         /\ \A i \in 1..v : s[i].doc = e => i <= LastOn(s, v, e)
<1> DEFINE I == {0} \cup {i \in 1..v : s[i].doc = e}
<1>1. v \in Nat /\ I \in SUBSET (0..v) /\ I # {}
  OBVIOUS
<1>2. LastOn(s, v, e) = Max(I)
  BY DEF LastOn
<1>3. Max(I) \in I /\ \A y \in I : Max(I) >= y
  BY <1>1, MaxOfBounded
<1> QED
  BY <1>2, <1>3

\* These three facts determine it.
LEMMA LastOnUnique ==
  ASSUME NEW s \in Seq(Mutations), NEW v \in 0..Len(s), NEW e \in Expenses,
         NEW j \in 0..v, j > 0 => s[j].doc = e,
         \A i \in 1..v : s[i].doc = e => i <= j
  PROVE  LastOn(s, v, e) = j
<1>1. CASE j > 0
  BY <1>1, LastOnIsGreatest
<1>2. CASE j = 0
  BY <1>2, LastOnIsGreatest
<1> QED
  BY <1>1, <1>2

\* What a longer history says of an old version does not change.
LEMMA HistoryIsStable ==
  ASSUME NEW s \in Seq(Mutations), NEW v \in 0..Len(s), NEW e \in Expenses,
         NEW m \in Mutations
  PROVE  /\ LastOn(Append(s, m), v, e) = LastOn(s, v, e)
         /\ DocAt(Append(s, m), v, e) = DocAt(s, v, e)
<1> DEFINE t == Append(s, m)
<1>1. t \in Seq(Mutations) /\ Len(t) = Len(s) + 1 /\ \A i \in 1..Len(s) : t[i] = s[i]
  BY AppendProperties
<1>2. v \in 0..Len(t) /\ \A i \in 1..v : t[i] = s[i]
  BY <1>1
<1> HIDE DEF t
<1> DEFINE j == LastOn(s, v, e)
<1>3. LastOn(t, v, e) = j
  <2>1. j \in 0..v /\ (j > 0 => t[j].doc = e) /\ \A i \in 1..v : t[i].doc = e => i <= j
    BY <1>2, LastOnIsGreatest, SMTT(40)
  <2> HIDE DEF j
  <2> QED
    BY <1>1, <1>2, <2>1, LastOnUnique
<1>4. LastOn(s, v, e) > 0 => t[LastOn(s, v, e)] = s[LastOn(s, v, e)]
  BY <1>2, LastOnIsGreatest
<1>5. DocAt(t, v, e) = DocAt(s, v, e)
  BY <1>3, <1>4, LastOnIsGreatest DEF DocAt
<1> QED
  BY <1>3, <1>5 DEF t

\* A later version is no older, and equal when nothing happened in between.
LEMMA HistoryGrows ==
  ASSUME NEW s \in Seq(Mutations), NEW v \in 0..Len(s), NEW u \in 0..v, NEW e \in Expenses
  PROVE  /\ LastOn(s, u, e) <= LastOn(s, v, e)
         /\ LastOn(s, v, e) <= u => LastOn(s, u, e) = LastOn(s, v, e)
<1>1. u \in 0..Len(s)
  OBVIOUS
<1>2. LastOn(s, u, e) <= LastOn(s, v, e)
  BY <1>1, LastOnIsGreatest
<1>3. ASSUME LastOn(s, v, e) <= u PROVE LastOn(s, u, e) = LastOn(s, v, e)
  BY <1>1, <1>2, <1>3, LastOnIsGreatest
<1> QED
  BY <1>2, <1>3

\* A document is the same at v and at the version it has at v.
LEMMA DocAtItsVersion ==
  ASSUME NEW s \in Seq(Mutations), NEW v \in 0..Len(s), NEW e \in Expenses
  PROVE  /\ DocAt(s, v, e) \in [there : BOOLEAN, version : 0..v]
         /\ DocAt(s, v, e).version = LastOn(s, v, e)
         /\ DocAt(s, DocAt(s, v, e).version, e) = DocAt(s, v, e)
<1> DEFINE j == LastOn(s, v, e)
<1>1. j \in 0..v
  BY LastOnIsGreatest
<1>2. LastOn(s, j, e) = j
  BY <1>1, HistoryGrows
<1> QED
  BY <1>1, <1>2 DEF DocAt

\* Right after a mutation, the document is what the mutation made of it.
LEMMA DocAtMutation ==
  ASSUME NEW s \in Seq(Mutations), NEW v \in 1..Len(s)
  PROVE  /\ LastOn(s, v, s[v].doc) = v
         /\ DocAt(s, v, s[v].doc) = [there |-> s[v].op = "set", version |-> v]
<1>1. s[v] \in Mutations
  BY ElementOfSeq
<1>2. s[v].doc \in Expenses
  BY <1>1 DEF Mutations
<1>3. LastOn(s, v, s[v].doc) = v
  <2>1. v \in 0..Len(s) /\ v \in 0..v /\ \A i \in 1..v : i <= v
    OBVIOUS
  <2> QED
    BY <1>2, <2>1, LastOnUnique
<1> QED
  BY <1>3 DEF DocAt

-----------------------------------------------------------------------------
(* Types.                                                                  *)

\* The tasks and blocks the actions put on the two queues belong there.
LEMMA QueueTypes ==
  /\ Listen \in Tasks /\ <<Load>> \in Seq(Events) /\ FirstLoads \in Seq(Events)
  /\ \A e \in Expenses : Set(e) \in Mutations /\ Delete(e) \in Mutations
  /\ Mutations \subseteq Tasks /\ Load \in Events
  /\ \A S \in SUBSET Expenses : Snapshot(S) \in Events
<1>1. Load \in Events /\ \A S \in SUBSET Expenses : Snapshot(S) \in Events
  BY DEF Load, Events, Snapshot
<1>2. Listen \in Tasks /\ Mutations \subseteq Tasks
  BY DEF Tasks
<1>3. \A e \in Expenses : Set(e) \in Mutations /\ Delete(e) \in Mutations
  BY DEF Set, Delete, Mutations
<1> HIDE DEF Load, Events
<1>4. <<Load>> \in Seq(Events) /\ FirstLoads \in Seq(Events)
  BY <1>1 DEF FirstLoads
<1> QED
  BY <1>1, <1>2, <1>3, <1>4

\* The pending mutations laid over a cache make a set of expenses.
LEMMA OverlayType == \A c, p : Overlay(c, p) \in SUBSET Expenses
  BY DEF Overlay

\* Raise adds blocks to the main thread and moves listeners, nothing else.
LEMMA RaiseType ==
  ASSUME TypeOK, NEW d \in Devices, NEW old, NEW S \in SUBSET Expenses, NEW l,
         Raise(d, old, S, l)
  PROVE  /\ main' \in [Devices -> Seq(Events)]
         /\ listeners' \in [Devices -> [live : Nat, waiting : Nat]]
<1>1. listeners[d].live \in Nat /\ listeners[d].waiting \in Nat
  BY DEF TypeOK
<1>2. Heard(d, old, S, l) \in Nat /\ First(d, S, l) \in {0, listeners[d].waiting}
  BY <1>1 DEF Heard, First
<1>3. Snapshot(S) \in Events
  BY QueueTypes
<1>4. [i \in 1..(Heard(d, old, S, l) + First(d, S, l)) |-> Snapshot(S)] \in Seq(Events)
  BY <1>1, <1>2, <1>3, RepeatedIsSeq
<1>5. main' \in [Devices -> Seq(Events)]
  BY <1>4 DEF Raise, TypeOK
<1>6. listeners' \in [Devices -> [live : Nat, waiting : Nat]]
  BY <1>1, <1>2, SMTT(40) DEF Raise, TypeOK
<1> QED
  BY <1>5, <1>6

\* The initial state has the types.
LEMMA InitTypeOK == Init => TypeOK
  BY ExpenseSyncAssumption DEF Init, TypeOK, Totals

\* No step leaves the types.
LEMMA NextTypeOK == TypeOK /\ AcksMatchQueue /\ [Next]_vars => TypeOK'
<1> SUFFICES ASSUME TypeOK, AcksMatchQueue, [Next]_vars PROVE TypeOK'
  OBVIOUS
<1> USE DEF vars, backend, store, screen, history, budgets
<1>1. ASSUME NEW d \in Devices, Launch(d) PROVE TypeOK'
  <2>1. worker' \in [Devices -> Seq(Tasks)]
    BY <1>1, QueueTypes DEF Launch, Enqueue, TypeOK
  <2>2. phase' \in [Devices -> {"dead", "launched", "home"}]
    BY <1>1 DEF Launch, TypeOK
  <2>rest. UNCHANGED <<backend, store, acks, link, listeners, main, screen, history, budgets>>
    BY <1>1 DEF Launch
  <2> QED
    BY <2>1, <2>2, <2>rest DEF TypeOK
<1>2. ASSUME NEW d \in Devices, HomeAppears(d) PROVE TypeOK'
  <2>1. main' \in [Devices -> Seq(Events)]
    BY <1>2, QueueTypes DEF HomeAppears, TypeOK
  <2>2. worker' \in [Devices -> Seq(Tasks)]
    BY <1>2, QueueTypes DEF HomeAppears, Enqueue, TypeOK
  <2>own. phase' \in [Devices -> {"dead", "launched", "home"}]
    BY <1>2 DEF HomeAppears, TypeOK
  <2>rest. UNCHANGED <<backend, store, acks, link, listeners, screen, history, budgets>>
    BY <1>2 DEF HomeAppears
  <2> QED
    BY <2>1, <2>2, <2>own, <2>rest DEF TypeOK
<1>3. ASSUME NEW d \in Devices, HomeReappears(d) PROVE TypeOK'
  <2>1. main' \in [Devices -> Seq(Events)]
    BY <1>3, QueueTypes DEF HomeReappears, TypeOK
  <2>2. worker' \in [Devices -> Seq(Tasks)]
    BY <1>3, QueueTypes DEF HomeReappears, Enqueue, TypeOK
  <2>rest. UNCHANGED <<backend, phase, store, acks, link, listeners, screen, history,
                  budgets>>
    BY <1>3 DEF HomeReappears
  <2> QED
    BY <2>1, <2>2, <2>rest DEF TypeOK
<1>4. ASSUME NEW d \in Devices, NEW e \in Expenses, AddExpense(d, e) PROVE TypeOK'
  <2>1. worker' \in [Devices -> Seq(Tasks)]
    BY <1>4, QueueTypes DEF AddExpense, Enqueue, TypeOK
  <2>own. accepted' \subseteq Expenses
    BY <1>4 DEF AddExpense, TypeOK
  <2>rest. UNCHANGED <<backend, phase, store, acks, link, listeners, main, screen, lost,
                  written, erased, budgets>>
    BY <1>4 DEF AddExpense
  <2> QED
    BY <2>1, <2>own, <2>rest DEF TypeOK
<1>5. ASSUME NEW d \in Devices, NEW e \in Expenses, DeleteExpense(d, e) PROVE TypeOK'
  <2>1. worker' \in [Devices -> Seq(Tasks)]
    BY <1>5, QueueTypes DEF DeleteExpense, Enqueue, TypeOK
  <2>2. {deletes', breaks', outages', kills'} \subseteq Nat
    BY <1>5, SMTT(40) DEF DeleteExpense, TypeOK
  <2>rest. UNCHANGED <<backend, phase, store, acks, link, listeners, main, screen,
                  history, breaks, outages, kills>>
    BY <1>5 DEF DeleteExpense
  <2> QED
    BY <2>1, <2>2, <2>rest DEF TypeOK
<1>6. ASSUME NEW d \in Devices, DeliverSnapshot(d) PROVE TypeOK'
  <2> DEFINE S == Head(main[d]).docs
  <2>1. main[d] \in Seq(Events) /\ main[d] # <<>> /\ Head(main[d]).kind = "snapshot"
    BY <1>6 DEF DeliverSnapshot, TypeOK
  <2>2. Head(main[d]) \in Events /\ Tail(main[d]) \in Seq(Events)
    BY <2>1
  <2>3. S \in SUBSET Expenses
    BY <2>1, <2>2 DEF Events, Load
  <2>4. Total(S) \in Totals
    BY <2>3 DEF Totals
  <2> HIDE DEF S
  <2>5. /\ expenses' = [expenses EXCEPT ![d] = S]
        /\ totalExpenses' = [totalExpenses EXCEPT ![d] = Total(S)]
        /\ budgetLabel' = [budgetLabel EXCEPT ![d] = IF phase[d] = "home" THEN Total(S) ELSE @]
        /\ main' = [main EXCEPT ![d] = Tail(@)]
    BY <1>6 DEF DeliverSnapshot, S
  <2>6. /\ expenses' \in [Devices -> SUBSET Expenses]
        /\ totalExpenses' \in [Devices -> Totals]
        /\ budgetLabel' \in [Devices -> Totals \cup {Placeholder}]
        /\ main' \in [Devices -> Seq(Events)]
    BY <2>2, <2>3, <2>4, <2>5 DEF TypeOK
  <2>rest. UNCHANGED <<backend, phase, worker, store, acks, link, listeners, history,
                  budgets>>
    BY <1>6 DEF DeliverSnapshot
  <2> QED
    BY <2>6, <2>rest DEF TypeOK
<1>7. ASSUME NEW d \in Devices, DeliverLoad(d) PROVE TypeOK'
  <2>1. main' \in [Devices -> Seq(Events)]
    BY <1>7 DEF DeliverLoad, TypeOK
  <2>own. budgetLabel' \in [Devices -> Totals \cup {Placeholder}]
    BY <1>7 DEF DeliverLoad, TypeOK
  <2>rest. UNCHANGED <<backend, phase, worker, store, acks, link, listeners, expenses,
                  totalExpenses, history, budgets>>
    BY <1>7 DEF DeliverLoad
  <2> QED
    BY <2>1, <2>own, <2>rest DEF TypeOK
<1>8. ASSUME NEW d \in Devices, Kill(d) PROVE TypeOK'
  <2>1. {deletes', breaks', outages', kills'} \subseteq Nat /\ lost' \subseteq Expenses
    BY <1>8, SMTT(40) DEF Kill, TypeOK
  <2>2. /\ worker' \in [Devices -> Seq(Tasks)] /\ acks' \in [Devices -> Seq(Nat)]
        /\ main' \in [Devices -> Seq(Events)]
        /\ listeners' \in [Devices -> [live : Nat, waiting : Nat]]
    BY <1>8, SMTT(40) DEF Kill, TypeOK
  <2>3. /\ expenses' \in [Devices -> SUBSET Expenses]
        /\ totalExpenses' \in [Devices -> Totals]
        /\ budgetLabel' \in [Devices -> Totals \cup {Placeholder}]
    BY <1>8 DEF Kill, TypeOK, Totals
  <2>own. /\ phase' \in [Devices -> {"dead", "launched", "home"}]
        /\ link' \in [Devices -> {"waiting", "current", "offline"}]
    BY <1>8 DEF Kill, TypeOK
  <2>rest. UNCHANGED <<backend, store, accepted, written, erased, deletes, breaks,
                  outages>>
    BY <1>8 DEF Kill
  <2> QED
    BY <2>1, <2>2, <2>3, <2>own, <2>rest DEF TypeOK
<1>9. ASSUME NEW d \in Devices, RunListen(d) PROVE TypeOK'
  <2>1. Snapshot(View(d)) \in Events
    BY QueueTypes, OverlayType DEF View
  <2>2. main' \in [Devices -> Seq(Events)]
    BY <1>9, <2>1 DEF RunListen, TypeOK
  <2>3. worker' \in [Devices -> Seq(Tasks)]
    BY <1>9 DEF RunListen, TypeOK
  <2>4. listeners' \in [Devices -> [live : Nat, waiting : Nat]]
    <3>1. \/ listeners' = [listeners EXCEPT ![d].live = @ + 1]
          \/ listeners' = [listeners EXCEPT ![d].waiting = @ + 1]
      BY <1>9 DEF RunListen, Ready
    <3>2. listeners \in [Devices -> [live : Nat, waiting : Nat]]
      BY DEF TypeOK
    <3> QED
      BY <3>1, <3>2
  <2>rest. UNCHANGED <<backend, phase, store, acks, link, screen, history, budgets>>
    BY <1>9 DEF RunListen
  <2> QED
    BY <2>2, <2>3, <2>4, <2>rest DEF TypeOK
<1>10. ASSUME NEW d \in Devices, RunWrite(d) PROVE TypeOK'
  <2> DEFINE m == Head(worker[d])
  <2>1. worker[d] \in Seq(Tasks) /\ worker[d] # <<>> /\ m # Listen
    BY <1>10 DEF RunWrite, TypeOK
  <2>2. m \in Mutations /\ m.doc \in Expenses
    BY <2>1 DEF Tasks, Mutations
  <2>3. pending' \in [Devices -> Seq(Mutations)] /\ worker' \in [Devices -> Seq(Tasks)]
    BY <1>10, <2>1, <2>2, SMTT(40) DEF RunWrite, TypeOK, Persist
  <2>4. written' \in [Devices -> SUBSET Expenses] /\ erased' \in [Devices -> SUBSET Expenses]
    BY <1>10, <2>2 DEF RunWrite, TypeOK
  <2>5. /\ main' \in [Devices -> Seq(Events)]
        /\ listeners' \in [Devices -> [live : Nat, waiting : Nat]]
    BY <1>10, OverlayType, RaiseType DEF RunWrite
  <2>rest. UNCHANGED <<backend, phase, cached, seen, acks, link, screen, accepted, lost,
                  budgets>>
    BY <1>10 DEF RunWrite
  <2> QED
    BY <2>3, <2>4, <2>5, <2>rest DEF TypeOK
<1>11. ASSUME NEW d \in Devices, Commit(d) PROVE TypeOK'
  <2>1. pending[d] \in Seq(Mutations) /\ acks[d] \in Seq(Nat) /\ log \in Seq(Mutations)
    BY DEF TypeOK
  <2>2. NextToSend(d) \in 1..Len(pending[d])
    BY <1>11, <2>1 DEF Commit, NextToSend
  <2>3. pending[d][NextToSend(d)] \in Mutations
    BY <2>1, <2>2, ElementOfSeq
  <2>4. log' \in Seq(Mutations) /\ acks' \in [Devices -> Seq(Nat)]
    BY <1>11, <2>1, <2>3 DEF Commit, TypeOK
  <2>rest. UNCHANGED <<rejected, phase, worker, store, link, listeners, main, screen,
                  history, budgets>>
    BY <1>11 DEF Commit
  <2> QED
    BY <2>4, <2>rest DEF TypeOK
<1>12. ASSUME NEW d \in Devices, Acknowledge(d) PROVE TypeOK'
  <2> DEFINE c == Acked(cached[d], Head(pending[d]), Head(acks[d]))
  <2>1. pending[d] # <<>> /\ Head(pending[d]) \in Mutations /\ Head(acks[d]) \in Nat
    BY <1>12, SMTT(40) DEF Acknowledge, AcksMatchQueue, TypeOK
  <2>2. c \in [Expenses -> [there : BOOLEAN, version : Nat]]
    BY <2>1 DEF Acked, TypeOK, Mutations
  <2> HIDE DEF c
  <2>3. /\ cached' = [cached EXCEPT ![d] = c]
        /\ Raise(d, View(d), Overlay(c, Tail(pending[d])), link[d])
    BY <1>12 DEF Acknowledge, c
  <2>4. cached' \in [Devices -> [Expenses -> [there : BOOLEAN, version : Nat]]]
    BY <2>2, <2>3 DEF TypeOK
  <2>5. pending' \in [Devices -> Seq(Mutations)] /\ acks' \in [Devices -> Seq(Nat)]
    BY <1>12, <2>1, SMTT(40) DEF Acknowledge, TypeOK
  <2>6. /\ main' \in [Devices -> Seq(Events)]
        /\ listeners' \in [Devices -> [live : Nat, waiting : Nat]]
    BY <2>3, OverlayType, RaiseType
  <2>rest. UNCHANGED <<backend, phase, worker, seen, link, screen, history, budgets>>
    BY <1>12 DEF Acknowledge
  <2> QED
    BY <2>4, <2>5, <2>6, <2>rest DEF TypeOK
<1>13. ASSUME NEW d \in Devices, Reject(d) PROVE TypeOK'
  <2>1. pending' \in [Devices -> Seq(Mutations)] /\ rejected' \subseteq Mutations
    BY <1>13 DEF Reject, TypeOK
  <2>2. /\ main' \in [Devices -> Seq(Events)]
        /\ listeners' \in [Devices -> [live : Nat, waiting : Nat]]
    BY <1>13, OverlayType, RaiseType DEF Reject
  <2>rest. UNCHANGED <<log, phase, worker, cached, seen, acks, link, screen, history,
                  budgets>>
    BY <1>13 DEF Reject
  <2> QED
    BY <2>1, <2>2, <2>rest DEF TypeOK
<1>14. ASSUME NEW d \in Devices, BreakWriteStream(d) PROVE TypeOK'
  BY <1>14, SMTT(40) DEF BreakWriteStream, TypeOK
<1>15. ASSUME NEW d \in Devices, NEW v \in seen[d]..Len(log), Watch(d, v) PROVE TypeOK'
  <2>1. log \in Seq(Mutations) /\ v \in 0..Len(log) /\ v \in Nat
    BY DEF TypeOK
  <2>2. \A e \in Expenses : DocAt(log, v, e) \in [there : BOOLEAN, version : Nat]
    BY <2>1, DocAtItsVersion
  <2> DEFINE c == [e \in Expenses |->
                     LET new == DocAt(log, v, e) IN
                     IF new.version > seen[d] /\ Newer(cached[d], e, new.version)
                       THEN new ELSE cached[d][e]]
  <2>3. c \in [Expenses -> [there : BOOLEAN, version : Nat]]
    BY <2>2 DEF TypeOK
  <2> HIDE DEF c
  <2>4. cached' = [cached EXCEPT ![d] = c] /\ Raise(d, View(d), Overlay(c, pending[d]), "current")
    BY <1>15 DEF Watch, c
  <2>5. cached' \in [Devices -> [Expenses -> [there : BOOLEAN, version : Nat]]]
    BY <2>3, <2>4 DEF TypeOK
  <2>6. /\ main' \in [Devices -> Seq(Events)]
        /\ listeners' \in [Devices -> [live : Nat, waiting : Nat]]
    BY <2>4, OverlayType, RaiseType
  <2>7. /\ seen' \in [Devices -> Nat]
        /\ link' \in [Devices -> {"waiting", "current", "offline"}]
    BY <1>15, <2>1 DEF Watch, TypeOK
  <2>rest. UNCHANGED <<backend, phase, worker, pending, acks, screen, history, budgets>>
    BY <1>15 DEF Watch
  <2> QED
    BY <2>5, <2>6, <2>7, <2>rest DEF TypeOK
<1>16. ASSUME NEW d \in Devices, GoOffline(d) PROVE TypeOK'
  <2>1. View(d) \in SUBSET Expenses
    BY OverlayType DEF View
  <2>2. /\ main' \in [Devices -> Seq(Events)]
        /\ listeners' \in [Devices -> [live : Nat, waiting : Nat]]
    BY <1>16, <2>1, RaiseType DEF GoOffline
  <2>3. {deletes', breaks', outages', kills'} \subseteq Nat
    BY <1>16 DEF GoOffline, TypeOK
  <2>own. link' \in [Devices -> {"waiting", "current", "offline"}]
    BY <1>16 DEF GoOffline, TypeOK
  <2>rest. UNCHANGED <<backend, phase, worker, store, acks, screen, history, deletes,
                  breaks, kills>>
    BY <1>16 DEF GoOffline
  <2> QED
    BY <2>2, <2>3, <2>own, <2>rest DEF TypeOK
<1>17. ASSUME NEW d \in Devices, Reconnect(d) PROVE TypeOK'
  BY <1>17 DEF Reconnect, TypeOK
<1>18. CASE UNCHANGED vars
  BY <1>18 DEF TypeOK
<1> QED
  BY <1>1, <1>2, <1>3, <1>4, <1>5, <1>6, <1>7, <1>8, <1>9, <1>10, <1>11, <1>12, <1>13,
     <1>14, <1>15, <1>16, <1>17, <1>18
     DEF Next, User, MainThread, Worker, WriteStream, WatchStream, Failure

-----------------------------------------------------------------------------
(* The inductive invariant.                                                *)

\* The watch stream has shown nothing the backend has not committed.
SeenIsPast == \A d \in Devices : seen[d] <= Len(log)

IInv == TypeOK /\ AcksMatchQueue /\ SeenIsPast /\ CacheCoherent

\* The initial state satisfies the inductive invariant.
LEMMA InitIInv == Init => IInv
<1> SUFFICES ASSUME Init PROVE IInv
  OBVIOUS
<1>1. TypeOK
  BY InitTypeOK
<1>2. AcksMatchQueue /\ SeenIsPast
  BY DEF Init, AcksMatchQueue, SeenIsPast
<1>3. CacheCoherent
  <2> SUFFICES ASSUME NEW d \in Devices, NEW e \in Expenses
               PROVE  /\ cached[d][e] = DocAt(log, cached[d][e].version, e)
                      /\ cached[d][e].version \in LastOn(log, seen[d], e)..Len(log)
    BY DEF CacheCoherent
  <2>1. log = <<>> /\ seen[d] = 0 /\ Len(log) = 0
    BY DEF Init
  <2>2. LastOn(log, 0, e) = 0
    <3>1. log \in Seq(Mutations) /\ 0 \in 0..Len(log)
      BY <2>1
    <3>2. LastOn(log, 0, e) \in 0..0
      BY <3>1, LastOnIsGreatest
    <3> QED
      BY <3>2
  <2>3. cached[d][e] = [there |-> FALSE, version |-> 0]
    BY DEF Init
  <2>4. DocAt(log, 0, e) = [there |-> FALSE, version |-> 0]
    <3>1. (0 > 0 /\ log[0].op = "set") = FALSE
      OBVIOUS
    <3>2. DocAt(log, 0, e) = [there |-> 0 > 0 /\ log[0].op = "set", version |-> 0]
      BY <2>2, Zenon DEF DocAt
    <3> QED
      BY <3>1, <3>2, Zenon
  <2> QED
    BY <2>1, <2>2, <2>3, <2>4
<1> QED
  BY <1>1, <1>2, <1>3 DEF IInv

\* The step proofs need one device at a time.
AckOK(d) ==
  /\ Len(acks[d]) <= Len(pending[d])
  /\ \A k \in DOMAIN acks[d] :
       acks[d][k] \in DOMAIN log /\ log[acks[d][k]] = pending[d][k]

\* What each kind of step leaves alone: few of them touch the backend's log, the
\* mutation queue, the answers or the cache.
LEMMA Frames ==
  ASSUME NEW d \in Devices
  PROVE  /\ User(d) => UNCHANGED <<log, pending, acks, cached, seen>>
         /\ MainThread(d) => UNCHANGED <<log, pending, acks, cached, seen>>
         /\ RunListen(d) \/ GoOffline(d) \/ Reconnect(d)
              => UNCHANGED <<log, pending, acks, cached, seen>>
         /\ RunWrite(d) => UNCHANGED <<log, acks, cached, seen>>
         /\ Commit(d) => UNCHANGED <<pending, cached, seen>>
         /\ Acknowledge(d) => UNCHANGED <<log, seen>>
         /\ Reject(d) => UNCHANGED <<log, acks, cached, seen>>
         /\ BreakWriteStream(d) \/ Kill(d) => UNCHANGED <<log, pending, cached, seen>>
         /\ \A v : Watch(d, v) => UNCHANGED <<log, pending, acks>>
<1> USE DEF backend, store
<1>1. User(d) => UNCHANGED <<log, pending, acks, cached, seen>>
  BY DEF User, HomeReappears, AddExpense, DeleteExpense
<1>2. MainThread(d) => UNCHANGED <<log, pending, acks, cached, seen>>
  BY DEF MainThread, Launch, HomeAppears, DeliverSnapshot, DeliverLoad
<1>3. RunListen(d) \/ GoOffline(d) \/ Reconnect(d)
        => UNCHANGED <<log, pending, acks, cached, seen>>
  BY DEF RunListen, GoOffline, Reconnect
<1>4. RunWrite(d) => UNCHANGED <<log, acks, cached, seen>>
  BY DEF RunWrite
<1>5. Commit(d) => UNCHANGED <<pending, cached, seen>>
  BY DEF Commit
<1>6. Acknowledge(d) => UNCHANGED <<log, seen>>
  BY DEF Acknowledge
<1>7. Reject(d) => UNCHANGED <<log, acks, cached, seen>>
  BY DEF Reject
<1>8. BreakWriteStream(d) \/ Kill(d) => UNCHANGED <<log, pending, cached, seen>>
  BY DEF BreakWriteStream, Kill
<1>9. \A v : Watch(d, v) => UNCHANGED <<log, pending, acks>>
  BY DEF Watch
<1> QED
  BY <1>1, <1>2, <1>3, <1>4, <1>5, <1>6, <1>7, <1>8, <1>9

\* The log is only ever appended to, so what holds of an old position stays true.
LEMMA LogGrows ==
  ASSUME TypeOK, [Next]_vars
  PROVE  log' = log \/ \E m \in Mutations : log' = Append(log, m)
<1> USE DEF vars, backend, store, screen, history, budgets
<1>1. ASSUME NEW d \in Devices, Commit(d) PROVE \E m \in Mutations : log' = Append(log, m)
  <2>1. pending[d] \in Seq(Mutations) /\ acks[d] \in Seq(Nat)
    BY DEF TypeOK
  <2>2. NextToSend(d) \in 1..Len(pending[d])
    BY <1>1, <2>1 DEF Commit, NextToSend
  <2>3. pending[d][NextToSend(d)] \in Mutations
    BY <2>1, <2>2, ElementOfSeq
  <2> QED
    BY <1>1, <2>3 DEF Commit
<1>2. ASSUME ~ \E d \in Devices : Commit(d) PROVE log' = log
  BY <1>2, Frames DEF Next, Worker, WriteStream, WatchStream, Failure
<1> QED
  BY <1>1, <1>2

\* What a sequence held is still there, at the same place, after an append.
LEMMA AppendKeeps ==
  ASSUME NEW s \in Seq(Mutations), NEW t, t = s \/ \E m \in Mutations : t = Append(s, m)
  PROVE  /\ Len(s) <= Len(t) /\ DOMAIN s \subseteq DOMAIN t
         /\ \A i \in DOMAIN s : t[i] = s[i]
<1>1. CASE t = s
  BY <1>1
<1>2. ASSUME NEW m \in Mutations, t = Append(s, m)
      PROVE  /\ Len(s) <= Len(t) /\ DOMAIN s \subseteq DOMAIN t
             /\ \A i \in DOMAIN s : t[i] = s[i]
  BY <1>2
<1> QED
  BY <1>1, <1>2

\* Answers stay right while the queue only gets longer.
LEMMA AckKept ==
  ASSUME TypeOK, NEW x \in Devices, AckOK(x),
         log' = log \/ \E m \in Mutations : log' = Append(log, m),
         acks'[x] = acks[x],
         pending'[x] = pending[x] \/ \E m \in Mutations : pending'[x] = Append(pending[x], m)
  PROVE  AckOK(x)'
<1>1. log \in Seq(Mutations) /\ pending[x] \in Seq(Mutations) /\ acks[x] \in Seq(Nat)
  BY DEF TypeOK
<1>2. DOMAIN log \subseteq DOMAIN log' /\ \A i \in DOMAIN log : log'[i] = log[i]
  BY <1>1, AppendKeeps
<1>3. /\ Len(pending[x]) <= Len(pending'[x]) /\ DOMAIN pending[x] \subseteq DOMAIN pending'[x]
      /\ \A k \in DOMAIN pending[x] : pending'[x][k] = pending[x][k]
  BY <1>1, AppendKeeps
<1>4. Len(acks'[x]) <= Len(pending'[x])
  <2>1. /\ Len(acks[x]) <= Len(pending[x]) /\ Len(acks[x]) \in Nat
        /\ Len(pending[x]) \in Nat /\ Len(pending'[x]) \in Nat
    BY <1>1 DEF AckOK
  <2> QED
    BY <1>3, <2>1
<1>5. ASSUME NEW k \in DOMAIN acks'[x]
      PROVE  acks'[x][k] \in DOMAIN log' /\ log'[acks'[x][k]] = pending'[x][k]
  <2>1. k \in DOMAIN acks[x] /\ k \in DOMAIN pending[x]
    BY <1>1, <1>5 DEF AckOK
  <2>2. acks[x][k] \in DOMAIN log /\ log[acks[x][k]] = pending[x][k]
    BY <2>1 DEF AckOK
  <2> QED
    BY <1>2, <1>3, <2>1, <2>2
<1> QED
  BY <1>4, <1>5 DEF AckOK

\* No answers, nothing to agree with.
LEMMA AckNone ==
  ASSUME NEW x \in Devices, acks'[x] = <<>>, pending'[x] \in Seq(Mutations)
  PROVE  AckOK(x)'
  BY DEF AckOK

\* Every step keeps the unread answers in line with the mutation queue.
LEMMA NextAcksMatchQueue == TypeOK /\ AcksMatchQueue /\ [Next]_vars => AcksMatchQueue'
<1> SUFFICES ASSUME TypeOK, AcksMatchQueue, [Next]_vars, NEW x \in Devices PROVE AckOK(x)'
  BY DEF AcksMatchQueue, AckOK
<1> USE DEF vars, backend, store, screen, history, budgets
<1>0. /\ AckOK(x) /\ TypeOK'
      /\ log \in Seq(Mutations) /\ pending[x] \in Seq(Mutations) /\ acks[x] \in Seq(Nat)
      /\ pending'[x] \in Seq(Mutations)
      /\ acks \in [Devices -> Seq(Nat)] /\ pending \in [Devices -> Seq(Mutations)]
  BY NextTypeOK DEF TypeOK, AcksMatchQueue, AckOK
<1>len. /\ Len(acks[x]) \in Nat /\ DOMAIN acks[x] = 1..Len(acks[x])
       /\ Len(pending[x]) \in Nat /\ Len(log) \in Nat /\ DOMAIN log = 1..Len(log)
  BY <1>0
<1>1. CASE acks'[x] = acks[x] /\ pending'[x] = pending[x]
  BY <1>0, <1>1, LogGrows, AckKept
<1>2. ASSUME NEW d \in Devices, RunWrite(d) PROVE AckOK(x)'
  <2>1. acks'[x] = acks[x]
    BY <1>2 DEF RunWrite
  <2>2. CASE d = x
    <3>w. worker \in [Devices -> Seq(Tasks)]
      BY DEF TypeOK
    <3>h. worker[d] # <<>> /\ Head(worker[d]) # Listen
      BY <1>2 DEF RunWrite
    <3>1. Head(worker[d]) \in Mutations
      <4>1. Head(worker[d]) \in Tasks
        BY <3>w, <3>h
      <4> QED
        BY <3>h, <4>1 DEF Tasks
    <3>2. pending'[x] = Append(pending[x], Head(worker[d]))
      BY <1>0, <1>2, <2>2 DEF RunWrite, Persist
    <3> QED
      BY <1>0, <2>1, <3>1, <3>2, LogGrows, AckKept
  <2>3. CASE d # x
    <3>1. pending'[x] = pending[x]
      BY <1>0, <1>2, <2>3 DEF RunWrite
    <3> QED
      BY <1>1, <2>1, <3>1
  <2> QED
    BY <2>2, <2>3
<1>3. ASSUME NEW d \in Devices, Kill(d) \/ BreakWriteStream(d) PROVE AckOK(x)'
  <2>1. CASE d = x
    <3>1. acks'[x] = <<>>
      BY <1>0, <1>3, <2>1 DEF Kill, BreakWriteStream
    <3> QED
      BY <1>0, <3>1, AckNone
  <2>2. CASE d # x
    <3>1. acks'[x] = acks[x] /\ pending'[x] = pending[x]
      BY <1>0, <1>3, <2>2 DEF Kill, BreakWriteStream
    <3> QED
      BY <1>1, <3>1
  <2> QED
    BY <2>1, <2>2
<1>4. ASSUME NEW d \in Devices, Reject(d) PROVE AckOK(x)'
  <2>1. CASE d = x
    <3>1. acks'[x] = <<>>
      BY <1>4, <2>1 DEF Reject
    <3> QED
      BY <1>0, <3>1, AckNone
  <2>2. CASE d # x
    <3>1. acks'[x] = acks[x] /\ pending'[x] = pending[x]
      BY <1>0, <1>4, <2>2 DEF Reject
    <3> QED
      BY <1>1, <3>1
  <2> QED
    BY <2>1, <2>2
<1>5. ASSUME NEW d \in Devices, Commit(d) PROVE AckOK(x)'
  <2>1. CASE d = x
    <3> DEFINE n == Len(acks[x]) + 1
    <3>1. n \in 1..Len(pending[x]) /\ pending[x][n] \in Mutations
      BY <1>0, <1>5, <2>1, ElementOfSeq DEF Commit, NextToSend
    <3>0. pending'[x] = pending[x]
      BY <1>0, <1>5, <2>1 DEF Commit
    <3>2. log' = Append(log, pending[x][n]) /\ acks'[x] = Append(acks[x], Len(log) + 1)
      BY <1>0, <1>5, <2>1 DEF Commit, NextToSend
    <3>3. /\ Len(acks'[x]) = n /\ DOMAIN acks'[x] = 1..n
          /\ \A k \in 1..Len(acks[x]) : acks'[x][k] = acks[x][k]
          /\ acks'[x][n] = Len(log) + 1
      BY <1>0, <3>2
    <3>4. /\ DOMAIN log = 1..Len(log) /\ DOMAIN log' = 1..(Len(log) + 1)
          /\ \A i \in 1..Len(log) : log'[i] = log[i]
          /\ log'[Len(log) + 1] = pending[x][n]
      BY <1>0, <3>1, <3>2
    <3>5. ASSUME NEW k \in DOMAIN acks'[x]
          PROVE  acks'[x][k] \in DOMAIN log' /\ log'[acks'[x][k]] = pending'[x][k]
      <4>1. CASE k = n
        BY <1>len, <3>0, <3>3, <3>4, <4>1
      <4>2. CASE k # n
        <5>1. k \in DOMAIN acks[x]
          BY <1>len, <3>3, <3>5, <4>2
        <5>2. acks[x][k] \in DOMAIN log /\ log[acks[x][k]] = pending[x][k]
          BY <1>0, <5>1 DEF AckOK
        <5>3. acks'[x][k] = acks[x][k]
          BY <1>len, <3>3, <5>1
        <5> QED
          BY <1>len, <3>0, <3>4, <5>2, <5>3
      <4> QED
        BY <4>1, <4>2
    <3> QED
      BY <3>0, <3>1, <3>3, <3>5 DEF AckOK
  <2>2. CASE d # x
    <3>1. acks'[x] = acks[x] /\ pending'[x] = pending[x]
      BY <1>0, <1>5, <2>2 DEF Commit
    <3> QED
      BY <1>1, <3>1
  <2> QED
    BY <2>1, <2>2
<1>6. ASSUME NEW d \in Devices, Acknowledge(d) PROVE AckOK(x)'
  <2>1. CASE d = x
    <3>1. acks[x] # <<>> /\ pending[x] # <<>>
      BY <1>0, <1>6, <2>1 DEF Acknowledge, AckOK
    <3>2. acks'[x] = Tail(acks[x]) /\ pending'[x] = Tail(pending[x]) /\ log' = log
      BY <1>0, <1>6, <2>1 DEF Acknowledge
    <3>3. /\ Len(acks'[x]) = Len(acks[x]) - 1 /\ Len(pending'[x]) = Len(pending[x]) - 1
          /\ DOMAIN acks'[x] = 1..(Len(acks[x]) - 1)
          /\ \A k \in 1..(Len(acks[x]) - 1) : acks'[x][k] = acks[x][k + 1]
          /\ \A k \in 1..(Len(pending[x]) - 1) : pending'[x][k] = pending[x][k + 1]
      BY <1>0, <3>1, <3>2
    <3>4. Len(acks[x]) <= Len(pending[x]) /\ DOMAIN acks[x] = 1..Len(acks[x])
      BY <1>0 DEF AckOK
    <3>5. ASSUME NEW k \in DOMAIN acks'[x]
          PROVE  acks'[x][k] \in DOMAIN log' /\ log'[acks'[x][k]] = pending'[x][k]
      <4>1. k + 1 \in DOMAIN acks[x] /\ k \in 1..(Len(acks[x]) - 1) /\ k \in 1..(Len(pending[x]) - 1)
        BY <1>len, <3>3, <3>4, <3>5
      <4>2. acks[x][k + 1] \in DOMAIN log /\ log[acks[x][k + 1]] = pending[x][k + 1]
        BY <1>0, <4>1 DEF AckOK
      <4> QED
        BY <3>2, <3>3, <4>1, <4>2
    <3>6. Len(acks'[x]) <= Len(pending'[x])
      BY <1>len, <3>3, <3>4
    <3> QED
      BY <3>5, <3>6 DEF AckOK
  <2>2. CASE d # x
    <3>1. acks'[x] = acks[x] /\ pending'[x] = pending[x]
      BY <1>0, <1>6, <2>2 DEF Acknowledge
    <3> QED
      BY <1>1, <3>1
  <2> QED
    BY <2>1, <2>2
<1>7. ASSUME ~ \E d \in Devices : \/ RunWrite(d) \/ Kill(d) \/ BreakWriteStream(d) \/ Reject(d)
                                 \/ Commit(d) \/ Acknowledge(d)
      PROVE  acks' = acks /\ pending' = pending
  BY <1>7, Frames DEF Next, Worker, WriteStream, WatchStream, Failure
<1> QED
  BY <1>1, <1>2, <1>3, <1>4, <1>5, <1>6, <1>7

-----------------------------------------------------------------------------
(* The document cache.                                                     *)

\* No device has seen a version the backend has not reached.
LEMMA NextSeenIsPast == TypeOK /\ SeenIsPast /\ [Next]_vars => SeenIsPast'
<1> SUFFICES ASSUME TypeOK, SeenIsPast, [Next]_vars, NEW x \in Devices
             PROVE  seen'[x] <= Len(log')
  BY DEF SeenIsPast
<1> USE DEF vars, backend, store, screen, history, budgets
<1>1. log \in Seq(Mutations) /\ seen[x] \in Nat /\ seen[x] <= Len(log) /\ Len(log) \in Nat
  BY DEF TypeOK, SeenIsPast
<1>2. Len(log) <= Len(log') /\ Len(log') \in Nat
  BY <1>1, LogGrows
<1>3. ASSUME NEW d \in Devices, NEW v \in seen[d]..Len(log), Watch(d, v)
      PROVE  seen'[x] <= Len(log')
  <2>1. seen'[x] = IF x = d THEN v ELSE seen[x]
    BY <1>3 DEF Watch, TypeOK
  <2>2. v <= Len(log) /\ v \in Int
    BY DEF TypeOK
  <2> QED
    BY <1>1, <1>2, <2>1, <2>2
<1>4. ASSUME ~ \E d \in Devices : \E v \in seen[d]..Len(log) : Watch(d, v)
      PROVE  seen' = seen
  BY <1>4, Frames DEF Next, Worker, WriteStream, WatchStream, Failure
<1> QED
  BY <1>1, <1>2, <1>3, <1>4

\* A document r cached when w is the last version seen: it is what the history s
\* says of its version, and no older than w.
Faithful(r, s, w, e) ==
  /\ r = DocAt(s, r.version, e)
  /\ r.version \in LastOn(s, w, e)..Len(s)

\* It stays so while the history grows.
LEMMA FaithfulKept ==
  ASSUME NEW s \in Seq(Mutations), NEW t, t = s \/ \E m \in Mutations : t = Append(s, m),
         NEW e \in Expenses, NEW w \in 0..Len(s), NEW r \in [there : BOOLEAN, version : Nat],
         Faithful(r, s, w, e)
  PROVE  Faithful(r, t, w, e)
<1>1. CASE t = s
  BY <1>1
<1>2. ASSUME NEW m \in Mutations, t = Append(s, m) PROVE Faithful(r, t, w, e)
  <2>1. r.version \in 0..Len(s)
    BY LastOnIsGreatest DEF Faithful
  <2>2. DocAt(t, r.version, e) = DocAt(s, r.version, e) /\ LastOn(t, w, e) = LastOn(s, w, e)
    BY <1>2, <2>1, HistoryIsStable
  <2>3. Len(t) = Len(s) + 1 /\ LastOn(s, w, e) \in Nat /\ Len(s) \in Nat
    BY <1>2, LastOnIsGreatest
  <2>4. r.version \in LastOn(t, w, e)..Len(t)
    BY <2>2, <2>3 DEF Faithful
  <2> QED
    BY <2>2, <2>4 DEF Faithful
<1> QED
  BY <1>1, <1>2

\* The answer to a write: the document as the write left it, if that is newer.
LEMMA FaithfulAcked ==
  ASSUME NEW s \in Seq(Mutations), NEW w \in 0..Len(s), NEW e \in Expenses,
         NEW c \in [Expenses -> [there : BOOLEAN, version : Nat]],
         NEW v \in 1..Len(s), Faithful(c[e], s, w, e)
  PROVE  Faithful(Acked(c, s[v], v)[e], s, w, e) /\ Acked(c, s[v], v)[e].version >= c[e].version
<1>0. s[v] \in Mutations /\ v \in Nat /\ Len(s) \in Nat
  BY ElementOfSeq
<1>1. s[v].doc \in Expenses /\ v \in Nat /\ Len(s) \in Nat
  BY <1>0 DEF Mutations
<1>2. CASE Newer(c, s[v].doc, v) /\ e = s[v].doc
  <2> DEFINE r == [there |-> s[v].op = "set", version |-> v]
  <2>1. Acked(c, s[v], v)[e] = r
    BY <1>1, <1>2 DEF Acked
  <2>2. r = DocAt(s, v, e)
    BY <1>2, DocAtMutation
  <2>3. c[e].version < v /\ c[e].version \in Nat
    BY <1>1, <1>2 DEF Newer
  <2>4. LastOn(s, w, e) <= v /\ LastOn(s, w, e) \in Nat
    BY <1>1, <2>3, LastOnIsGreatest DEF Faithful
  <2>5. r.version = v
    OBVIOUS
  <2> HIDE DEF r
  <2>6. Faithful(r, s, w, e)
    BY <1>1, <2>2, <2>4, <2>5 DEF Faithful
  <2> QED
    BY <1>1, <2>1, <2>3, <2>5, <2>6
<1>3. CASE ~ (Newer(c, s[v].doc, v) /\ e = s[v].doc)
  <2>1. Acked(c, s[v], v)[e] = c[e]
    BY <1>1, <1>3 DEF Acked
  <2>2. c[e].version \in Nat
    OBVIOUS
  <2> QED
    BY <2>1, <2>2
<1> QED
  BY <1>2, <1>3

\* A watch snapshot at v: every document is brought to v unless the cache has it
\* from a later answer, and what is not in the snapshot had not changed.
LEMMA FaithfulWatched ==
  ASSUME NEW s \in Seq(Mutations), NEW v \in 0..Len(s), NEW w \in 0..v, NEW e \in Expenses,
         NEW c \in [Expenses -> [there : BOOLEAN, version : Nat]], Faithful(c[e], s, w, e),
         NEW new, new = DocAt(s, v, e),
         NEW r, r = IF new.version > w /\ Newer(c, e, new.version) THEN new ELSE c[e]
  PROVE  Faithful(r, s, v, e) /\ r.version >= c[e].version
<1>1. /\ new.version = LastOn(s, v, e) /\ DocAt(s, new.version, e) = new
      /\ LastOn(s, v, e) \in 0..v /\ LastOn(s, w, e) \in 0..w
      /\ c[e].version \in Nat /\ v \in Nat /\ w \in Nat /\ Len(s) \in Nat
  <2>1. w \in 0..Len(s)
    OBVIOUS
  <2> QED
    BY <2>1, DocAtItsVersion, LastOnIsGreatest
<1>2. c[e] = DocAt(s, c[e].version, e) /\ c[e].version \in LastOn(s, w, e)..Len(s)
  BY DEF Faithful
<1>3. LastOn(s, v, e) <= w => LastOn(s, w, e) = LastOn(s, v, e)
  BY HistoryGrows
<1>4. CASE new.version > w /\ Newer(c, e, new.version)
  BY <1>1, <1>4 DEF Faithful, Newer
<1>5. CASE ~ (new.version > w /\ Newer(c, e, new.version))
  <2>1. LastOn(s, v, e) <= c[e].version
    BY <1>1, <1>2, <1>3, <1>5 DEF Newer
  <2> QED
    BY <1>1, <1>2, <1>5, <2>1 DEF Faithful
<1> QED
  BY <1>4, <1>5

\* Only Acknowledge and Watch write the cache; each of them keeps the documents
\* faithful and never takes one back to an older version.
LEMMA NextCache ==
  ASSUME IInv, [Next]_vars, NEW x \in Devices, NEW e \in Expenses
  PROVE  /\ Faithful(cached'[x][e], log', seen'[x], e)
         /\ cached'[x][e].version >= cached[x][e].version
<1> USE DEF vars, backend, store, screen, history, budgets
<1>1. /\ TypeOK /\ AcksMatchQueue /\ log \in Seq(Mutations) /\ seen \in [Devices -> Nat]
      /\ cached \in [Devices -> [Expenses -> [there : BOOLEAN, version : Nat]]]
  BY DEF IInv, TypeOK
<1>2. seen[x] \in 0..Len(log)
  BY DEF IInv, TypeOK, SeenIsPast
<1>3. cached[x] \in [Expenses -> [there : BOOLEAN, version : Nat]]
  BY <1>1
<1>4. cached[x][e] \in [there : BOOLEAN, version : Nat] /\ cached[x][e].version \in Nat
  BY <1>3
<1>5. Faithful(cached[x][e], log, seen[x], e)
  BY DEF IInv, CacheCoherent, Faithful
<1>6. log' = log \/ \E m \in Mutations : log' = Append(log, m)
  BY <1>1, LogGrows
<1>7. CASE cached'[x] = cached[x] /\ seen'[x] = seen[x]
  <2>1. Faithful(cached[x][e], log', seen[x], e)
    BY <1>1, <1>2, <1>4, <1>5, <1>6, FaithfulKept
  <2> QED
    BY <1>4, <1>7, <2>1
<1>8. CASE Acknowledge(x)
  <2> DEFINE v == Head(acks[x])
  <2>1. v \in 1..Len(log) /\ log[v] = Head(pending[x])
    <3>1. acks[x] \in Seq(Nat) /\ acks[x] # <<>> /\ pending[x] \in Seq(Mutations)
      BY <1>8 DEF Acknowledge, IInv, TypeOK
    <3>2. 1 \in DOMAIN acks[x] /\ v = acks[x][1] /\ Head(pending[x]) = pending[x][1]
      BY <3>1
    <3> QED
      BY <1>1, <3>2 DEF AcksMatchQueue
  <2>2. /\ cached'[x] = Acked(cached[x], log[v], v)
        /\ log' = log /\ seen' = seen
    BY <1>1, <1>8, <2>1 DEF Acknowledge
  <2> HIDE DEF v
  <2> QED
    BY <1>1, <1>2, <1>3, <1>5, <2>1, <2>2, FaithfulAcked
<1>9. ASSUME NEW v \in seen[x]..Len(log), Watch(x, v)
      PROVE  /\ Faithful(cached'[x][e], log', seen'[x], e)
             /\ cached'[x][e].version >= cached[x][e].version
  <2>1. v \in 0..Len(log) /\ seen[x] \in 0..v
    BY <1>1, <1>2
  <2>2. cached'[x][e] = IF /\ DocAt(log, v, e).version > seen[x]
                           /\ Newer(cached[x], e, DocAt(log, v, e).version)
                          THEN DocAt(log, v, e) ELSE cached[x][e]
    BY <1>1, <1>9 DEF Watch
  <2>3. log' = log /\ seen'[x] = v
    BY <1>1, <1>9 DEF Watch
  <2> QED
    BY <1>1, <1>3, <1>5, <2>1, <2>2, <2>3, FaithfulWatched
<1>10. ASSUME NEW d \in Devices, Acknowledge(d), d # x
       PROVE  cached'[x] = cached[x] /\ seen'[x] = seen[x]
  BY <1>1, <1>10 DEF Acknowledge
<1>11. ASSUME NEW d \in Devices, NEW v \in seen[d]..Len(log), Watch(d, v), d # x
       PROVE  cached'[x] = cached[x] /\ seen'[x] = seen[x]
  BY <1>1, <1>11 DEF Watch
<1>12. ASSUME ~ \E d \in Devices : Acknowledge(d) \/ \E v \in seen[d]..Len(log) : Watch(d, v)
       PROVE  cached' = cached /\ seen' = seen
  BY <1>12, Frames DEF Next, Worker, WriteStream, WatchStream, Failure
<1> QED
  BY <1>7, <1>8, <1>9, <1>10, <1>11, <1>12

\* Every step keeps the inductive invariant.
LEMMA NextIInv == IInv /\ [Next]_vars => IInv'
<1> SUFFICES ASSUME IInv, [Next]_vars PROVE IInv'
  OBVIOUS
<1>1. TypeOK' /\ AcksMatchQueue' /\ SeenIsPast'
  BY NextTypeOK, NextAcksMatchQueue, NextSeenIsPast DEF IInv
<1>2. CacheCoherent'
  BY NextCache DEF CacheCoherent, Faithful
<1> QED
  BY <1>1, <1>2 DEF IInv

\* So it holds in every reachable state.
LEMMA IInvHolds == Spec => []IInv
<1> QED
  BY InitIInv, NextIInv, PTL DEF Spec

-----------------------------------------------------------------------------
(* The results.                                                            *)

\* Every variable keeps its type, for any set of devices and expenses.
THEOREM TypesHold == Spec => []TypeOK
<1>1. IInv => TypeOK
  BY DEF IInv
<1> QED
  BY <1>1, IInvHolds, PTL

\* The unread answers of the write stream are about the head of the mutation
\* queue, in order, through breaks, kills, refusals and new writes.
THEOREM AnswersMatch == Spec => []AcksMatchQueue
<1>1. IInv => AcksMatchQueue
  BY DEF IInv
<1> QED
  BY <1>1, IInvHolds, PTL

\* The cache of every device tells what the backend held, at a version no older
\* than the last snapshot, whatever the order of answers and snapshots.
THEOREM CacheIsCoherent == Spec => []CacheCoherent
<1>1. IInv => CacheCoherent
  BY DEF IInv
<1> QED
  BY <1>1, IInvHolds, PTL

\* No step takes a cached document back to an older version.
THEOREM CacheOnlyMovesOn == Spec => CacheNeverGoesBack
<1> DEFINE Forward == \A d \in Devices : \A e \in Expenses :
                        cached'[d][e].version >= cached[d][e].version
<1>1. IInv /\ [Next]_vars => [Forward]_vars
  BY NextCache
<1> HIDE DEF Forward
<1>2. Spec => [][Forward]_vars
  BY <1>1, IInvHolds, PTL DEF Spec
<1> QED
  BY <1>2 DEF CacheNeverGoesBack, Forward
=============================================================================
