----------------------- MODULE ExpenseSyncBookProofs -----------------------
(***************************************************************************)
(* What becomes of a spending, for any number of devices, expenses and     *)
(* failures: ExpenseSync implements the transitions of SpendingBook, what  *)
(* was accepted is accounted for, what was written stays shown and what    *)
(* was deleted stays hidden.                                               *)
(*                                                                         *)
(* The write of an expense is in one place at a time: a worker queue, a    *)
(* mutation queue, or decided (BookInv).  Every step either leaves it      *)
(* where it is or moves it one place on, so the step proofs go through the *)
(* few moves of an expense instead of the many actions.                    *)
(***************************************************************************)
EXTENDS ExpenseSyncBook, ExpenseSyncProofs

In(s, m)   == \E i \in DOMAIN s : s[i] = m
Once(s, m) == \A i, j \in DOMAIN s : s[i] = m /\ s[j] = m => i = j

\* The devices whose queue q[d] holds m, and each of them once.
At(q, m)       == {d \in Devices : In(q[d], m)}
OnceEach(q, m) == \A d \in Devices : Once(q[d], m)

\* Where the write of e waits: in worker queues, in mutation queues.
HandedAt(e)  == At(worker, Set(e))
WaitingAt(e) == At(pending, Set(e))

\* An id is used once: its write is in one place of one queue.
OnePlace(e) ==
  /\ OnceEach(worker, Set(e)) /\ OnceEach(pending, Set(e))
  /\ \A d, x \in HandedAt(e)  : d = x
  /\ \A d, x \in WaitingAt(e) : d = x

\* And in one state: not added, handed to a worker, waiting at a device, decided.
OneState(e) ==
  /\ e \notin accepted =>
       /\ HandedAt(e) = {} /\ WaitingAt(e) = {}
       /\ ~InLog(Set(e)) /\ Set(e) \notin rejected /\ e \notin lost
  /\ HandedAt(e) # {} =>
       /\ WaitingAt(e) = {}
       /\ ~InLog(Set(e)) /\ Set(e) \notin rejected /\ e \notin lost
  /\ WaitingAt(e) # {} => Set(e) \notin rejected /\ e \notin lost
  /\ InLog(Set(e)) => Set(e) \notin Refused /\ Set(e) \notin rejected /\ e \notin lost
  /\ Set(e) \in rejected => e \notin lost

BookInv == \A e \in Expenses : OnePlace(e) /\ OneState(e)

-----------------------------------------------------------------------------
(* Queues.                                                                 *)

\* An append adds one element, behind the others.
LEMMA InAppend ==
  ASSUME NEW T, NEW s \in Seq(T), NEW t \in T, NEW m
  PROVE  /\ In(Append(s, t), m) <=> In(s, m) \/ t = m
         /\ Once(s, m) /\ (t = m => ~In(s, m)) => Once(Append(s, t), m)
<1> DEFINE n == Append(s, t)
<1>1. /\ DOMAIN s = 1..Len(s) /\ DOMAIN n = 1..(Len(s) + 1) /\ Len(s) \in Nat
      /\ \A i \in 1..Len(s) : n[i] = s[i]
      /\ n[Len(s) + 1] = t
  OBVIOUS
<1> HIDE DEF n
<1>2. In(n, m) <=> In(s, m) \/ t = m
  BY <1>1 DEF In
<1>3. ASSUME Once(s, m), t = m => ~In(s, m) PROVE Once(n, m)
  BY <1>1, <1>3 DEF Once, In
<1> QED
  BY <1>2, <1>3 DEF n

\* A tail lacks the head, and nothing else.
LEMMA InTail ==
  ASSUME NEW T, NEW s \in Seq(T), s # <<>>, NEW m
  PROVE  /\ In(s, m) <=> Head(s) = m \/ In(Tail(s), m)
         /\ Once(s, m) => Once(Tail(s), m) /\ ~(Head(s) = m /\ In(Tail(s), m))
<1> DEFINE n == Tail(s)
<1>1. /\ DOMAIN s = 1..Len(s) /\ DOMAIN n = 1..(Len(s) - 1) /\ Len(s) \in Nat \ {0}
      /\ \A i \in 1..(Len(s) - 1) : n[i] = s[i + 1]
      /\ Head(s) = s[1]
  OBVIOUS
<1> HIDE DEF n
<1>2. ASSUME In(s, m) PROVE Head(s) = m \/ In(n, m)
  <2>1. PICK i \in DOMAIN s : s[i] = m
    BY <1>2 DEF In
  <2>2. CASE i = 1
    BY <1>1, <2>1, <2>2
  <2>3. CASE i # 1
    <3>1. i - 1 \in DOMAIN n /\ n[i - 1] = m
      BY <1>1, <2>1, <2>3
    <3> QED
      BY <3>1 DEF In
  <2> QED
    BY <2>2, <2>3
<1>3. \A i \in DOMAIN n : i + 1 \in DOMAIN s /\ s[i + 1] = n[i] /\ i + 1 # 1
  BY <1>1
<1>4. (Head(s) = m \/ In(n, m)) => In(s, m)
  BY <1>1, <1>3 DEF In
<1>5. ASSUME Once(s, m) PROVE Once(n, m) /\ ~(Head(s) = m /\ In(n, m))
  <2>1. Once(n, m)
    <3> SUFFICES ASSUME NEW i \in DOMAIN n, NEW j \in DOMAIN n, n[i] = m, n[j] = m
                 PROVE  i = j
      BY DEF Once
    <3>1. i + 1 = j + 1
      BY <1>3, <1>5 DEF Once
    <3> QED
      BY <1>1, <3>1
  <2>2. ~(Head(s) = m /\ In(n, m))
    BY <1>1, <1>3, <1>5 DEF Once, In
  <2> QED
    BY <2>1, <2>2
<1> QED
  BY <1>2, <1>4, <1>5 DEF n

\* Of several queues, that of d gets t, loses its head, or is dropped.
Joins(q, r, d, t) == r[d] = Append(q[d], t) /\ \A x \in Devices \ {d} : r[x] = q[x]
Leaves(q, r, d)   == r[d] = Tail(q[d]) /\ \A x \in Devices \ {d} : r[x] = q[x]
Drops(q, r, d)    == r[d] = <<>> /\ \A x \in Devices \ {d} : r[x] = q[x]

\* One queue of several gets longer.
LEMMA QueueJoined ==
  ASSUME NEW q \in [Devices -> Seq(Tasks)], NEW d \in Devices, NEW t \in Tasks, NEW m,
         NEW r, Joins(q, r, d, t)
  PROVE  /\ t # m => At(r, m) = At(q, m)
         /\ t = m => At(r, m) = At(q, m) \cup {d}
         /\ OnceEach(q, m) /\ (t = m => d \notin At(q, m)) => OnceEach(r, m)
<1>1. q[d] \in Seq(Tasks) /\ r[d] = Append(q[d], t)
  BY DEF Joins
<1>2. /\ In(r[d], m) <=> In(q[d], m) \/ t = m
      /\ Once(q[d], m) /\ (t = m => ~In(q[d], m)) => Once(r[d], m)
  BY <1>1, InAppend
<1> QED
  BY <1>2 DEF At, OnceEach, Joins

\* The head of one queue leaves.
LEMMA QueueLeft ==
  ASSUME NEW q \in [Devices -> Seq(Tasks)], NEW d \in Devices, q[d] # <<>>, NEW m,
         NEW r, Leaves(q, r, d), OnceEach(q, m)
  PROVE  /\ Head(q[d]) # m => At(r, m) = At(q, m)
         /\ Head(q[d]) = m => At(r, m) = At(q, m) \ {d} /\ d \in At(q, m)
         /\ OnceEach(r, m)
<1>1. q[d] \in Seq(Tasks) /\ r[d] = Tail(q[d])
  BY DEF Leaves
<1>2. Once(q[d], m)
  BY DEF OnceEach
<1>3. /\ In(q[d], m) <=> Head(q[d]) = m \/ In(r[d], m)
      /\ Once(r[d], m) /\ ~(Head(q[d]) = m /\ In(r[d], m))
  BY <1>1, <1>2, InTail
<1> QED
  BY <1>3 DEF At, OnceEach, Leaves

\* One queue is dropped.
LEMMA QueueDropped ==
  ASSUME NEW q, NEW d \in Devices, NEW m, NEW r, Drops(q, r, d), OnceEach(q, m)
  PROVE  At(r, m) = At(q, m) \ {d} /\ OnceEach(r, m)
<1>1. ~In(<<>>, m) /\ Once(<<>>, m)
  BY DEF In, Once
<1> QED
  BY <1>1 DEF At, OnceEach, Drops

-----------------------------------------------------------------------------
(* The backend's history.                                                  *)

\* A commit adds to what the backend was told, and decides about its document only.
LEMMA CommitDecides ==
  ASSUME TypeOK, NEW m \in Mutations, log' = Append(log, m)
  PROVE  /\ \A x \in Mutations : InLog(x)' <=> InLog(x) \/ x = m
         /\ \A e \in Expenses : e # m.doc => (e \in Stored' <=> e \in Stored)
         /\ m.doc \in Stored' <=> m.op = "set"
<1> DEFINE n == Append(log, m)
           w == Len(log) + 1
<1>1. /\ log \in Seq(Mutations) /\ n \in Seq(Mutations) /\ Len(n) = w
      /\ Len(log) \in 0..Len(log) /\ w \in 1..Len(n) /\ w \in 0..Len(n)
      /\ \A i \in 1..Len(log) : n[i] = log[i]
      /\ n[w] = m /\ m.doc \in Expenses /\ Len(log) \in Nat
  BY AppendProperties DEF TypeOK, Mutations
<1>2. \A x \in Mutations : InLog(x)' <=> InLog(x) \/ x = m
  BY <1>1, InAppend DEF InLog, In
<1> HIDE DEF n
<1>3. ASSUME NEW e \in Expenses, e # m.doc PROVE DocAt(n, w, e).there <=> DocAt(log, Len(log), e).there
  <2> DEFINE j == LastOn(log, Len(log), e)
  <2>1. /\ j \in 0..Len(log) /\ (j > 0 => log[j].doc = e)
        /\ \A i \in 1..Len(log) : log[i].doc = e => i <= j
    BY <1>1, LastOnIsGreatest
  <2> HIDE DEF j
  <2>2. j \in 0..w /\ (j > 0 => n[j].doc = e) /\ \A i \in 1..w : n[i].doc = e => i <= j
    BY <1>1, <1>3, <2>1
  <2>3. LastOn(n, w, e) = j
    BY <1>1, <2>2, LastOnUnique
  <2>4. j > 0 => n[j] = log[j]
    BY <1>1, <2>1
  <2> QED
    BY <2>3, <2>4 DEF DocAt, j
<1>4. DocAt(n, w, m.doc).there = (m.op = "set")
  <2>1. DocAt(n, w, m.doc) = [there |-> m.op = "set", version |-> w]
    BY <1>1, DocAtMutation
  <2> QED
    BY <2>1
<1>5. \A e \in Expenses : e \in Stored' <=> DocAt(n, w, e).there
  BY <1>1 DEF Stored, n
<1>6. \A e \in Expenses : e \in Stored <=> DocAt(log, Len(log), e).there
  BY DEF Stored
<1>7. \A e \in Expenses : e # m.doc => (e \in Stored' <=> e \in Stored)
  BY <1>3, <1>5, <1>6
<1>8. m.doc \in Stored' <=> m.op = "set"
  BY <1>1, <1>4, <1>5
<1> QED
  BY <1>2, <1>7, <1>8

\* What the backend stores it was told to set.
LEMMA StoredIsInLog ==
  ASSUME TypeOK, NEW e \in Stored
  PROVE  InLog(Set(e))
<1> DEFINE j == LastOn(log, Len(log), e)
<1>1. log \in Seq(Mutations) /\ Len(log) \in 0..Len(log) /\ Len(log) \in Nat /\ e \in Expenses
  BY DEF TypeOK, Stored
<1>2. j > 0 /\ log[j].op = "set"
  BY DEF Stored, DocAt
<1>3. j \in 1..Len(log) /\ log[j].doc = e
  BY <1>1, <1>2, LastOnIsGreatest
<1> HIDE DEF j
<1>4. j \in DOMAIN log /\ log[j] \in Mutations
  BY <1>1, <1>3, ElementOfSeq
<1>5. log[j] = Set(e)
  BY <1>2, <1>3, <1>4 DEF Mutations, Set
<1> QED
  BY <1>4, <1>5 DEF InLog

-----------------------------------------------------------------------------
(* The moves of an expense.                                                *)

Orderly(e) == OnceEach(worker, Set(e)) /\ OnceEach(pending, Set(e))

KeepsPlace(e)    == HandedAt(e)' = HandedAt(e) /\ WaitingAt(e)' = WaitingAt(e)
KeepsLog(e)      == /\ InLog(Set(e))' <=> InLog(Set(e))
                    /\ e \in Stored' <=> e \in Stored
KeepsRejected(e) == Set(e) \in rejected' <=> Set(e) \in rejected
KeepsAccepted(e) == e \in accepted' <=> e \in accepted
KeepsLost(e)     == e \in lost' <=> e \in lost

Stays(e) == KeepsPlace(e) /\ KeepsLog(e) /\ KeepsRejected(e) /\ KeepsAccepted(e) /\ KeepsLost(e)

\* The user adds it on d.
IsAdded(d, e) ==
  /\ e \notin accepted /\ e \in accepted'
  /\ HandedAt(e)' = HandedAt(e) \cup {d} /\ WaitingAt(e)' = WaitingAt(e)
  /\ KeepsLog(e) /\ KeepsRejected(e) /\ KeepsLost(e)

\* The worker queue of d persists it.
IsPersisted(d, e) ==
  /\ d \in HandedAt(e)
  /\ HandedAt(e)' = HandedAt(e) \ {d} /\ WaitingAt(e)' = WaitingAt(e) \cup {d}
  /\ KeepsLog(e) /\ KeepsRejected(e) /\ KeepsAccepted(e) /\ KeepsLost(e)

\* The backend commits the write d has sent, once more perhaps.
IsBooked(d, e) ==
  /\ d \in WaitingAt(e) /\ Set(e) \notin Refused
  /\ InLog(Set(e))' /\ e \in Stored'
  /\ KeepsPlace(e) /\ KeepsRejected(e) /\ KeepsAccepted(e) /\ KeepsLost(e)

\* The backend commits a deletion of it.
IsRemoved(e) ==
  /\ InLog(Set(e))' <=> InLog(Set(e))
  /\ e \notin Stored'
  /\ KeepsPlace(e) /\ KeepsRejected(e) /\ KeepsAccepted(e) /\ KeepsLost(e)

\* d reads that its write was committed.
IsAnswered(d, e) ==
  /\ d \in WaitingAt(e) /\ InLog(Set(e))
  /\ HandedAt(e)' = HandedAt(e) /\ WaitingAt(e)' = WaitingAt(e) \ {d}
  /\ KeepsLog(e) /\ KeepsRejected(e) /\ KeepsAccepted(e) /\ KeepsLost(e)

\* d reads that it was refused.
IsRefused(d, e) ==
  /\ d \in WaitingAt(e) /\ Set(e) \in Refused /\ Set(e) \in rejected'
  /\ HandedAt(e)' = HandedAt(e) /\ WaitingAt(e)' = WaitingAt(e) \ {d}
  /\ KeepsLog(e) /\ KeepsAccepted(e) /\ KeepsLost(e)

\* A kill takes it out of the worker queue of d.
IsLost(d, e) ==
  /\ d \in HandedAt(e) /\ e \in lost'
  /\ HandedAt(e)' = HandedAt(e) \ {d} /\ WaitingAt(e)' = WaitingAt(e)
  /\ KeepsLog(e) /\ KeepsRejected(e) /\ KeepsAccepted(e)

Moves(d, e) ==
  \/ IsAdded(d, e) \/ IsPersisted(d, e) \/ IsBooked(d, e)
  \/ IsRemoved(e) \/ IsAnswered(d, e) \/ IsRefused(d, e)

\* The steps of an expense as a step of d makes them: none moves, one does, or a
\* kill loses all that d had handed to its worker.
OneMoves(d) ==
  /\ \A e \in Expenses : Orderly(e)'
  /\ \/ \A e \in Expenses : Stays(e)
     \/ \E e \in Expenses : Moves(d, e) /\ \A x \in Expenses \ {e} : Stays(x)
     \/ \A e \in Expenses : IF d \in HandedAt(e) THEN IsLost(d, e) ELSE Stays(e)

\* The tasks of a worker queue are told apart.
LEMMA TasksDiffer ==
  ASSUME NEW e, NEW x
  PROVE  /\ Set(e) # Listen /\ Delete(e) # Listen /\ Set(e) # Delete(x)
         /\ Set(e) = Set(x) <=> e = x
         /\ Delete(e) = Delete(x) <=> e = x
         /\ Set(e).doc = e /\ Set(e).op = "set" /\ Delete(e).doc = e /\ Delete(e).op = "delete"
<1>1. Set(e).op # Listen.op /\ Delete(e).op # Listen.op /\ Set(e).op # Delete(x).op
  BY DEF Set, Delete, Listen
<1>2. Set(e).doc = e /\ Set(x).doc = x /\ Delete(e).doc = e /\ Delete(x).doc = x
  BY DEF Set, Delete
<1>3. Set(e).op = "set" /\ Delete(e).op = "delete"
  BY DEF Set, Delete
<1> QED
  BY <1>1, <1>2, <1>3

\* A mutation is a write or a deletion of its document.
LEMMA SetOrDelete ==
  ASSUME NEW m \in Mutations
  PROVE  /\ m.doc \in Expenses /\ (m = Set(m.doc) \/ m = Delete(m.doc))
         /\ m.op = "set" <=> m = Set(m.doc)
  BY DEF Mutations, Set, Delete

\* What BookInv says of the queues.
LEMMA BookIsOrderly ==
  ASSUME TypeOK, BookInv
  PROVE  /\ \A e \in Expenses : Orderly(e)
         /\ worker \in [Devices -> Seq(Tasks)] /\ pending \in [Devices -> Seq(Tasks)]
         /\ pending \in [Devices -> Seq(Mutations)]
         /\ \A e \in Expenses : Set(e) \in Mutations /\ Set(e) \in Tasks
<1>1. worker \in [Devices -> Seq(Tasks)] /\ pending \in [Devices -> Seq(Mutations)]
  BY DEF TypeOK
<1>2. Seq(Mutations) \subseteq Seq(Tasks)
  BY QueueTypes
<1>3. \A e \in Expenses : Set(e) \in Mutations /\ Set(e) \in Tasks
  BY QueueTypes
<1>4. pending \in [Devices -> Seq(Tasks)]
  BY <1>1, <1>2
<1> QED
  BY <1>1, <1>3, <1>4 DEF BookInv, OnePlace, Orderly

\* A step that touches neither queue nor book.
LEMMA Untouched ==
  ASSUME TypeOK, BookInv, NEW d \in Devices,
         UNCHANGED <<worker, pending, log, rejected, accepted, lost>>
  PROVE  OneMoves(d)
<1>1. \A e \in Expenses : Orderly(e)' /\ Stays(e)
  BY BookIsOrderly
     DEF Orderly, Stays, KeepsPlace, KeepsLog, KeepsRejected, KeepsAccepted, KeepsLost,
         HandedAt, WaitingAt, InLog, Stored
<1> QED
  BY <1>1 DEF OneMoves

\* A task other than the write of an expense joins a worker queue.
LEMMA OtherTaskJoins ==
  ASSUME TypeOK, BookInv, NEW d \in Devices, NEW t \in Tasks, \A e \in Expenses : t # Set(e),
         Enqueue(d, t), UNCHANGED <<pending, log, rejected, accepted, lost>>
  PROVE  OneMoves(d)
<1>1. ASSUME NEW e \in Expenses PROVE Orderly(e)' /\ HandedAt(e)' = HandedAt(e)
  <2>1. Joins(worker, worker', d, t) /\ t # Set(e)
    BY DEF Enqueue, Joins, TypeOK
  <2>2. At(worker', Set(e)) = At(worker, Set(e)) /\ OnceEach(worker', Set(e))
    <3>1. worker \in [Devices -> Seq(Tasks)] /\ OnceEach(worker, Set(e))
      BY BookIsOrderly DEF Orderly
    <3> QED
      BY <2>1, <3>1, QueueJoined
  <2> QED
    BY <2>2, BookIsOrderly DEF Orderly, HandedAt
<1>2. \A e \in Expenses : Orderly(e)' /\ Stays(e)
  BY <1>1
     DEF Stays, KeepsPlace, KeepsLog, KeepsRejected, KeepsAccepted, KeepsLost, WaitingAt,
         InLog, Stored
<1> QED
  BY <1>2 DEF OneMoves

\* An expense is added: its id is fresh, so its write is nowhere yet.
LEMMA AddMoves ==
  ASSUME TypeOK, BookInv, NEW d \in Devices, NEW x \in Expenses, AddExpense(d, x)
  PROVE  OneMoves(d)
<1>1. /\ Joins(worker, worker', d, Set(x))
      /\ x \notin accepted /\ accepted' = accepted \cup {x}
      /\ UNCHANGED <<pending, log, rejected, lost>>
  BY DEF AddExpense, Enqueue, Fresh, Joins, TypeOK, backend, store
<1>2. HandedAt(x) = {}
  BY <1>1 DEF BookInv, OneState
<1>3. ASSUME NEW e \in Expenses
      PROVE  /\ Orderly(e)'
             /\ HandedAt(e)' = IF e = x THEN HandedAt(e) \cup {d} ELSE HandedAt(e)
  <2>1. Set(x) = Set(e) <=> e = x
    BY TasksDiffer
  <2>2. /\ At(worker', Set(e)) = IF e = x THEN At(worker, Set(e)) \cup {d} ELSE At(worker, Set(e))
        /\ OnceEach(worker', Set(e))
    <3>1. worker \in [Devices -> Seq(Tasks)] /\ OnceEach(worker, Set(e)) /\ Set(x) \in Tasks
      BY BookIsOrderly DEF Orderly
    <3>2. /\ e # x => At(worker', Set(e)) = At(worker, Set(e))
          /\ e = x => At(worker', Set(e)) = At(worker, Set(e)) \cup {d}
          /\ (e = x => d \notin At(worker, Set(e))) => OnceEach(worker', Set(e))
      BY <1>1, <2>1, <3>1, QueueJoined
    <3> QED
      BY <1>2, <3>2 DEF HandedAt
  <2> QED
    BY <1>1, <2>2, BookIsOrderly DEF Orderly, HandedAt
<1>4. \A e \in Expenses : /\ WaitingAt(e)' = WaitingAt(e) /\ KeepsLog(e)
                          /\ KeepsRejected(e) /\ KeepsLost(e)
                          /\ e # x => KeepsAccepted(e)
  BY <1>1 DEF WaitingAt, KeepsLog, InLog, Stored, KeepsRejected, KeepsLost, KeepsAccepted
<1>5. IsAdded(d, x)
  BY <1>1, <1>3, <1>4 DEF IsAdded
<1>6. \A e \in Expenses \ {x} : Stays(e)
  BY <1>3, <1>4 DEF Stays, KeepsPlace
<1> QED
  BY <1>3, <1>5, <1>6 DEF OneMoves, Moves

\* A listen leaves a worker queue.
LEMMA ListenMoves ==
  ASSUME TypeOK, BookInv, NEW d \in Devices, RunListen(d)
  PROVE  OneMoves(d)
<1>1. /\ worker[d] # <<>> /\ Head(worker[d]) = Listen /\ Leaves(worker, worker', d)
      /\ UNCHANGED <<pending, log, rejected, accepted, lost>>
  BY DEF RunListen, Leaves, TypeOK, backend, store, history
<1>2. ASSUME NEW e \in Expenses PROVE Orderly(e)' /\ HandedAt(e)' = HandedAt(e)
  <2>1. worker \in [Devices -> Seq(Tasks)] /\ OnceEach(worker, Set(e)) /\ Head(worker[d]) # Set(e)
    BY <1>1, BookIsOrderly, TasksDiffer DEF Orderly
  <2>2. At(worker', Set(e)) = At(worker, Set(e)) /\ OnceEach(worker', Set(e))
    BY <1>1, <2>1, QueueLeft
  <2> QED
    BY <1>1, <2>2, BookIsOrderly DEF Orderly, HandedAt
<1>3. \A e \in Expenses : Orderly(e)' /\ Stays(e)
  BY <1>1, <1>2
     DEF Stays, KeepsPlace, KeepsLog, KeepsRejected, KeepsAccepted, KeepsLost, WaitingAt,
         InLog, Stored
<1> QED
  BY <1>3 DEF OneMoves

\* The worker persists a write or a deletion.
LEMMA WriteMoves ==
  ASSUME TypeOK, BookInv, NEW d \in Devices, RunWrite(d)
  PROVE  OneMoves(d)
<1> DEFINE m == Head(worker[d])
<1>1. /\ worker[d] # <<>> /\ Leaves(worker, worker', d) /\ Joins(pending, pending', d, m)
      /\ UNCHANGED <<log, rejected, accepted, lost>>
  BY DEF RunWrite, Persist, Leaves, Joins, TypeOK, backend
<1>2. m \in Tasks /\ m \in Mutations
  <2>1. worker[d] \in Seq(Tasks) /\ worker[d] # <<>> /\ m # Listen
    BY DEF RunWrite, TypeOK
  <2> QED
    BY <2>1 DEF Tasks
<1> HIDE DEF m
<1>3. ASSUME NEW e \in Expenses
      PROVE  /\ Orderly(e)'
             /\ m # Set(e) => HandedAt(e)' = HandedAt(e) /\ WaitingAt(e)' = WaitingAt(e)
             /\ m = Set(e) => /\ d \in HandedAt(e) /\ HandedAt(e)' = HandedAt(e) \ {d}
                              /\ WaitingAt(e)' = WaitingAt(e) \cup {d}
  <2>1. /\ worker \in [Devices -> Seq(Tasks)] /\ OnceEach(worker, Set(e))
        /\ pending \in [Devices -> Seq(Tasks)] /\ OnceEach(pending, Set(e))
    BY BookIsOrderly DEF Orderly
  <2>2. /\ m # Set(e) => At(worker', Set(e)) = At(worker, Set(e))
        /\ m = Set(e) => At(worker', Set(e)) = At(worker, Set(e)) \ {d} /\ d \in At(worker, Set(e))
        /\ OnceEach(worker', Set(e))
    BY <1>1, <2>1, QueueLeft DEF m
  <2>3. /\ m # Set(e) => At(pending', Set(e)) = At(pending, Set(e))
        /\ m = Set(e) => At(pending', Set(e)) = At(pending, Set(e)) \cup {d}
        /\ (m = Set(e) => d \notin At(pending, Set(e))) => OnceEach(pending', Set(e))
    BY <1>1, <1>2, <2>1, QueueJoined
  <2>4. m = Set(e) => d \notin At(pending, Set(e))
    BY <2>2 DEF BookInv, OneState, HandedAt, WaitingAt
  <2> QED
    BY <2>2, <2>3, <2>4 DEF Orderly, HandedAt, WaitingAt
<1>4. \A e \in Expenses : KeepsLog(e) /\ KeepsRejected(e) /\ KeepsAccepted(e) /\ KeepsLost(e)
  BY <1>1 DEF KeepsLog, InLog, Stored, KeepsRejected, KeepsAccepted, KeepsLost
<1>5. \A e \in Expenses : m # Set(e) => Stays(e)
  BY <1>3, <1>4 DEF Stays, KeepsPlace
<1>6. \A e \in Expenses : m = Set(e) => IsPersisted(d, e)
  BY <1>3, <1>4 DEF IsPersisted
<1>7. \A e, x \in Expenses : m = Set(e) /\ x # e => m # Set(x)
  BY TasksDiffer
<1> QED
  BY <1>3, <1>5, <1>6, <1>7 DEF OneMoves, Moves

\* The backend commits a write or a deletion.
LEMMA CommitMoves ==
  ASSUME TypeOK, BookInv, NEW d \in Devices, Commit(d)
  PROVE  OneMoves(d)
<1> DEFINE k == NextToSend(d)
           m == pending[d][k]
<1>1. pending[d] \in Seq(Mutations) /\ k \in DOMAIN pending[d] /\ m \in Mutations
  <2>1. pending[d] \in Seq(Mutations) /\ acks[d] \in Seq(Nat)
    BY DEF TypeOK
  <2>2. k \in 1..Len(pending[d])
    BY <2>1 DEF Commit, NextToSend
  <2> QED
    BY <2>1, <2>2, ElementOfSeq
<1>2. /\ log' = Append(log, m) /\ m \notin Refused
      /\ UNCHANGED <<worker, pending, rejected, accepted, lost>>
  BY DEF Commit, store, history
<1>3. d \in At(pending, m)
  BY <1>1 DEF At, In
<1> HIDE DEF m
<1>4. /\ \A x \in Mutations : InLog(x)' <=> InLog(x) \/ x = m
      /\ \A e \in Expenses : e # m.doc => (e \in Stored' <=> e \in Stored)
      /\ m.doc \in Stored' <=> m.op = "set"
  BY <1>1, <1>2, CommitDecides
<1>5. ASSUME NEW e \in Expenses
      PROVE  /\ Orderly(e)' /\ KeepsPlace(e)
             /\ KeepsRejected(e) /\ KeepsAccepted(e) /\ KeepsLost(e)
  BY <1>2, BookIsOrderly
     DEF Orderly, KeepsPlace, HandedAt, WaitingAt, KeepsRejected, KeepsAccepted, KeepsLost
<1>6. m.doc \in Expenses /\ (m = Set(m.doc) \/ m = Delete(m.doc)) /\ (m.op = "set" <=> m = Set(m.doc))
  BY <1>1, SetOrDelete
<1>7. \A e \in Expenses : Set(e) \in Mutations /\ (e # m.doc => Set(e) # m)
  BY <1>6, TasksDiffer, QueueTypes
<1>8. \A e \in Expenses \ {m.doc} : Stays(e)
  BY <1>4, <1>5, <1>7 DEF Stays, KeepsLog
<1>9. PICK e \in Expenses : e = m.doc
  BY <1>6
<1>10. /\ KeepsPlace(e) /\ KeepsRejected(e) /\ KeepsAccepted(e) /\ KeepsLost(e)
       /\ InLog(Set(e))' <=> InLog(Set(e)) \/ Set(e) = m
       /\ e \in Stored' <=> m = Set(e)
  BY <1>4, <1>5, <1>6, <1>7, <1>9
<1>11. CASE m = Set(e)
  <2>1. d \in WaitingAt(e) /\ Set(e) \notin Refused
    BY <1>2, <1>3, <1>11 DEF WaitingAt
  <2>2. IsBooked(d, e)
    BY <1>10, <1>11, <2>1 DEF IsBooked
  <2> QED
    BY <1>5, <1>8, <1>9, <2>2 DEF OneMoves, Moves
<1>12. CASE m = Delete(e)
  <2>1. m # Set(e)
    BY <1>12, TasksDiffer
  <2>2. IsRemoved(e)
    BY <1>10, <2>1 DEF IsRemoved
  <2> QED
    BY <1>5, <1>8, <1>9, <2>2 DEF OneMoves, Moves
<1> QED
  BY <1>6, <1>9, <1>11, <1>12

\* The head of a mutation queue leaves it: what it means to the expenses' places.
LEMMA HeadLeaves ==
  ASSUME TypeOK, BookInv, NEW d \in Devices, pending[d] # <<>>, Leaves(pending, pending', d),
         UNCHANGED worker, NEW e \in Expenses
  PROVE  /\ Orderly(e)' /\ HandedAt(e)' = HandedAt(e)
         /\ Head(pending[d]) # Set(e) => KeepsPlace(e)
         /\ Head(pending[d]) = Set(e) => d \in WaitingAt(e) /\ WaitingAt(e)' = WaitingAt(e) \ {d}
<1>1. /\ pending \in [Devices -> Seq(Tasks)] /\ OnceEach(pending, Set(e))
      /\ OnceEach(worker, Set(e))
  BY BookIsOrderly DEF Orderly
<1>2. /\ Head(pending[d]) # Set(e) => At(pending', Set(e)) = At(pending, Set(e))
      /\ Head(pending[d]) = Set(e) => At(pending', Set(e)) = At(pending, Set(e)) \ {d} /\ d \in At(pending, Set(e))
      /\ OnceEach(pending', Set(e))
  BY <1>1, QueueLeft
<1> QED
  BY <1>1, <1>2 DEF Orderly, HandedAt, WaitingAt, KeepsPlace

\* A device reads that its first write was committed.
LEMMA AnswerMoves ==
  ASSUME TypeOK, AcksMatchQueue, BookInv, NEW d \in Devices, Acknowledge(d)
  PROVE  OneMoves(d)
<1> DEFINE m == Head(pending[d])
<1>1. /\ pending[d] # <<>> /\ Leaves(pending, pending', d)
      /\ UNCHANGED <<worker, log, rejected, accepted, lost>>
  <2>1. pending[d] \in Seq(Mutations) /\ acks[d] \in Seq(Nat) /\ acks[d] # <<>>
    BY DEF TypeOK, Acknowledge
  <2>2. pending[d] # <<>>
    BY <2>1 DEF AcksMatchQueue
  <2> QED
    BY <2>2 DEF Acknowledge, Leaves, TypeOK, backend, history
<1>2. InLog(m) /\ m \in Mutations
  <2>1. pending[d] \in Seq(Mutations) /\ acks[d] \in Seq(Nat) /\ acks[d] # <<>>
    BY DEF TypeOK, Acknowledge
  <2>2. 1 \in DOMAIN acks[d] /\ m = pending[d][1] /\ m \in Mutations
    BY <1>1, <2>1
  <2> QED
    BY <2>2 DEF AcksMatchQueue, InLog
<1>3. \A e \in Expenses : KeepsLog(e) /\ KeepsRejected(e) /\ KeepsAccepted(e) /\ KeepsLost(e)
  BY <1>1 DEF KeepsLog, InLog, Stored, KeepsRejected, KeepsAccepted, KeepsLost
<1>4. \A e \in Expenses :
         /\ Orderly(e)' /\ HandedAt(e)' = HandedAt(e)
         /\ m # Set(e) => KeepsPlace(e)
         /\ m = Set(e) => d \in WaitingAt(e) /\ WaitingAt(e)' = WaitingAt(e) \ {d}
  BY <1>1, HeadLeaves
<1> HIDE DEF m
<1>5. \A e \in Expenses : m # Set(e) => Stays(e)
  BY <1>3, <1>4 DEF Stays
<1>6. \A e \in Expenses : m = Set(e) => IsAnswered(d, e)
  BY <1>2, <1>3, <1>4 DEF IsAnswered
<1>7. \A e, x \in Expenses : m = Set(e) /\ x # e => m # Set(x)
  BY TasksDiffer
<1> QED
  BY <1>4, <1>5, <1>6, <1>7 DEF OneMoves, Moves

\* A device reads that its first write was refused.
LEMMA RefusalMoves ==
  ASSUME TypeOK, BookInv, NEW d \in Devices, Reject(d)
  PROVE  OneMoves(d)
<1> DEFINE m == Head(pending[d])
<1>1. /\ pending[d] # <<>> /\ Leaves(pending, pending', d)
      /\ m \in Refused /\ rejected' = rejected \cup {m}
      /\ UNCHANGED <<worker, log, accepted, lost>>
  BY DEF Reject, Permanent, Leaves, TypeOK, history
<1>2. \A e \in Expenses : /\ KeepsLog(e) /\ KeepsAccepted(e) /\ KeepsLost(e)
                          /\ m # Set(e) => KeepsRejected(e)
  BY <1>1 DEF KeepsLog, InLog, Stored, KeepsRejected, KeepsAccepted, KeepsLost
<1>3. \A e \in Expenses :
         /\ Orderly(e)' /\ HandedAt(e)' = HandedAt(e)
         /\ m # Set(e) => KeepsPlace(e)
         /\ m = Set(e) => d \in WaitingAt(e) /\ WaitingAt(e)' = WaitingAt(e) \ {d}
  BY <1>1, HeadLeaves
<1> HIDE DEF m
<1>4. \A e \in Expenses : m # Set(e) => Stays(e)
  BY <1>2, <1>3 DEF Stays
<1>5. \A e \in Expenses : m = Set(e) => IsRefused(d, e)
  BY <1>1, <1>2, <1>3 DEF IsRefused
<1>6. \A e, x \in Expenses : m = Set(e) /\ x # e => m # Set(x)
  BY TasksDiffer
<1> QED
  BY <1>3, <1>4, <1>5, <1>6 DEF OneMoves, Moves

\* A kill loses what the worker queue held.
LEMMA KillMoves ==
  ASSUME TypeOK, BookInv, NEW d \in Devices, Kill(d)
  PROVE  OneMoves(d)
<1>1. /\ Drops(worker, worker', d)
      /\ lost' = lost \cup {e \in Expenses : d \in HandedAt(e)}
      /\ UNCHANGED <<pending, log, rejected, accepted>>
  BY DEF Kill, Drops, HandedAt, At, In, TypeOK, backend, store
<1>2. ASSUME NEW e \in Expenses
      PROVE  Orderly(e)' /\ HandedAt(e)' = HandedAt(e) \ {d} /\ WaitingAt(e)' = WaitingAt(e)
  <2>1. OnceEach(worker, Set(e)) /\ OnceEach(pending, Set(e))
    BY BookIsOrderly DEF Orderly
  <2>2. At(worker', Set(e)) = At(worker, Set(e)) \ {d} /\ OnceEach(worker', Set(e))
    BY <1>1, <2>1, QueueDropped
  <2> QED
    BY <1>1, <2>1, <2>2 DEF Orderly, HandedAt, WaitingAt
<1>3. \A e \in Expenses : /\ KeepsLog(e) /\ KeepsRejected(e) /\ KeepsAccepted(e)
                          /\ IF d \in HandedAt(e) THEN e \in lost' ELSE KeepsLost(e)
  BY <1>1 DEF KeepsLog, InLog, Stored, KeepsRejected, KeepsAccepted, KeepsLost
<1>4. \A e \in Expenses : IF d \in HandedAt(e) THEN IsLost(d, e) ELSE Stays(e)
  BY <1>2, <1>3 DEF IsLost, Stays, KeepsPlace
<1> QED
  BY <1>2, <1>4 DEF OneMoves

\* Every step of the system moves at most one expense one place on, or loses some.
LEMMA StepMoves ==
  ASSUME TypeOK, AcksMatchQueue, BookInv, [Next]_vars
  PROVE  (UNCHANGED vars) \/ \E d \in Devices : OneMoves(d)
<1> USE DEF backend, store, screen, history, budgets
<1>1. ASSUME NEW d \in Devices, Launch(d) \/ HomeAppears(d) \/ HomeReappears(d) PROVE OneMoves(d)
  <2>1. Enqueue(d, Listen) /\ UNCHANGED <<pending, log, rejected, accepted, lost>>
    BY <1>1 DEF Launch, HomeAppears, HomeReappears
  <2> QED
    BY <2>1, OtherTaskJoins, QueueTypes, TasksDiffer
<1>2. ASSUME NEW d \in Devices, NEW e \in Expenses, DeleteExpense(d, e) PROVE OneMoves(d)
  <2>1. Enqueue(d, Delete(e)) /\ UNCHANGED <<pending, log, rejected, accepted, lost>>
    BY <1>2 DEF DeleteExpense
  <2>2. Delete(e) \in Tasks /\ \A x \in Expenses : Delete(e) # Set(x)
    BY QueueTypes, TasksDiffer
  <2> QED
    BY <2>1, <2>2, OtherTaskJoins
<1>3. ASSUME NEW d \in Devices,
             \/ DeliverSnapshot(d) \/ DeliverLoad(d) \/ BreakWriteStream(d)
             \/ GoOffline(d) \/ Reconnect(d) \/ \E v \in seen[d]..Len(log) : Watch(d, v)
      PROVE  OneMoves(d)
  <2>1. UNCHANGED <<worker, pending, log, rejected, accepted, lost>>
    BY <1>3 DEF DeliverSnapshot, DeliverLoad, BreakWriteStream, GoOffline, Reconnect, Watch
  <2> QED
    BY <2>1, Untouched
<1>4. ASSUME NEW d \in Devices, RunListen(d) \/ RunWrite(d) PROVE OneMoves(d)
  BY <1>4, ListenMoves, WriteMoves
<1>5. ASSUME NEW d \in Devices, Commit(d) \/ Acknowledge(d) \/ Reject(d) PROVE OneMoves(d)
  BY <1>5, CommitMoves, AnswerMoves, RefusalMoves
<1>6. ASSUME NEW d \in Devices, Kill(d) \/ \E e \in Expenses : AddExpense(d, e) PROVE OneMoves(d)
  BY <1>6, KillMoves, AddMoves
<1> QED
  BY <1>1, <1>2, <1>3, <1>4, <1>5, <1>6
     DEF Next, User, MainThread, Worker, WriteStream, WatchStream, Failure

-----------------------------------------------------------------------------
(* One place, one state.                                                   *)

\* A move keeps an expense in one place and one state.
LEMMA MoveKeepsBook ==
  ASSUME NEW d \in Devices, NEW e \in Expenses, OnePlace(e), OneState(e), Orderly(e)',
         Stays(e) \/ Moves(d, e) \/ IsLost(d, e)
  PROVE  OnePlace(e)' /\ OneState(e)'
<1> USE DEF KeepsPlace, KeepsLog, KeepsRejected, KeepsAccepted, KeepsLost
<1>1. CASE Stays(e)
  BY <1>1 DEF Stays, OnePlace, OneState, Orderly
<1>2. CASE IsAdded(d, e)
  BY <1>2 DEF IsAdded, OnePlace, OneState, Orderly
<1>3. CASE IsPersisted(d, e)
  BY <1>3 DEF IsPersisted, OnePlace, OneState, Orderly
<1>4. CASE IsBooked(d, e)
  BY <1>4 DEF IsBooked, OnePlace, OneState, Orderly
<1>5. CASE IsRemoved(e)
  BY <1>5 DEF IsRemoved, OnePlace, OneState, Orderly
<1>6. CASE IsAnswered(d, e)
  BY <1>6 DEF IsAnswered, OnePlace, OneState, Orderly
<1>7. CASE IsRefused(d, e)
  BY <1>7 DEF IsRefused, OnePlace, OneState, Orderly
<1>8. CASE IsLost(d, e)
  BY <1>8 DEF IsLost, OnePlace, OneState, Orderly
<1> QED
  BY <1>1, <1>2, <1>3, <1>4, <1>5, <1>6, <1>7, <1>8 DEF Moves

\* What a step does to each of the expenses.
LEMMA EachMoves ==
  ASSUME NEW d \in Devices, OneMoves(d), NEW e \in Expenses
  PROVE  Orderly(e)' /\ (Stays(e) \/ Moves(d, e) \/ IsLost(d, e))
  BY DEF OneMoves

\* Before the first launch no expense is anywhere.
LEMMA InitBookInv == Init => BookInv
<1> SUFFICES ASSUME Init, NEW e \in Expenses PROVE OnePlace(e) /\ OneState(e)
  BY DEF BookInv
<1>1. \A d \in Devices : worker[d] = <<>> /\ pending[d] = <<>>
  BY DEF Init
<1>2. HandedAt(e) = {} /\ WaitingAt(e) = {} /\ Orderly(e) /\ ~InLog(Set(e))
  BY <1>1 DEF HandedAt, WaitingAt, At, In, Orderly, OnceEach, Once, InLog, Init
<1> QED
  BY <1>2 DEF OnePlace, OneState, Orderly, Init

\* No step breaks it.
LEMMA NextBookInv == IInv /\ BookInv /\ [Next]_vars => BookInv'
<1> SUFFICES ASSUME IInv, BookInv, [Next]_vars, NEW e \in Expenses
             PROVE  OnePlace(e)' /\ OneState(e)'
  BY DEF BookInv
<1>1. CASE UNCHANGED vars
  BY <1>1
     DEF BookInv, OnePlace, OneState, HandedAt, WaitingAt, InLog, vars, backend, store, history
<1>2. ASSUME NEW d \in Devices, OneMoves(d) PROVE OnePlace(e)' /\ OneState(e)'
  BY <1>2, EachMoves, MoveKeepsBook DEF BookInv
<1> QED
  BY <1>1, <1>2, StepMoves DEF IInv

\* So the write of every expense is in one place and one state at all times.
LEMMA BookInvHolds == Spec => []BookInv
  BY InitBookInv, NextBookInv, IInvHolds, PTL DEF Spec

-----------------------------------------------------------------------------
(* Nothing accepted disappears.                                            *)

Accounted(e) ==
  \/ e \in lost \/ Set(e) \in rejected \/ InLog(Set(e))
  \/ HandedAt(e) # {} \/ WaitingAt(e) # {}

AllAccounted == \A e \in Expenses : e \in accepted => Accounted(e)

\* A move takes an expense from one place to another.
LEMMA MoveKeepsAccount ==
  ASSUME NEW d \in Devices, NEW e \in Expenses, OnePlace(e), e \in accepted => Accounted(e),
         Stays(e) \/ Moves(d, e) \/ IsLost(d, e)
  PROVE  e \in accepted' => Accounted(e)'
<1> USE DEF KeepsPlace, KeepsLog, KeepsRejected, KeepsAccepted, KeepsLost, Accounted
<1>1. CASE Stays(e)
  BY <1>1 DEF Stays
<1>2. CASE IsAdded(d, e)
  BY <1>2 DEF IsAdded
<1>3. CASE IsPersisted(d, e)
  BY <1>3 DEF IsPersisted
<1>4. CASE IsBooked(d, e)
  BY <1>4 DEF IsBooked
<1>5. CASE IsRemoved(e)
  BY <1>5 DEF IsRemoved
<1>6. CASE IsAnswered(d, e)
  BY <1>6 DEF IsAnswered
<1>7. CASE IsRefused(d, e)
  BY <1>7 DEF IsRefused
<1>8. CASE IsLost(d, e)
  BY <1>8 DEF IsLost
<1> QED
  BY <1>1, <1>2, <1>3, <1>4, <1>5, <1>6, <1>7, <1>8 DEF Moves

\* Every step keeps every accepted expense accounted for.
LEMMA NextAccounted == IInv /\ BookInv /\ AllAccounted /\ [Next]_vars => AllAccounted'
<1> SUFFICES ASSUME IInv, BookInv, AllAccounted, [Next]_vars, NEW e \in Expenses
             PROVE  e \in accepted' => Accounted(e)'
  BY DEF AllAccounted
<1>1. CASE UNCHANGED vars
  BY <1>1
     DEF AllAccounted, Accounted, HandedAt, WaitingAt, InLog, vars, backend, store, history
<1>2. ASSUME NEW d \in Devices, OneMoves(d) PROVE e \in accepted' => Accounted(e)'
  BY <1>2, EachMoves, MoveKeepsAccount DEF BookInv, AllAccounted
<1> QED
  BY <1>1, <1>2, StepMoves DEF IInv

\* Nothing reported as a success disappears silently: it is on its way, at the
\* backend, refused by it, or was in a worker queue when the app was killed.
THEOREM NothingDisappears == Spec => []AcceptedIsAccountedFor
<1>1. Init => AllAccounted
  BY DEF Init, AllAccounted
<1>2. TypeOK /\ AllAccounted => AcceptedIsAccountedFor
  <2> SUFFICES ASSUME TypeOK, AllAccounted, NEW e \in accepted
               PROVE  \/ e \in lost \/ Set(e) \in rejected
                      \/ \E i \in DOMAIN log : log[i] = Set(e)
                      \/ \E d \in Devices :
                           \/ \E i \in DOMAIN worker[d]  : worker[d][i]  = Set(e)
                           \/ \E i \in DOMAIN pending[d] : pending[d][i] = Set(e)
    BY DEF AcceptedIsAccountedFor
  <2>1. e \in Expenses /\ Accounted(e)
    BY DEF TypeOK, AllAccounted
  <2>2. HandedAt(e) # {} => \E d \in Devices : In(worker[d], Set(e))
    BY DEF HandedAt, At
  <2>3. WaitingAt(e) # {} => \E d \in Devices : In(pending[d], Set(e))
    BY DEF WaitingAt, At
  <2> QED
    BY <2>1, <2>2, <2>3 DEF Accounted, InLog, In
<1>3. IInv => TypeOK
  BY DEF IInv
<1> QED
  BY <1>1, <1>2, <1>3, NextAccounted, IInvHolds, BookInvHolds, PTL DEF Spec

-----------------------------------------------------------------------------
(* The book.                                                               *)

\* The stages of a life exclude each other.
LifeIs(e) ==
  /\ Life(e) = "new"      <=> e \notin accepted
  /\ Life(e) = "booked"   <=> e \in Stored
  /\ Life(e) = "removed"  <=> InLog(Set(e)) /\ e \notin Stored
  /\ Life(e) = "refused"  <=> Set(e) \in rejected
  /\ Life(e) = "lost"     <=> e \in lost
  /\ Life(e) = "accepted" <=> /\ e \in accepted /\ ~InLog(Set(e))
                              /\ Set(e) \notin rejected /\ e \notin lost
  /\ Life(e) \in {"new", "accepted", "booked", "removed", "refused", "lost"}
  /\ e \in Doubt <=> InLog(Set(e)) /\ WaitingAt(e) # {}

Lives == \A e \in Expenses : LifeIs(e)

\* The states of BookInv are exclusive, so that Life tells them apart.
LEMMA LivesAreTold == TypeOK /\ BookInv => Lives
<1> SUFFICES ASSUME TypeOK, BookInv, NEW e \in Expenses PROVE LifeIs(e)
  BY DEF Lives
<1>1. e \in Stored => InLog(Set(e))
  BY StoredIsInLog
<1>2. OneState(e)
  BY DEF BookInv
<1>3. e \in Doubt <=> InLog(Set(e)) /\ WaitingAt(e) # {}
  BY DEF Doubt, WaitingAt, At, In
<1> QED
  BY <1>1, <1>2, <1>3 DEF LifeIs, Life, OneState

\* An expense that stays where it is keeps its page of the book.
LEMMA StayingIsNoNews ==
  ASSUME NEW e \in Expenses, LifeIs(e), LifeIs(e)', Stays(e)
  PROVE  Life(e)' = Life(e) /\ (e \in Doubt' <=> e \in Doubt)
  BY DEF LifeIs, Stays, KeepsPlace, KeepsLog, KeepsRejected, KeepsAccepted, KeepsLost

\* Each move of one expense is an entry in the book, or none.
Entry(e) ==
  \/ Life(e)' = Life(e) /\ (e \in Doubt' <=> e \in Doubt)
  \/ /\ Life(e) = "new" /\ Life(e)' = "accepted"
     /\ e \in Doubt' <=> e \in Doubt
  \/ /\ Life(e) = "accepted" /\ Life(e)' = "booked" /\ e \in Doubt'
  \/ /\ Life(e) = "accepted" /\ Life(e)' = "refused"
     /\ e \in Doubt' <=> e \in Doubt
  \/ /\ Life(e) = "booked" /\ Life(e)' = "removed"
     /\ e \in Doubt' <=> e \in Doubt
  \/ /\ e \in Doubt /\ e \in Doubt' /\ Life(e) = "removed" /\ Life(e)' = "booked"
  \/ /\ e \in Doubt /\ e \notin Doubt' /\ Life(e)' = Life(e)

\* Each move of an expense is one entry of the book.
LEMMA MoveIsEntry ==
  ASSUME NEW d \in Devices, NEW e \in Expenses, OnePlace(e), OneState(e), OneState(e)',
         LifeIs(e), LifeIs(e)', Moves(d, e)
  PROVE  Entry(e)
<1> USE DEF KeepsPlace, KeepsLog, KeepsRejected, KeepsAccepted, KeepsLost
<1>1. CASE IsAdded(d, e)
  BY <1>1 DEF IsAdded, OneState, LifeIs, Entry
<1>2. CASE IsPersisted(d, e)
  <2>1. Life(e)' = Life(e) /\ (e \in Doubt' <=> e \in Doubt)
    BY <1>2 DEF IsPersisted, OneState, LifeIs
  <2> QED
    BY <2>1 DEF Entry
<1>3. CASE IsBooked(d, e)
  BY <1>3 DEF IsBooked, OneState, LifeIs, Entry
<1>4. CASE IsRemoved(e)
  BY <1>4 DEF IsRemoved, OneState, LifeIs, Entry
<1>5. CASE IsAnswered(d, e)
  <2>1. WaitingAt(e)' = {}
    BY <1>5 DEF IsAnswered, OnePlace
  <2>2. Life(e)' = Life(e) /\ e \in Doubt /\ e \notin Doubt'
    BY <1>5, <2>1 DEF IsAnswered, OneState, LifeIs
  <2> QED
    BY <2>2 DEF Entry
<1>6. CASE IsRefused(d, e)
  BY <1>6 DEF IsRefused, OneState, LifeIs, Entry
<1> QED
  BY <1>1, <1>2, <1>3, <1>4, <1>5, <1>6 DEF Moves

\* What a kill loses was accepted and not decided.
LEMMA LossIsEntry ==
  ASSUME NEW d \in Devices, NEW e \in Expenses, OneState(e), OneState(e)',
         LifeIs(e), LifeIs(e)', IsLost(d, e)
  PROVE  Life(e) = "accepted" /\ Life(e)' = "lost" /\ (e \in Doubt' <=> e \in Doubt)
<1>1. e \in accepted /\ ~InLog(Set(e)) /\ Set(e) \notin rejected /\ e \notin lost
  BY DEF IsLost, OneState
<1> QED
  BY <1>1 DEF IsLost, OneState, LifeIs, KeepsLog, KeepsRejected, KeepsAccepted

\* The book as ExpenseSync keeps it, and when nothing in it changes.
lives == [e \in Expenses |-> Life(e)]

\* The variables of the book, as they are substituted.
LEMMA BookIsLives ==
  /\ Book!book = <<lives, Doubt>>
  /\ \A e, from, to : Book!Move(e, from, to) <=> lives[e] = from /\ lives' = [lives EXCEPT ![e] = to]
  BY DEF Book!book, Book!Move, lives

\* No news is a stuttering step of the book.
LEMMA NoNewsIsStutter ==
  ASSUME \A e \in Expenses : Life(e)' = Life(e) /\ (e \in Doubt' <=> e \in Doubt)
  PROVE  [Book!Next]_(Book!book)
<1>1. lives' = lives
  BY DEF lives
<1>2. Doubt' = Doubt
  BY DEF Doubt
<1>3. Book!book' = Book!book
  BY <1>1, <1>2 DEF Book!book, lives
<1> QED
  BY <1>3

\* An entry about one expense, with no news of the others, is a step of the book.
LEMMA EntryIsStep ==
  ASSUME NEW e \in Expenses, Entry(e),
         \A x \in Expenses \ {e} : Life(x)' = Life(x) /\ (x \in Doubt' <=> x \in Doubt)
  PROVE  [Book!Next]_(Book!book)
<1>1. \A from, to : Life(e) = from /\ Life(e)' = to => Book!Move(e, from, to)
  <2> SUFFICES ASSUME NEW from, NEW to, Life(e) = from, Life(e)' = to
               PROVE  lives[e] = from /\ lives' = [lives EXCEPT ![e] = to]
    BY BookIsLives
  <2> QED
    BY DEF lives
<1>2. Doubt \subseteq Expenses /\ Doubt' \subseteq Expenses
  BY DEF Doubt
<1>3. (e \in Doubt' <=> e \in Doubt) => Doubt' = Doubt
  BY <1>2
<1>4. /\ e \in Doubt' => Doubt' = Doubt \cup {e}
      /\ e \notin Doubt' => Doubt' = Doubt \ {e}
  BY <1>2
<1>5. Life(e)' = Life(e) => lives' = lives
  BY DEF lives
<1>6. CASE Life(e)' = Life(e) /\ (e \in Doubt' <=> e \in Doubt)
  BY <1>6, NoNewsIsStutter
<1>7. CASE Life(e) = "new" /\ Life(e)' = "accepted" /\ (e \in Doubt' <=> e \in Doubt)
  <2>1. Book!Accept(e)
    BY <1>1, <1>3, <1>7 DEF Book!Accept
  <2> QED
    BY <2>1 DEF Book!Next
<1>8. CASE Life(e) = "accepted" /\ Life(e)' = "booked" /\ e \in Doubt'
  <2>1. Book!Book(e)
    BY <1>1, <1>4, <1>8 DEF Book!Book
  <2> QED
    BY <2>1 DEF Book!Next
<1>9. CASE Life(e) = "accepted" /\ Life(e)' = "refused" /\ (e \in Doubt' <=> e \in Doubt)
  <2>1. Book!Refuse(e)
    BY <1>1, <1>3, <1>9 DEF Book!Refuse
  <2> QED
    BY <2>1 DEF Book!Next
<1>10. CASE Life(e) = "booked" /\ Life(e)' = "removed" /\ (e \in Doubt' <=> e \in Doubt)
  <2>1. Book!Remove(e)
    BY <1>1, <1>3, <1>10 DEF Book!Remove
  <2> QED
    BY <2>1 DEF Book!Next
<1>11. CASE e \in Doubt /\ e \in Doubt' /\ Life(e) = "removed" /\ Life(e)' = "booked"
  <2>1. Book!BookAgain(e)
    BY <1>1, <1>3, <1>11 DEF Book!BookAgain
  <2> QED
    BY <2>1 DEF Book!Next
<1>12. CASE e \in Doubt /\ e \notin Doubt' /\ Life(e)' = Life(e)
  <2>1. Book!Answer(e)
    BY <1>4, <1>5, <1>12 DEF Book!Answer, lives
  <2> QED
    BY <2>1 DEF Book!Next
<1> QED
  BY <1>6, <1>7, <1>8, <1>9, <1>10, <1>11, <1>12 DEF Entry

\* What a kill loses is lost in the book at once.
LEMMA LossIsStep ==
  ASSUME NEW S \in SUBSET Expenses,
         \A e \in S : Life(e) = "accepted" /\ Life(e)' = "lost",
         \A e \in Expenses \ S : Life(e)' = Life(e),
         \A e \in Expenses : e \in Doubt' <=> e \in Doubt
  PROVE  [Book!Next]_(Book!book)
<1>1. Doubt' = Doubt
  BY DEF Doubt
<1>2. lives' = [e \in Expenses |-> IF e \in S THEN "lost" ELSE lives[e]]
  BY DEF lives
<1>3. \A e \in S : lives[e] = "accepted"
  BY DEF lives
<1>4. Book!Lose(S)
  BY <1>1, <1>2, <1>3 DEF Book!Lose, lives
<1> QED
  BY <1>4 DEF Book!Next

\* Every step of the system is a step of the book.
LEMMA NextIsBookStep ==
  ASSUME TypeOK, AcksMatchQueue, BookInv, Lives, BookInv', Lives', [Next]_vars
  PROVE  [Book!Next]_(Book!book)
<1>1. CASE UNCHANGED vars
  <2>1. \A e \in Expenses : Stays(e)
    BY <1>1
       DEF Stays, KeepsPlace, KeepsLog, KeepsRejected, KeepsAccepted, KeepsLost, HandedAt,
           WaitingAt, InLog, Stored, vars, backend, store, history
  <2>2. \A e \in Expenses : Life(e)' = Life(e) /\ (e \in Doubt' <=> e \in Doubt)
    BY <2>1, StayingIsNoNews DEF Lives
  <2> QED
    BY <2>2, NoNewsIsStutter
<1>2. ASSUME NEW d \in Devices, OneMoves(d) PROVE [Book!Next]_(Book!book)
  <2>0. \A e \in Expenses : /\ LifeIs(e) /\ LifeIs(e)' /\ OnePlace(e)
                            /\ OneState(e) /\ OneState(e)'
    BY DEF Lives, BookInv
  <2>1. CASE \A e \in Expenses : Stays(e)
    <3>1. \A e \in Expenses : Life(e)' = Life(e) /\ (e \in Doubt' <=> e \in Doubt)
      BY <2>0, <2>1, StayingIsNoNews
    <3> QED
      BY <3>1, NoNewsIsStutter
  <2>2. ASSUME NEW e \in Expenses, Moves(d, e), \A x \in Expenses \ {e} : Stays(x)
        PROVE  [Book!Next]_(Book!book)
    <3>1. \A x \in Expenses \ {e} : Life(x)' = Life(x) /\ (x \in Doubt' <=> x \in Doubt)
      BY <2>0, <2>2, StayingIsNoNews
    <3>2. Entry(e)
      BY <2>0, <2>2, MoveIsEntry
    <3> QED
      BY <3>1, <3>2, EntryIsStep
  <2>3. CASE \A e \in Expenses : IF d \in HandedAt(e) THEN IsLost(d, e) ELSE Stays(e)
    <3> DEFINE S == {e \in Expenses : d \in HandedAt(e)}
    <3>1. \A e \in S : Life(e) = "accepted" /\ Life(e)' = "lost" /\ (e \in Doubt' <=> e \in Doubt)
      BY <2>0, <2>3, LossIsEntry
    <3>2. \A e \in Expenses \ S : Life(e)' = Life(e) /\ (e \in Doubt' <=> e \in Doubt)
      BY <2>0, <2>3, StayingIsNoNews
    <3> HIDE DEF S
    <3>3. S \in SUBSET Expenses
      BY DEF S
    <3> QED
      BY <3>1, <3>2, <3>3, LossIsStep
  <2> QED
    BY <1>2, <2>1, <2>2, <2>3 DEF OneMoves
<1> QED
  BY <1>1, <1>2, StepMoves

\* The book starts with nothing in it.
LEMMA BookStarts == Init => Book!Init
<1> SUFFICES ASSUME Init PROVE lives = [e \in Expenses |-> "new"] /\ Doubt = {}
  BY DEF Book!Init, lives
<1>1. \A e \in Expenses : Life(e) = "new"
  BY InitTypeOK, InitBookInv, LivesAreTold DEF Init, Lives, LifeIs
<1>2. Doubt = {}
  BY DEF Init, Doubt, InLog
<1> QED
  BY <1>1, <1>2 DEF lives

\* Every behaviour of the devices and the backend lives the lives SpendingBook
\* gives the expenses: nothing is booked that was not accepted, or after it was
\* refused or lost, and what is removed comes back only while its add is in doubt.
THEOREM BookIsKept == Spec => BookTransitions
<1>1. IInv /\ BookInv => TypeOK /\ AcksMatchQueue /\ Lives
  BY LivesAreTold DEF IInv
<1>2. /\ TypeOK /\ AcksMatchQueue /\ BookInv /\ Lives /\ BookInv' /\ Lives' /\ [Next]_vars
      => [Book!Next]_(Book!book)
  BY NextIsBookStep
<1>3. Spec => Book!Init /\ [][Book!Next]_(Book!book)
  BY <1>1, <1>2, BookStarts, IInvHolds, BookInvHolds, PTL DEF Spec
<1> QED
  BY <1>3 DEF BookTransitions, Book!Transitions

-----------------------------------------------------------------------------
(* What a device has seen.                                                 *)

\* Nobody can have seen an expense whose write has not left a worker queue.
Released(e) == WaitingAt(e) # {} \/ InLog(Set(e)) \/ Set(e) \in rejected

Blocks(m)   == UNION {m[i].docs : i \in DOMAIN m}
Deleting(w) == {e \in Expenses : In(w, Delete(e))}

\* The expenses a device shows, is about to show, or has been told to delete.
Visible(d) == expenses[d] \cup erased[d] \cup Blocks(main[d]) \cup Deleting(worker[d])

SeenIsReleased == \A d \in Devices : \A e \in Expenses : e \in Visible(d) => Released(e)
ViewIsReleased == \A d \in Devices : \A e \in Expenses : e \in View(d) => Released(e)

\* A written expense is on its way, answered or refused.
WrittenIsCached ==
  \A d \in Devices : \A e \in written[d] :
    In(pending[d], Set(e)) \/ cached[d][e].version > 0 \/ Set(e) \in rejected

\* The deletion of e is behind its write in the queue s.
DeletedLast(s, e) ==
  \A i \in DOMAIN s : s[i] = Set(e) => \E j \in DOMAIN s : j > i /\ s[j] = Delete(e)

\* A deletion is on its way or the cache knows a version no older than it.
DeletionKnown(d, e) ==
  \/ In(pending[d], Delete(e))
  \/ \E k \in DOMAIN log : log[k] = Delete(e) /\ k <= cached[d][e].version

ErasedIsCached ==
  \A d \in Devices : \A e \in erased[d] :
    Delete(e) \in rejected \/ (DeletedLast(pending[d], e) /\ DeletionKnown(d, e))

\* The last mutation of a document decides about it.
LEMMA LastDecides ==
  ASSUME NEW s \in Seq(Mutations), NEW v \in 0..Len(s), NEW e \in Expenses,
         NEW j, j = LastOn(s, v, e), j > 0
  PROVE  /\ j \in DOMAIN s /\ j \in 1..v
         /\ s[j].op = "set" => s[j] = Set(e)
         /\ s[j].op # "set" => s[j] = Delete(e)
         /\ \A i \in 1..v : s[i].doc = e => i <= j
<1>1. j \in 0..v /\ s[j].doc = e /\ \A i \in 1..v : s[i].doc = e => i <= j
  BY LastOnIsGreatest
<1>2. j \in DOMAIN s /\ j \in 1..v /\ s[j] \in Mutations
  BY <1>1, ElementOfSeq
<1>3. s[j] = Set(e) \/ s[j] = Delete(e)
  BY <1>1, <1>2, SetOrDelete
<1> QED
  BY <1>1, <1>2, <1>3, TasksDiffer

\* What is in a view is the last word of the queue, or else of the cache, and
\* what is missing from it likewise.
LEMMA ViewSays ==
  ASSUME IInv, NEW d \in Devices, NEW e \in Expenses
  PROVE  LET p == pending[d]
             v == cached[d][e].version
         IN /\ e \in View(d) =>
                 \/ \E i \in DOMAIN p : p[i] = Set(e) /\ \A j \in DOMAIN p : p[j].doc = e => j <= i
                 \/ (\A j \in DOMAIN p : p[j].doc # e) /\ v \in DOMAIN log /\ log[v] = Set(e)
            /\ e \notin View(d) =>
                 \/ In(p, Delete(e))
                 \/ /\ \A j \in DOMAIN p : p[j].doc # e
                    /\ v = 0 \/ (v \in DOMAIN log /\ log[v] = Delete(e))
<1> DEFINE p == pending[d]
           v == cached[d][e].version
           i == LastOn(p, Len(p), e)
<1>1. p \in Seq(Mutations) /\ Len(p) \in 0..Len(p) /\ DOMAIN p = 1..Len(p) /\ log \in Seq(Mutations)
  BY DEF IInv, TypeOK
<1>2. e \in View(d) <=> IF i > 0 THEN p[i].op = "set" ELSE cached[d][e].there
  BY DEF View, Overlay
<1>3. cached[d][e] = DocAt(log, v, e) /\ v \in 0..Len(log) /\ cached[d][e] \in [there : BOOLEAN, version : Nat]
  <2>1. seen[d] \in 0..Len(log)
    BY DEF IInv, TypeOK, SeenIsPast
  <2>2. LastOn(log, seen[d], e) \in 0..seen[d]
    BY <1>1, <2>1, LastOnIsGreatest
  <2>3. v \in LastOn(log, seen[d], e)..Len(log) /\ cached[d][e] = DocAt(log, v, e)
    BY DEF IInv, CacheCoherent
  <2>4. cached[d][e] \in [there : BOOLEAN, version : Nat]
    BY DEF IInv, TypeOK
  <2> QED
    BY <2>1, <2>2, <2>3, <2>4
<1>4. i \in 0..Len(p) /\ (i = 0 => \A j \in DOMAIN p : p[j].doc # e)
  BY <1>1, LastOnIsGreatest
<1> HIDE DEF i, v, p
<1>5. CASE i > 0
  <2>1. /\ i \in DOMAIN p
        /\ p[i].op = "set" => p[i] = Set(e)
        /\ p[i].op # "set" => p[i] = Delete(e)
        /\ \A j \in DOMAIN p : p[j].doc = e => j <= i
    BY <1>1, <1>5, LastDecides DEF i
  <2> QED
    BY <1>2, <1>5, <2>1 DEF In, p
<1>6. CASE i = 0
  <2>1. LastOn(log, v, e) = v /\ (cached[d][e].there <=> v > 0 /\ log[v].op = "set")
    <3>1. cached[d][e].version = LastOn(log, v, e)
      BY <1>3 DEF DocAt
    <3>2. LastOn(log, v, e) = v
      BY <3>1 DEF v
    <3>3. cached[d][e].there = (v > 0 /\ log[v].op = "set")
      BY <1>3, <3>2 DEF DocAt
    <3> QED
      BY <3>2, <3>3
  <2>2. v > 0 => /\ v \in DOMAIN log
                 /\ log[v].op = "set" => log[v] = Set(e)
                 /\ log[v].op # "set" => log[v] = Delete(e)
    BY <1>1, <1>3, <2>1, LastDecides
  <2>3. v = 0 \/ v > 0
    BY <1>3
  <2>4. e \in View(d) <=> v > 0 /\ log[v].op = "set"
    <3>1. ~(i > 0)
      BY <1>6
    <3>2. e \in View(d) <=> cached[d][e].there
      BY <1>2, <3>1
    <3> QED
      BY <2>1, <3>2
  <2>5. \A j \in DOMAIN p : p[j].doc # e
    BY <1>4, <1>6
  <2>6. e \in View(d) => v \in DOMAIN log /\ log[v] = Set(e)
    BY <2>2, <2>4
  <2>7. e \notin View(d) => v = 0 \/ (v \in DOMAIN log /\ log[v] = Delete(e))
    BY <2>2, <2>3, <2>4
  <2> QED
    BY <2>5, <2>6, <2>7 DEF p, v
<1> QED
  BY <1>4, <1>5, <1>6

\* What a device shows has left the worker queue it was written in.
LEMMA ViewsAreReleased == IInv => ViewIsReleased
<1> SUFFICES ASSUME IInv, NEW d \in Devices, NEW e \in Expenses, e \in View(d)
             PROVE  Released(e)
  BY DEF ViewIsReleased
<1>1. \/ \E i \in DOMAIN pending[d] : pending[d][i] = Set(e)
      \/ \E v \in DOMAIN log : log[v] = Set(e)
  BY ViewSays
<1> QED
  BY <1>1 DEF Released, WaitingAt, At, In, InLog

\* A released expense stays so: its write is answered only once it is in the log.
LEMMA ReleasedStays ==
  ASSUME IInv, BookInv, [Next]_vars, NEW e \in Expenses, Released(e)
  PROVE  Released(e)'
<1> USE DEF KeepsPlace, KeepsLog, KeepsRejected, Released
<1>1. CASE UNCHANGED vars
  BY <1>1 DEF WaitingAt, InLog, vars, backend, store
<1>2. ASSUME NEW d \in Devices, OneMoves(d) PROVE Released(e)'
  <2>1. Stays(e) \/ Moves(d, e) \/ IsLost(d, e)
    BY <1>2, EachMoves
  <2>2. CASE Stays(e) \/ IsLost(d, e)
    BY <2>2 DEF Stays, IsLost
  <2>3. CASE IsAdded(d, e) \/ IsPersisted(d, e)
    BY <2>3 DEF IsAdded, IsPersisted
  <2>4. CASE IsBooked(d, e) \/ IsRemoved(e)
    BY <2>4 DEF IsBooked, IsRemoved
  <2>5. CASE IsAnswered(d, e) \/ IsRefused(d, e)
    BY <2>5 DEF IsAnswered, IsRefused
  <2> QED
    BY <2>1, <2>2, <2>3, <2>4, <2>5 DEF Moves
<1> QED
  BY <1>1, <1>2, StepMoves DEF IInv

\* Blocks that join or leave the main thread.
LEMMA BlocksJoin ==
  ASSUME NEW m \in Seq(Events), NEW q \in Seq(Events), NEW S, \A i \in DOMAIN q : q[i].docs \subseteq S
  PROVE  Blocks(m \o q) \subseteq Blocks(m) \cup S
<1> DEFINE n == m \o q
<1>1. /\ DOMAIN n = 1..(Len(m) + Len(q)) /\ DOMAIN m = 1..Len(m) /\ DOMAIN q = 1..Len(q)
      /\ Len(m) \in Nat /\ Len(q) \in Nat
      /\ \A i \in DOMAIN m : n[i] = m[i]
      /\ \A i \in DOMAIN n : i > Len(m) => n[i] = q[i - Len(m)] /\ i - Len(m) \in DOMAIN q
  OBVIOUS
<1> HIDE DEF n
<1>2. \A i \in DOMAIN n : n[i].docs \subseteq Blocks(m) \cup S
  BY <1>1 DEF Blocks
<1> QED
  BY <1>2 DEF Blocks, n

\* A block that leaves takes nothing but its own documents.
LEMMA BlocksLeave ==
  ASSUME NEW m \in Seq(Events), m # <<>>
  PROVE  Blocks(Tail(m)) \subseteq Blocks(m) /\ Head(m).docs \subseteq Blocks(m)
<1> DEFINE n == Tail(m)
<1>1. /\ 1 \in DOMAIN m /\ Head(m) = m[1]
      /\ \A i \in DOMAIN n : i + 1 \in DOMAIN m /\ n[i] = m[i + 1]
  OBVIOUS
<1> HIDE DEF n
<1> QED
  BY <1>1 DEF Blocks, n

\* Raise queues blocks of the new view.
LEMMA RaiseBlocks ==
  ASSUME TypeOK, NEW d \in Devices, NEW old, NEW S \in SUBSET Expenses, NEW l, Raise(d, old, S, l)
  PROVE  /\ Blocks(main'[d]) \subseteq Blocks(main[d]) \cup S
         /\ \A x \in Devices \ {d} : main'[x] = main[x]
<1> DEFINE n == Heard(d, old, S, l) + First(d, S, l)
           q == [i \in 1..n |-> Snapshot(S)]
<1>1. listeners[d].live \in Nat /\ listeners[d].waiting \in Nat
  BY DEF TypeOK
<1>2. n \in Nat
  BY <1>1 DEF Heard, First
<1>3. main \in [Devices -> Seq(Events)] /\ main' = [main EXCEPT ![d] = @ \o q]
  BY DEF TypeOK, Raise
<1> HIDE DEF n
<1>4. q \in Seq(Events) /\ \A i \in DOMAIN q : q[i].docs \subseteq S
  <2>1. q \in Seq(Events)
    BY <1>2, QueueTypes, RepeatedIsSeq
  <2>2. Snapshot(S).docs \subseteq S
    BY DEF Snapshot
  <2> QED
    BY <2>1, <2>2
<1> HIDE DEF q
<1>5. main[d] \in Seq(Events) /\ main'[d] = main[d] \o q
  BY <1>3
<1>6. Blocks(main[d] \o q) \subseteq Blocks(main[d]) \cup S
  BY <1>4, <1>5, BlocksJoin
<1> QED
  BY <1>3, <1>5, <1>6

\* What a device can newly see after a step is in its view.
SeesOnly(x) == Visible(x)' \subseteq Visible(x) \cup View(x)'

\* A step that raises a view, has no part in what is deleted, and tells nobody else.
LEMMA RaiseSees ==
  ASSUME TypeOK, NEW d \in Devices, NEW old,
         Raise(d, old, Overlay(cached'[d], pending'[d]), link'[d]),
         expenses' = expenses,
         erased'[d] \subseteq erased[d] \cup Deleting(worker[d]),
         Deleting(worker'[d]) \subseteq Deleting(worker[d]),
         \A x \in Devices \ {d} : erased'[x] = erased[x] /\ worker'[x] = worker[x],
         NEW x \in Devices
  PROVE  SeesOnly(x)
<1>1. /\ Blocks(main'[d]) \subseteq Blocks(main[d]) \cup View(d)'
      /\ \A y \in Devices \ {d} : main'[y] = main[y]
  <2>1. View(d)' = Overlay(cached'[d], pending'[d])
    BY DEF View
  <2> QED
    BY <2>1, OverlayType, RaiseBlocks
<1>2. CASE x = d
  BY <1>1, <1>2 DEF SeesOnly, Visible
<1>3. CASE x # d
  BY <1>1, <1>3 DEF SeesOnly, Visible
<1> QED
  BY <1>2, <1>3

\* A step that queues no snapshot.
LEMMA QuietSees ==
  ASSUME NEW d \in Devices, UNCHANGED <<expenses, erased>>,
         Blocks(main'[d]) \subseteq Blocks(main[d]),
         Deleting(worker'[d]) \subseteq Deleting(worker[d]) \cup expenses[d],
         \A x \in Devices \ {d} : main'[x] = main[x] /\ worker'[x] = worker[x],
         NEW x \in Devices
  PROVE  SeesOnly(x)
<1>1. CASE x = d
  BY <1>1 DEF SeesOnly, Visible
<1>2. CASE x # d
  BY <1>2 DEF SeesOnly, Visible
<1> QED
  BY <1>1, <1>2

\* Tasks that join or leave a worker queue.
LEMMA DeletingJoin ==
  ASSUME NEW w \in Seq(Tasks), NEW t \in Tasks
  PROVE  /\ (\A e \in Expenses : t # Delete(e)) => Deleting(Append(w, t)) = Deleting(w)
         /\ \A e \in Expenses : t = Delete(e) => Deleting(Append(w, t)) = Deleting(w) \cup {e}
<1>1. \A e \in Expenses : In(Append(w, t), Delete(e)) <=> In(w, Delete(e)) \/ t = Delete(e)
  BY InAppend
<1>2. \A e, x \in Expenses : Delete(e) = Delete(x) <=> e = x
  BY TasksDiffer
<1> QED
  BY <1>1, <1>2 DEF Deleting

\* A task that leaves the worker may be the deletion of its document.
LEMMA DeletingLeave ==
  ASSUME NEW w \in Seq(Tasks), w # <<>>
  PROVE  /\ Deleting(Tail(w)) \subseteq Deleting(w)
         /\ \A e \in Expenses : Head(w) = Delete(e) => e \in Deleting(w)
<1>1. \A e \in Expenses : In(w, Delete(e)) <=> Head(w) = Delete(e) \/ In(Tail(w), Delete(e))
  BY InTail
<1> QED
  BY <1>1 DEF Deleting

\* A device sees nothing new but its view and what it already saw.
LEMMA NextSees ==
  ASSUME TypeOK, AcksMatchQueue, [Next]_vars, NEW x \in Devices
  PROVE  SeesOnly(x)
<1> USE DEF backend, store, screen, history, budgets
<1>1. /\ worker \in [Devices -> Seq(Tasks)] /\ main \in [Devices -> Seq(Events)]
      /\ pending \in [Devices -> Seq(Mutations)] /\ erased \in [Devices -> SUBSET Expenses]
      /\ cached \in [Devices -> [Expenses -> [there : BOOLEAN, version : Nat]]]
      /\ link \in [Devices -> {"waiting", "current", "offline"}]
      /\ expenses \in [Devices -> SUBSET Expenses]
  BY DEF TypeOK
<1>2. ASSUME NEW d \in Devices, Enqueue(d, Listen)
      PROVE  /\ Deleting(worker'[d]) \subseteq Deleting(worker[d])
             /\ \A y \in Devices \ {d} : worker'[y] = worker[y]
  <2>1. worker'[d] = Append(worker[d], Listen) /\ \A y \in Devices \ {d} : worker'[y] = worker[y]
    BY <1>1, <1>2 DEF Enqueue
  <2>2. worker[d] \in Seq(Tasks) /\ Listen \in Tasks /\ \A e \in Expenses : Listen # Delete(e)
    BY <1>1, QueueTypes, TasksDiffer
  <2> QED
    BY <2>1, <2>2, DeletingJoin
<1>3. ASSUME NEW d \in Devices, Launch(d) PROVE SeesOnly(x)
  <2>1. Enqueue(d, Listen) /\ UNCHANGED <<expenses, erased, main>>
    BY <1>3 DEF Launch
  <2> QED
    BY <1>2, <2>1, QuietSees
<1>4. ASSUME NEW d \in Devices, HomeAppears(d) \/ HomeReappears(d) PROVE SeesOnly(x)
  <2>1. Enqueue(d, Listen) /\ UNCHANGED <<expenses, erased>>
    BY <1>4 DEF HomeAppears, HomeReappears
  <2>2. /\ main'[d] = main[d] \o FirstLoads \/ main'[d] = Append(main[d], Load)
        /\ \A y \in Devices \ {d} : main'[y] = main[y]
    BY <1>1, <1>4 DEF HomeAppears, HomeReappears
  <2>3. main[d] \in Seq(Events) /\ Append(main[d], Load) = main[d] \o <<Load>>
    BY <1>1, QueueTypes, AppendBlock
  <2>4. /\ \A i \in DOMAIN <<Load>> : <<Load>>[i].docs \subseteq {}
        /\ \A i \in DOMAIN FirstLoads : FirstLoads[i].docs \subseteq {}
    BY DEF FirstLoads, Load
  <2>5. /\ Blocks(main[d] \o FirstLoads) \subseteq Blocks(main[d])
        /\ Blocks(main[d] \o <<Load>>) \subseteq Blocks(main[d])
    <3>1. Blocks(main[d] \o FirstLoads) \subseteq Blocks(main[d]) \cup {}
      BY <2>3, <2>4, QueueTypes, BlocksJoin
    <3>2. Blocks(main[d] \o <<Load>>) \subseteq Blocks(main[d]) \cup {}
      BY <2>3, <2>4, QueueTypes, BlocksJoin
    <3> QED
      BY <3>1, <3>2
  <2> QED
    BY <1>2, <2>1, <2>2, <2>3, <2>5, QuietSees
<1>5. ASSUME NEW d \in Devices, NEW e \in Expenses, AddExpense(d, e) \/ DeleteExpense(d, e)
      PROVE  SeesOnly(x)
  <2>1. UNCHANGED <<expenses, erased, main>> /\ \A y \in Devices \ {d} : worker'[y] = worker[y]
    BY <1>1, <1>5 DEF AddExpense, DeleteExpense, Enqueue
  <2>2. /\ AddExpense(d, e) => worker'[d] = Append(worker[d], Set(e))
        /\ DeleteExpense(d, e) => worker'[d] = Append(worker[d], Delete(e)) /\ e \in expenses[d]
    BY <1>1 DEF AddExpense, DeleteExpense, Enqueue
  <2>3. /\ worker[d] \in Seq(Tasks) /\ Set(e) \in Tasks /\ Delete(e) \in Tasks
        /\ \A y \in Expenses : Set(e) # Delete(y)
    BY <1>1, QueueTypes, TasksDiffer
  <2>4. Deleting(worker'[d]) \subseteq Deleting(worker[d]) \cup expenses[d]
    <3>1. CASE AddExpense(d, e)
      <4>1. Deleting(Append(worker[d], Set(e))) = Deleting(worker[d])
        BY <2>3, DeletingJoin
      <4> QED
        BY <2>2, <3>1, <4>1
    <3>2. CASE DeleteExpense(d, e)
      <4>1. Deleting(Append(worker[d], Delete(e))) = Deleting(worker[d]) \cup {e}
        BY <2>3, DeletingJoin
      <4> QED
        BY <2>2, <3>2, <4>1
    <3> QED
      BY <1>5, <3>1, <3>2
  <2> QED
    BY <2>1, <2>4, QuietSees
<1>6. ASSUME NEW d \in Devices, DeliverSnapshot(d) \/ DeliverLoad(d) PROVE SeesOnly(x)
  <2>1. /\ main[d] \in Seq(Events) /\ main[d] # <<>> /\ main'[d] = Tail(main[d])
        /\ UNCHANGED <<erased, worker>>
        /\ expenses'[d] = expenses[d] \/ expenses'[d] = Head(main[d]).docs
        /\ \A y \in Devices \ {d} : main'[y] = main[y] /\ expenses'[y] = expenses[y]
    BY <1>1, <1>6 DEF DeliverSnapshot, DeliverLoad
  <2>2. Blocks(Tail(main[d])) \subseteq Blocks(main[d]) /\ Head(main[d]).docs \subseteq Blocks(main[d])
    BY <2>1, BlocksLeave
  <2>3. CASE x = d
    BY <2>1, <2>2, <2>3 DEF SeesOnly, Visible
  <2>4. CASE x # d
    BY <2>1, <2>4 DEF SeesOnly, Visible
  <2> QED
    BY <2>3, <2>4
<1>7. ASSUME NEW d \in Devices, Kill(d) PROVE SeesOnly(x)
  <2>1. /\ main'[d] = <<>> /\ worker'[d] = <<>> /\ expenses'[d] = {} /\ erased' = erased
        /\ \A y \in Devices \ {d} : UNCHANGED <<main[y], worker[y], expenses[y]>>
    BY <1>1, <1>7 DEF Kill
  <2>2. Blocks(<<>>) = {} /\ Deleting(<<>>) = {}
    BY DEF Blocks, Deleting, In
  <2>3. CASE x = d
    BY <2>1, <2>2, <2>3 DEF SeesOnly, Visible
  <2>4. CASE x # d
    BY <2>1, <2>4 DEF SeesOnly, Visible
  <2> QED
    BY <2>3, <2>4
<1>8. ASSUME NEW d \in Devices, RunListen(d) PROVE SeesOnly(x)
  <2>1. /\ worker[d] \in Seq(Tasks) /\ worker[d] # <<>> /\ worker'[d] = Tail(worker[d])
        /\ UNCHANGED <<expenses, erased, cached, pending>>
        /\ \A y \in Devices \ {d} : main'[y] = main[y] /\ worker'[y] = worker[y]
        /\ main'[d] = main[d] \/ main'[d] = Append(main[d], Snapshot(View(d)))
    BY <1>1, <1>8 DEF RunListen
  <2>2. /\ main[d] \in Seq(Events) /\ <<Snapshot(View(d))>> \in Seq(Events)
        /\ Append(main[d], Snapshot(View(d))) = main[d] \o <<Snapshot(View(d))>>
        /\ \A i \in DOMAIN <<Snapshot(View(d))>> : <<Snapshot(View(d))>>[i].docs \subseteq View(d)
    <3>1. Snapshot(View(d)) \in Events /\ Snapshot(View(d)).docs = View(d)
      BY QueueTypes, OverlayType DEF View, Snapshot
    <3> QED
      BY <1>1, <3>1
  <2>3. Blocks(main[d] \o <<Snapshot(View(d))>>) \subseteq Blocks(main[d]) \cup View(d)
    BY <2>2, BlocksJoin
  <2>4. Deleting(worker'[d]) \subseteq Deleting(worker[d])
    BY <2>1, DeletingLeave
  <2>5. View(d)' = View(d) /\ Blocks(main'[d]) \subseteq Blocks(main[d]) \cup View(d)
    <3>1. View(d)' = View(d)
      BY <2>1 DEF View
    <3> QED
      BY <2>1, <2>2, <2>3, <3>1
  <2>6. CASE x = d
    BY <2>1, <2>4, <2>5, <2>6 DEF SeesOnly, Visible
  <2>7. CASE x # d
    BY <2>1, <2>7 DEF SeesOnly, Visible
  <2> QED
    BY <2>6, <2>7
<1>9. ASSUME NEW d \in Devices, RunWrite(d) PROVE SeesOnly(x)
  <2>1. /\ worker[d] \in Seq(Tasks) /\ worker[d] # <<>> /\ worker'[d] = Tail(worker[d])
        /\ Head(worker[d]) \in Mutations
        /\ pending'[d] = Persist(pending[d], Head(worker[d]))
        /\ UNCHANGED <<expenses, cached, link>>
        /\ \A y \in Devices \ {d} : erased'[y] = erased[y] /\ worker'[y] = worker[y]
        /\ erased'[d] = IF Head(worker[d]).op = "delete" THEN erased[d] \cup {Head(worker[d]).doc} ELSE erased[d]
    <3>1. worker[d] \in Seq(Tasks) /\ worker[d] # <<>> /\ Head(worker[d]) # Listen
      BY <1>1, <1>9 DEF RunWrite
    <3>2. Head(worker[d]) \in Mutations
      BY <3>1 DEF Tasks
    <3> QED
      BY <1>1, <1>9, <3>1, <3>2 DEF RunWrite
  <2>2. Raise(d, View(d), Overlay(cached'[d], pending'[d]), link'[d])
    BY <1>9, <2>1 DEF RunWrite
  <2>3. erased'[d] \subseteq erased[d] \cup Deleting(worker[d])
    <3>1. Head(worker[d]).op = "delete" => Head(worker[d]) = Delete(Head(worker[d]).doc)
      BY <2>1, SetOrDelete, TasksDiffer
    <3>2. Head(worker[d]).doc \in Expenses
      BY <2>1, SetOrDelete
    <3> QED
      BY <2>1, <3>1, <3>2, DeletingLeave
  <2>4. Deleting(worker'[d]) \subseteq Deleting(worker[d])
    BY <2>1, DeletingLeave
  <2> QED
    BY <2>1, <2>2, <2>3, <2>4, RaiseSees
<1>10. ASSUME NEW d \in Devices, Commit(d) \/ BreakWriteStream(d) \/ Reconnect(d) PROVE SeesOnly(x)
  <2>1. UNCHANGED <<expenses, erased, main, worker>>
    BY <1>10 DEF Commit, BreakWriteStream, Reconnect
  <2> QED
    BY <2>1 DEF SeesOnly, Visible
<1>11. ASSUME NEW d \in Devices, Acknowledge(d) \/ Reject(d) PROVE SeesOnly(x)
  <2>1. Raise(d, View(d), Overlay(cached'[d], pending'[d]), link'[d])
    BY <1>1, <1>11 DEF Acknowledge, Reject
  <2>2. UNCHANGED <<expenses, erased, worker>>
    BY <1>11 DEF Acknowledge, Reject
  <2> QED
    BY <2>1, <2>2, RaiseSees
<1>12. ASSUME NEW d \in Devices, NEW v \in seen[d]..Len(log), Watch(d, v) PROVE SeesOnly(x)
  <2> DEFINE c == [e \in Expenses |->
                     LET new == DocAt(log, v, e) IN
                     IF new.version > seen[d] /\ Newer(cached[d], e, new.version)
                       THEN new ELSE cached[d][e]]
  <2>1. cached' = [cached EXCEPT ![d] = c] /\ Raise(d, View(d), Overlay(c, pending[d]), "current")
    BY <1>12 DEF Watch
  <2> HIDE DEF c
  <2>2. cached'[d] = c /\ link'[d] = "current" /\ UNCHANGED <<pending, expenses, erased, worker>>
    BY <1>1, <1>12, <2>1 DEF Watch
  <2>3. Raise(d, View(d), Overlay(cached'[d], pending'[d]), link'[d])
    BY <2>1, <2>2
  <2> QED
    BY <2>2, <2>3, RaiseSees
<1>13. ASSUME NEW d \in Devices, GoOffline(d) PROVE SeesOnly(x)
  <2>1. link'[d] = "offline" /\ UNCHANGED <<pending, cached, expenses, erased, worker>>
    BY <1>1, <1>13 DEF GoOffline
  <2>2. Raise(d, View(d), Overlay(cached'[d], pending'[d]), link'[d])
    BY <1>13, <2>1 DEF GoOffline, View
  <2> QED
    BY <2>1, <2>2, RaiseSees
<1>14. CASE UNCHANGED vars
  <2>1. UNCHANGED <<expenses, erased, main, worker>>
    BY <1>14 DEF vars
  <2> QED
    BY <2>1 DEF SeesOnly, Visible
<1> QED
  BY <1>3, <1>4, <1>5, <1>6, <1>7, <1>8, <1>9, <1>10, <1>11, <1>12, <1>13, <1>14
     DEF Next, User, MainThread, Worker, WriteStream, WatchStream, Failure

\* So nobody sees an expense before its write has left the queue it was written in.
LEMMA NextSeenIsReleased ==
  ASSUME IInv, BookInv, SeenIsReleased, [Next]_vars, ViewIsReleased'
  PROVE  SeenIsReleased'
<1> SUFFICES ASSUME NEW d \in Devices, NEW e \in Expenses, e \in Visible(d)' PROVE Released(e)'
  BY DEF SeenIsReleased
<1>1. e \in Visible(d) \/ e \in View(d)'
  BY NextSees DEF SeesOnly, IInv
<1>2. CASE e \in Visible(d)
  BY <1>2, ReleasedStays DEF SeenIsReleased
<1>3. CASE e \in View(d)'
  BY <1>3 DEF ViewIsReleased
<1> QED
  BY <1>1, <1>2, <1>3

\* At first a device shows nothing.
LEMMA InitSeenIsReleased == Init => SeenIsReleased
<1> SUFFICES ASSUME Init, NEW d \in Devices PROVE Visible(d) = {}
  BY DEF SeenIsReleased
<1>1. main[d] = <<>> /\ worker[d] = <<>> /\ expenses[d] = {} /\ erased[d] = {}
  BY DEF Init
<1>2. Blocks(<<>>) = {} /\ Deleting(<<>>) = {}
  BY DEF Blocks, Deleting, In
<1> QED
  BY <1>1, <1>2 DEF Visible

\* So it holds at all times.
LEMMA SeenIsReleasedHolds == Spec => []SeenIsReleased
<1>1. IInv /\ BookInv /\ SeenIsReleased /\ [Next]_vars /\ ViewIsReleased' => SeenIsReleased'
  BY NextSeenIsReleased
<1>2. IInv => ViewIsReleased
  BY ViewsAreReleased
<1> QED
  BY <1>1, <1>2, InitSeenIsReleased, IInvHolds, BookInvHolds, PTL DEF Spec

-----------------------------------------------------------------------------
(* What a device was told to write and delete.                             *)

\* The answer to a mutation brings the cache to the version it was committed at.
LEMMA AnswerIsCached ==
  ASSUME IInv, [Next]_vars, NEW d \in Devices, Acknowledge(d), NEW e \in Expenses,
         Head(pending[d]).doc = e
  PROVE  \E k \in DOMAIN log :
           /\ log[k] = Head(pending[d]) /\ k <= cached'[d][e].version /\ k > 0
           /\ cached'[d][e].version \in Nat
<1> DEFINE m == Head(pending[d])
           k == Head(acks[d])
<1>1. /\ cached \in [Devices -> [Expenses -> [there : BOOLEAN, version : Nat]]]
      /\ cached[d] \in [Expenses -> [there : BOOLEAN, version : Nat]]
      /\ pending[d] \in Seq(Mutations) /\ acks[d] \in Seq(Nat) /\ acks[d] # <<>>
      /\ log \in Seq(Mutations)
  BY DEF IInv, TypeOK, Acknowledge
<1>2. k \in DOMAIN log /\ log[k] = m
  <2>1. 1 \in DOMAIN acks[d] /\ k = acks[d][1] /\ Len(acks[d]) <= Len(pending[d])
    BY <1>1 DEF IInv, AcksMatchQueue
  <2>2. m = pending[d][1]
    BY <1>1, <2>1
  <2> QED
    BY <2>1, <2>2 DEF IInv, AcksMatchQueue
<1>3. cached'[d] = Acked(cached[d], m, k)
  BY <1>1 DEF Acknowledge
<1>4. k \in Nat /\ k > 0 /\ cached[d][e].version \in Nat
  BY <1>1, <1>2
<1> HIDE DEF m, k
<1>5. m.doc = e
  BY DEF m
<1>6. cached'[d][e] = IF cached[d][e].version < k THEN [there |-> m.op = "set", version |-> k] ELSE cached[d][e]
  BY <1>1, <1>3, <1>5 DEF Acked, Newer
<1>7. cached'[d][e].version = IF cached[d][e].version < k THEN k ELSE cached[d][e].version
  BY <1>6
<1> QED
  BY <1>2, <1>4, <1>7 DEF m

\* The steps of a mutation queue, with what the device is told on the way.
LEMMA QueueSteps ==
  ASSUME TypeOK, AcksMatchQueue, [Next]_vars, NEW x \in Devices
  PROVE  /\ rejected \subseteq rejected'
         /\ \/ UNCHANGED <<pending[x], written[x], erased[x]>>
            \/ \E m \in Mutations :
                 /\ In(worker[x], m) /\ pending'[x] = Append(pending[x], m)
                 /\ written'[x] = IF m.op = "set" THEN written[x] \cup {m.doc} ELSE written[x]
                 /\ erased'[x] = IF m.op = "delete" THEN erased[x] \cup {m.doc} ELSE erased[x]
            \/ /\ pending[x] # <<>> /\ pending'[x] = Tail(pending[x])
               /\ UNCHANGED <<written[x], erased[x]>>
               /\ Acknowledge(x) \/ Head(pending[x]) \in rejected'
<1> USE DEF backend, store, screen, history, budgets
<1>1. /\ worker \in [Devices -> Seq(Tasks)] /\ pending \in [Devices -> Seq(Mutations)]
      /\ written \in [Devices -> SUBSET Expenses] /\ erased \in [Devices -> SUBSET Expenses]
  BY DEF TypeOK
<1> DEFINE Same == rejected \subseteq rejected' /\ UNCHANGED <<pending[x], written[x], erased[x]>>
<1>2. ASSUME NEW d \in Devices,
             \/ Launch(d) \/ HomeAppears(d) \/ HomeReappears(d) \/ DeliverSnapshot(d)
             \/ DeliverLoad(d) \/ Kill(d) \/ RunListen(d) \/ Commit(d) \/ BreakWriteStream(d)
             \/ GoOffline(d) \/ Reconnect(d)
             \/ \E e \in Expenses : AddExpense(d, e) \/ DeleteExpense(d, e)
             \/ \E v \in seen[d]..Len(log) : Watch(d, v)
      PROVE  Same
  <2>1. UNCHANGED <<pending, written, erased, rejected>>
    BY <1>2
       DEF Launch, HomeAppears, HomeReappears, DeliverSnapshot, DeliverLoad, Kill, RunListen,
           Commit, BreakWriteStream, GoOffline, Reconnect, AddExpense, DeleteExpense, Watch
  <2> QED
    BY <2>1
<1>3. ASSUME NEW d \in Devices, d # x, RunWrite(d) \/ Acknowledge(d) \/ Reject(d) PROVE Same
  BY <1>1, <1>3 DEF RunWrite, Acknowledge, Reject
<1>4. ASSUME RunWrite(x)
      PROVE  /\ rejected' = rejected
             /\ \E m \in Mutations :
                 /\ In(worker[x], m) /\ pending'[x] = Append(pending[x], m)
                 /\ written'[x] = IF m.op = "set" THEN written[x] \cup {m.doc} ELSE written[x]
                 /\ erased'[x] = IF m.op = "delete" THEN erased[x] \cup {m.doc} ELSE erased[x]
  <2> DEFINE m == Head(worker[x])
  <2>1. worker[x] \in Seq(Tasks) /\ worker[x] # <<>> /\ m # Listen
    BY <1>1, <1>4 DEF RunWrite
  <2>2. m \in Mutations /\ In(worker[x], m)
    <3>1. 1 \in DOMAIN worker[x] /\ m = worker[x][1] /\ m \in Tasks
      BY <2>1
    <3> QED
      BY <2>1, <3>1 DEF Tasks, In
  <2>3. /\ pending'[x] = Append(pending[x], m) /\ rejected' = rejected
        /\ written'[x] = IF m.op = "set" THEN written[x] \cup {m.doc} ELSE written[x]
        /\ erased'[x] = IF m.op = "delete" THEN erased[x] \cup {m.doc} ELSE erased[x]
    BY <1>1, <1>4 DEF RunWrite, Persist
  <2> QED
    BY <2>2, <2>3
<1>5. ASSUME Acknowledge(x) \/ Reject(x)
      PROVE  /\ rejected \subseteq rejected'
             /\ pending[x] # <<>> /\ pending'[x] = Tail(pending[x])
             /\ UNCHANGED <<written[x], erased[x]>>
             /\ Acknowledge(x) \/ Head(pending[x]) \in rejected'
  <2>1. CASE Acknowledge(x)
    <3>1. acks[x] \in Seq(Nat) /\ acks[x] # <<>> /\ Len(acks[x]) <= Len(pending[x])
      BY <2>1 DEF Acknowledge, TypeOK, AcksMatchQueue
    <3>2. pending[x] # <<>>
      BY <1>1, <3>1
    <3> QED
      BY <1>1, <2>1, <3>2 DEF Acknowledge
  <2>2. CASE Reject(x)
    BY <1>1, <2>2 DEF Reject
  <2> QED
    BY <1>5, <2>1, <2>2
<1>6. CASE UNCHANGED vars
  BY <1>6 DEF vars
<1> QED
  BY <1>2, <1>3, <1>4, <1>5, <1>6
     DEF Next, User, MainThread, Worker, WriteStream, WatchStream, Failure

\* The commits a cached version covers stay covered.
LEMMA CoverGrows ==
  ASSUME IInv, [Next]_vars, NEW x \in Devices, NEW e \in Expenses
  PROVE  /\ cached'[x][e].version \in Nat /\ cached[x][e].version \in Nat
         /\ cached'[x][e].version >= cached[x][e].version
         /\ \A k \in DOMAIN log : k \in DOMAIN log' /\ log'[k] = log[k]
<1>1. TypeOK /\ TypeOK' /\ log \in Seq(Mutations)
  BY NextIInv DEF IInv, TypeOK
<1>2. cached'[x][e].version \in Nat /\ cached[x][e].version \in Nat
  <2>1. /\ cached \in [Devices -> [Expenses -> [there : BOOLEAN, version : Nat]]]
        /\ cached' \in [Devices -> [Expenses -> [there : BOOLEAN, version : Nat]]]
    BY <1>1 DEF TypeOK
  <2>2. /\ cached[x][e] \in [there : BOOLEAN, version : Nat]
        /\ cached'[x][e] \in [there : BOOLEAN, version : Nat]
    BY <2>1
  <2> QED
    BY <2>2
<1>3. \A k \in DOMAIN log : k \in DOMAIN log' /\ log'[k] = log[k]
  BY <1>1, LogGrows, AppendKeeps
<1> QED
  BY <1>2, <1>3, NextCache

\* A written expense moves from the queue to the cache, unless it is refused.
LEMMA NextWrittenIsCached ==
  ASSUME IInv, WrittenIsCached, [Next]_vars
  PROVE  WrittenIsCached'
<1> SUFFICES ASSUME NEW x \in Devices, NEW e \in written'[x]
             PROVE  \/ In(pending'[x], Set(e)) \/ cached'[x][e].version > 0
                    \/ Set(e) \in rejected'
  BY DEF WrittenIsCached
<1>0. TypeOK /\ AcksMatchQueue /\ TypeOK'
  BY NextIInv DEF IInv
<1>1. e \in Expenses /\ pending[x] \in Seq(Mutations) /\ Set(e) \in Mutations
  BY <1>0, QueueTypes DEF TypeOK
<1>2. rejected \subseteq rejected'
  BY <1>0, QueueSteps
<1>3. cached[x][e].version > 0 => cached'[x][e].version > 0
  BY <1>1, CoverGrows
<1>4. CASE UNCHANGED <<pending[x], written[x], erased[x]>>
  <2>1. e \in written[x] /\ (In(pending[x], Set(e)) => In(pending'[x], Set(e)))
    BY <1>4
  <2> QED
    BY <1>2, <1>3, <2>1 DEF WrittenIsCached
<1>5. ASSUME NEW m \in Mutations, pending'[x] = Append(pending[x], m),
             written'[x] = IF m.op = "set" THEN written[x] \cup {m.doc} ELSE written[x]
      PROVE  \/ In(pending'[x], Set(e)) \/ cached'[x][e].version > 0
             \/ Set(e) \in rejected'
  <2>1. In(pending'[x], Set(e)) <=> In(pending[x], Set(e)) \/ m = Set(e)
    BY <1>1, <1>5, InAppend
  <2>2. e \in written[x] \/ m = Set(e)
    BY <1>5, SetOrDelete
  <2> QED
    BY <1>2, <1>3, <2>1, <2>2 DEF WrittenIsCached
<1>6. CASE /\ pending[x] # <<>> /\ pending'[x] = Tail(pending[x])
           /\ UNCHANGED <<written[x], erased[x]>>
           /\ Acknowledge(x) \/ Head(pending[x]) \in rejected'
  <2>1. In(pending[x], Set(e)) <=> Head(pending[x]) = Set(e) \/ In(pending'[x], Set(e))
    BY <1>1, <1>6, InTail
  <2>2. e \in written[x]
    BY <1>6
  <2>3. ASSUME Head(pending[x]) = Set(e), Acknowledge(x) PROVE cached'[x][e].version > 0
    <3>1. Head(pending[x]).doc = e
      BY <2>3, TasksDiffer
    <3>2. PICK k \in DOMAIN log : k <= cached'[x][e].version /\ k > 0 /\ cached'[x][e].version \in Nat
      BY <1>1, <2>3, <3>1, AnswerIsCached
    <3>3. log \in Seq(Mutations)
      BY <1>0 DEF TypeOK
    <3>4. k \in Nat
      BY <3>3
    <3> QED
      BY <3>2, <3>4
  <2> QED
    BY <1>2, <1>3, <1>6, <2>1, <2>2, <2>3 DEF WrittenIsCached
<1> QED
  BY <1>0, <1>4, <1>5, <1>6, QueueSteps

\* An expense a device has written stays in its list from that moment on, while
\* the write is queued, sent, answered and echoed, unless somebody deletes it or
\* the backend refuses it.
THEOREM WrittenIsShown == Spec => []WrittenStaysShown
<1>1. Init => WrittenIsCached
  BY DEF Init, WrittenIsCached
<1>2. IInv /\ WrittenIsCached /\ [Next]_vars => WrittenIsCached'
  BY NextWrittenIsCached
<1>3. IInv /\ WrittenIsCached => WrittenStaysShown
  <2> SUFFICES ASSUME IInv, WrittenIsCached, NEW d \in Devices, NEW e \in written[d],
                      e \notin View(d), Set(e) \notin rejected
               PROVE  DeletedSomewhere(d, e)
    BY DEF WrittenStaysShown
  <2>1. e \in Expenses
    BY DEF IInv, TypeOK
  <2>2. \/ In(pending[d], Delete(e))
        \/ /\ \A j \in DOMAIN pending[d] : pending[d][j].doc # e
           /\ \/ cached[d][e].version = 0
              \/ cached[d][e].version \in DOMAIN log /\ log[cached[d][e].version] = Delete(e)
    BY <2>1, ViewSays
  <2>3. In(pending[d], Set(e)) \/ cached[d][e].version > 0
    BY DEF WrittenIsCached
  <2>4. In(pending[d], Set(e)) => \E j \in DOMAIN pending[d] : pending[d][j].doc = e
    BY TasksDiffer DEF In
  <2>5. In(pending[d], Delete(e)) \/ In(log, Delete(e))
    BY <2>2, <2>3, <2>4 DEF In
  <2> QED
    BY <2>5 DEF DeletedSomewhere, In
<1> QED
  BY <1>1, <1>2, <1>3, IInvHolds, PTL DEF Spec
\* A deletion stays behind its write when the queue gets longer or loses its head.
LEMMA DeletionStaysLast ==
  ASSUME NEW s \in Seq(Mutations), NEW e \in Expenses
  PROVE  /\ \A m \in Mutations :
              m = Delete(e) \/ (m # Set(e) /\ DeletedLast(s, e)) => DeletedLast(Append(s, m), e)
         /\ s # <<>> /\ DeletedLast(s, e) => DeletedLast(Tail(s), e)
<1>1. ASSUME NEW m \in Mutations, m = Delete(e) \/ (m # Set(e) /\ DeletedLast(s, e))
      PROVE  DeletedLast(Append(s, m), e)
  <2> DEFINE n == Append(s, m)
  <2>1. /\ DOMAIN s = 1..Len(s) /\ DOMAIN n = 1..(Len(s) + 1) /\ Len(s) \in Nat
        /\ \A i \in 1..Len(s) : n[i] = s[i]
        /\ n[Len(s) + 1] = m
    OBVIOUS
  <2> HIDE DEF n
  <2>2. m # Set(e)
    BY <1>1, TasksDiffer
  <2> SUFFICES ASSUME NEW i \in DOMAIN n, n[i] = Set(e)
               PROVE  \E j \in DOMAIN n : j > i /\ n[j] = Delete(e)
    BY DEF DeletedLast, n
  <2>3. i \in 1..Len(s) /\ s[i] = Set(e)
    BY <2>1, <2>2
  <2>4. CASE m = Delete(e)
    <3>1. Len(s) + 1 \in DOMAIN n /\ Len(s) + 1 > i
      BY <2>1, <2>3
    <3> QED
      BY <2>1, <2>4, <3>1
  <2>5. CASE DeletedLast(s, e)
    <3>1. PICK j \in DOMAIN s : j > i /\ s[j] = Delete(e)
      BY <2>1, <2>3, <2>5 DEF DeletedLast
    <3> QED
      BY <2>1, <3>1
  <2> QED
    BY <1>1, <2>4, <2>5
<1>2. ASSUME s # <<>>, DeletedLast(s, e) PROVE DeletedLast(Tail(s), e)
  <2> DEFINE n == Tail(s)
  <2>1. /\ DOMAIN s = 1..Len(s) /\ DOMAIN n = 1..(Len(s) - 1) /\ Len(s) \in Nat \ {0}
        /\ \A i \in 1..(Len(s) - 1) : n[i] = s[i + 1]
    BY <1>2
  <2> HIDE DEF n
  <2> SUFFICES ASSUME NEW i \in DOMAIN n, n[i] = Set(e)
               PROVE  \E j \in DOMAIN n : j > i /\ n[j] = Delete(e)
    BY DEF DeletedLast, n
  <2>2. i + 1 \in DOMAIN s /\ s[i + 1] = Set(e)
    BY <2>1
  <2>3. PICK j \in DOMAIN s : j > i + 1 /\ s[j] = Delete(e)
    BY <1>2, <2>2 DEF DeletedLast
  <2>4. j - 1 \in DOMAIN n /\ j - 1 > i /\ n[j - 1] = s[j]
    BY <2>1, <2>3
  <2> QED
    BY <2>3, <2>4
<1> QED
  BY <1>1, <1>2

\* What a device is told to delete it has seen, so its write is no longer with a
\* worker and cannot queue up behind the deletion.
LEMMA ErasedIsPastItsWrite ==
  ASSUME BookInv, SeenIsReleased, NEW x \in Devices, NEW e \in erased[x], e \in Expenses,
         NEW m, In(worker[x], m)
  PROVE  m # Set(e)
<1>1. Released(e)
  BY DEF SeenIsReleased, Visible
<1>2. HandedAt(e) = {}
  BY <1>1 DEF BookInv, OneState, Released
<1> QED
  BY <1>2 DEF HandedAt, At

\* A deletion moves from the queue to the cache, unless it is refused.
LEMMA NextErasedIsCached ==
  ASSUME IInv, BookInv, SeenIsReleased, ErasedIsCached, [Next]_vars
  PROVE  ErasedIsCached'
<1> SUFFICES ASSUME NEW x \in Devices, NEW e \in erased'[x], Delete(e) \notin rejected'
             PROVE  /\ DeletedLast(pending'[x], e)
                    /\ \/ In(pending'[x], Delete(e))
                       \/ \E k \in DOMAIN log' :
                            log'[k] = Delete(e) /\ k <= cached'[x][e].version
  BY DEF ErasedIsCached, DeletionKnown
<1> DEFINE Cached == \E k \in DOMAIN log' : log'[k] = Delete(e) /\ k <= cached'[x][e].version
<1>0. TypeOK /\ AcksMatchQueue /\ TypeOK'
  BY NextIInv DEF IInv
<1>1. /\ e \in Expenses /\ pending[x] \in Seq(Mutations)
      /\ Set(e) \in Mutations /\ Delete(e) \in Mutations
  BY <1>0, QueueTypes DEF TypeOK
<1>2. Delete(e) \notin rejected
  BY <1>0, QueueSteps
<1>3. ASSUME NEW k \in DOMAIN log, log[k] = Delete(e), k <= cached[x][e].version
      PROVE  Cached
  <2>1. /\ cached'[x][e].version \in Nat /\ cached[x][e].version \in Nat
        /\ cached'[x][e].version >= cached[x][e].version
        /\ k \in DOMAIN log' /\ log'[k] = log[k]
    BY <1>1, CoverGrows
  <2>2. k \in Nat
    <3>1. log \in Seq(Mutations)
      BY <1>0 DEF TypeOK
    <3> QED
      BY <3>1
  <2> QED
    BY <1>3, <2>1, <2>2
<1>4. e \in erased[x] => /\ DeletedLast(pending[x], e)
                         /\ In(pending[x], Delete(e)) \/ Cached
  BY <1>2, <1>3 DEF ErasedIsCached, DeletionKnown
<1> HIDE DEF Cached
<1>5. CASE UNCHANGED <<pending[x], written[x], erased[x]>>
  BY <1>4, <1>5 DEF Cached
<1>6. ASSUME NEW m \in Mutations, In(worker[x], m), pending'[x] = Append(pending[x], m),
             erased'[x] = IF m.op = "delete" THEN erased[x] \cup {m.doc} ELSE erased[x]
      PROVE  DeletedLast(pending'[x], e) /\ (In(pending'[x], Delete(e)) \/ Cached)
  <2>1. In(pending'[x], Delete(e)) <=> In(pending[x], Delete(e)) \/ m = Delete(e)
    BY <1>1, <1>6, InAppend
  <2>2. CASE m = Delete(e)
    BY <1>1, <1>6, <2>1, <2>2, DeletionStaysLast
  <2>3. CASE m # Delete(e)
    <3>1. e \in erased[x]
      BY <1>6, <2>3, SetOrDelete
    <3>2. m # Set(e)
      BY <1>1, <1>6, <3>1, ErasedIsPastItsWrite
    <3> QED
      BY <1>1, <1>4, <1>6, <2>1, <3>1, <3>2, DeletionStaysLast
  <2> QED
    BY <2>2, <2>3
<1>7. ASSUME pending[x] # <<>>, pending'[x] = Tail(pending[x]), erased'[x] = erased[x],
             Acknowledge(x) \/ Head(pending[x]) \in rejected'
      PROVE  DeletedLast(pending'[x], e) /\ (In(pending'[x], Delete(e)) \/ Cached)
  <2>1. In(pending[x], Delete(e)) <=> Head(pending[x]) = Delete(e) \/ In(pending'[x], Delete(e))
    BY <1>1, <1>7, InTail
  <2>2. DeletedLast(pending'[x], e)
    BY <1>1, <1>4, <1>7, DeletionStaysLast
  <2>3. ASSUME Head(pending[x]) = Delete(e) PROVE Cached
    <3>1. Acknowledge(x) /\ Head(pending[x]).doc = e
      BY <1>7, <2>3, TasksDiffer
    <3>2. PICK k \in DOMAIN log : log[k] = Delete(e) /\ k <= cached'[x][e].version
      BY <1>1, <2>3, <3>1, AnswerIsCached
    <3>3. k \in DOMAIN log' /\ log'[k] = log[k]
      BY <1>1, CoverGrows
    <3> QED
      BY <3>2, <3>3 DEF Cached
  <2> QED
    BY <1>4, <1>7, <2>1, <2>2, <2>3
<1> QED
  BY <1>0, <1>5, <1>6, <1>7, QueueSteps DEF Cached

\* An expense a device has deleted does not come back to its list, not even when
\* a snapshot from before the deletion is still on its way, unless the deletion
\* is refused or another device's unanswered write is sent again.
THEOREM ErasedIsHidden == Spec => []ErasedStaysHidden
<1>1. Init => ErasedIsCached
  BY DEF Init, ErasedIsCached
<1>2. IInv /\ BookInv /\ SeenIsReleased /\ ErasedIsCached /\ [Next]_vars => ErasedIsCached'
  BY NextErasedIsCached
<1>3. IInv /\ ErasedIsCached => ErasedStaysHidden
  <2> SUFFICES ASSUME IInv, ErasedIsCached, NEW d \in Devices, NEW e \in erased[d],
                      e \in View(d), Delete(e) \notin rejected
               PROVE  SentAgain(e)
    BY DEF ErasedStaysHidden
  <2> DEFINE p == pending[d]
             v == cached[d][e].version
  <2>1. e \in Expenses /\ p \in Seq(Mutations) /\ log \in Seq(Mutations)
    BY DEF IInv, TypeOK
  <2>2. \/ \E i \in DOMAIN p : p[i] = Set(e) /\ \A j \in DOMAIN p : p[j].doc = e => j <= i
        \/ (\A j \in DOMAIN p : p[j].doc # e) /\ v \in DOMAIN log /\ log[v] = Set(e)
    BY <2>1, ViewSays
  <2>3. DeletedLast(p, e)
    BY DEF ErasedIsCached
  <2>4. In(p, Delete(e)) \/ \E k \in DOMAIN log : log[k] = Delete(e) /\ k <= v
    BY DEF ErasedIsCached, DeletionKnown
  <2> HIDE DEF p, v
  <2>5. Delete(e).doc = e /\ Set(e) # Delete(e)
    BY <2>1, TasksDiffer
  <2>6. ~\E i \in DOMAIN p : p[i] = Set(e) /\ \A j \in DOMAIN p : p[j].doc = e => j <= i
    <3> SUFFICES ASSUME NEW i \in DOMAIN p, p[i] = Set(e)
                 PROVE  \E j \in DOMAIN p : p[j].doc = e /\ ~(j <= i)
      OBVIOUS
    <3>1. PICK j \in DOMAIN p : j > i /\ p[j] = Delete(e)
      BY <2>3 DEF DeletedLast
    <3>2. i \in Nat /\ j \in Nat
      BY <2>1
    <3> QED
      BY <2>5, <3>1, <3>2
  <2>7. v \in DOMAIN log /\ log[v] = Set(e) /\ ~In(p, Delete(e))
    BY <2>2, <2>5, <2>6 DEF In
  <2>8. PICK k \in DOMAIN log : log[k] = Delete(e) /\ k <= v
    BY <2>4, <2>7
  <2>9. k < v
    <3>1. k # v
      BY <2>5, <2>7, <2>8
    <3>2. k \in Nat /\ v \in Nat
      BY <2>1, <2>7
    <3> QED
      BY <2>8, <3>1, <3>2
  <2> QED
    BY <2>7, <2>8, <2>9 DEF SentAgain
<1> QED
  BY <1>1, <1>2, <1>3, IInvHolds, BookInvHolds, SeenIsReleasedHolds, PTL DEF Spec
=============================================================================
