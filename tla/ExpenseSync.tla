---------------------------- MODULE ExpenseSync ----------------------------
(***************************************************************************)
(* The spendings of ONE signed-in user, seen from several devices.         *)
(*                                                                         *)
(* A device runs three serial queues that interleave freely:               *)
(*   - its main thread: the user's taps on Home and AddSpending, and the   *)
(*     blocks queued on DispatchQueue.main (`main`);                       *)
(*   - Firestore's worker queue (`worker`), where writes and listens are   *)
(*     applied to the persisted local store;                               *)
(*   - the streams to the backend, which may break, delay and resend.      *)
(*                                                                         *)
(* The backend is a log of committed mutations: the version of a document  *)
(* is the position of the last mutation on it.  An expense is its id; its  *)
(* name, ammount and createdAt never change, so the rows of the table are  *)
(* a function of the set of expenses and are not ordered here.             *)
(*                                                                         *)
(* An operator named X_Y, before an operator X, is X with a plausible bug: *)
(* each of them makes TLC find a property violated.                        *)
(***************************************************************************)
EXTENDS Integers, Sequences, FiniteSets, FiniteSetsExt

CONSTANTS Devices,       \* the devices signed in to the account
          Expenses,      \* the ids UUID() may hand out
          Ammount,       \* the ammount typed for each of them
          Refused,       \* the mutations the backend's rules refuse
          MaxDeletes,    \* bound: swipes to delete
          MaxBreaks,     \* bound: write streams broken with writes in flight
          MaxOutages,    \* bound: times a watch stream is given up
          MaxKills,      \* bound: times iOS kills the app
          MaxListeners   \* bound: collection listeners added by one process

Set(e)    == [op |-> "set",    doc |-> e]
Delete(e) == [op |-> "delete", doc |-> e]
Mutations == [op : {"set", "delete"}, doc : Expenses]

ASSUME ExpenseSyncAssumption ==
  /\ Ammount \in [Expenses -> Int]
  /\ Refused \subseteq Mutations
  /\ {MaxDeletes, MaxBreaks, MaxOutages, MaxKills, MaxListeners} \subseteq Nat

VARIABLES
  log,             \* the mutations the backend has committed, in order
  phase,           \* per device: "dead", "launched" or "home" (Home is loaded)
  worker,          \* Firestore's worker queue: tasks not run yet
  pending,         \* the persisted mutation queue
  acks,            \* versions the open write stream has committed, unread
  cached,          \* the persisted remote document cache
  seen,            \* version of the last watch snapshot applied
  link,            \* what the watch stream has shown so far
  listeners,       \* the listeners of the expenses query
  main,            \* blocks queued on the main thread
  expenses, totalExpenses,   \* ExpenseRepository
  budgetLabel,     \* the label on Home
  accepted,        \* expenses whose add was reported as a success
  lost,            \* of those, the ones a kill took out of a worker queue
  rejected,        \* mutations refused by the backend
  written, erased, \* expenses a device's local store was told to set / delete
  deletes, breaks, outages, kills   \* how much of the bounds is used up

backend == <<log, rejected>>
store   == <<pending, cached, seen>>
screen  == <<expenses, totalExpenses, budgetLabel>>
history == <<accepted, lost, written, erased>>
budgets == <<deletes, breaks, outages, kills>>
vars    == <<backend, phase, worker, store, acks, link, listeners, main,
             screen, history, budgets>>

Listen  == [op |-> "listen", doc |-> {}]
Load    == [kind |-> "load", docs |-> {}]
Snapshot(S) == [kind |-> "snapshot", docs |-> S]

\* `reduce(0)` over data["ammount"] in ExpenseRepository.startObservingExpenses.
Total(S) == MapThenSumSet(LAMBDA e : Ammount[e], S)
Totals   == {0} \cup {Total(S) : S \in SUBSET Expenses}

\* The text Main.storyboard gives the label before any code has run.
Placeholder == 150

-----------------------------------------------------------------------------
(* Documents.                                                              *)

\* Position of the last mutation on e among the first v of s; 0 when none.
LastOn(s, v, e) == Max({0} \cup {i \in 1..v : s[i].doc = e})

\* What the backend held of e at version v.
DocAt(s, v, e) ==
  LET i == LastOn(s, v, e) IN [there |-> i > 0 /\ s[i].op = "set", version |-> i]

Stored == {e \in Expenses : DocAt(log, Len(log), e).there}

\* The local view: pending mutations laid over the cache, the last one winning.
Overlay(c, p) ==
  {e \in Expenses : LET i == LastOn(p, Len(p), e)
                    IN IF i > 0 THEN p[i].op = "set" ELSE c[e].there}

View(d) == Overlay(cached[d], pending[d])

-----------------------------------------------------------------------------
(* Listeners.  `waiting` have had no event yet: QueryListener holds the    *)
(* first one back until the query is synced, non-empty or offline.         *)

Ready(S, l) == S # {} \/ l # "waiting"

\* Old listeners hear of S when the view changed, new ones when S is a first event.
Heard_Connected(d, old, S, l) == IF S # old /\ l = "current" THEN listeners[d].live ELSE 0
Heard(d, old, S, l) == IF S # old THEN listeners[d].live ELSE 0

First_All(d, S, l) == IF Ready(S, l) THEN listeners[d].waiting + listeners[d].live ELSE 0
First(d, S, l) == IF Ready(S, l) THEN listeners[d].waiting ELSE 0

\* One block per listener with something to hear, old being the view before
\* this step and l the state of the link after it.
Raise(d, old, S, l) ==
  LET first == First(d, S, l)
  IN /\ main' = [main EXCEPT ![d] =
                   @ \o [i \in 1..(Heard(d, old, S, l) + first) |-> Snapshot(S)]]
     /\ listeners' = [listeners EXCEPT ![d] =
                        [live |-> @.live + first, waiting |-> @.waiting - first]]

Listening(d) == listeners[d].live + listeners[d].waiting > 0

\* Listeners added so far, the ones still on their way to the worker included.
Observers(d) == listeners[d].live + listeners[d].waiting
                  + Cardinality({i \in DOMAIN worker[d] : worker[d][i] = Listen})

-----------------------------------------------------------------------------
Init ==
  /\ log = <<>> /\ rejected = {}
  /\ phase = [d \in Devices |-> "dead"]
  /\ worker = [d \in Devices |-> <<>>]
  /\ pending = [d \in Devices |-> <<>>]
  /\ acks = [d \in Devices |-> <<>>]
  /\ cached = [d \in Devices |-> [e \in Expenses |-> [there |-> FALSE, version |-> 0]]]
  /\ seen = [d \in Devices |-> 0]
  /\ link = [d \in Devices |-> "waiting"]
  /\ listeners = [d \in Devices |-> [live |-> 0, waiting |-> 0]]
  /\ main = [d \in Devices |-> <<>>]
  /\ expenses = [d \in Devices |-> {}]
  /\ totalExpenses = [d \in Devices |-> 0]
  /\ budgetLabel = [d \in Devices |-> Placeholder]
  /\ accepted = {} /\ lost = {}
  /\ written = [d \in Devices |-> {}]
  /\ erased = [d \in Devices |-> {}]
  /\ deletes = 0 /\ breaks = 0 /\ outages = 0 /\ kills = 0

-----------------------------------------------------------------------------
(* The main thread.                                                        *)

Enqueue(d, task) == worker' = [worker EXCEPT ![d] = Append(@, task)]

\* AppDelegate: ExpenseRepository.init starts to observe the signed-in user.
Launch(d) ==
  /\ phase[d] = "dead"
  /\ phase' = [phase EXCEPT ![d] = "launched"]
  /\ Enqueue(d, Listen)
  /\ UNCHANGED <<backend, store, acks, link, listeners, main, screen, history, budgets>>

FirstLoads_None == <<>>
FirstLoads == <<Load, Load>>

\* viewDidLoad and the first viewWillAppear: loadData twice, one more listener.
HomeAppears(d) ==
  /\ phase[d] = "launched"
  /\ phase' = [phase EXCEPT ![d] = "home"]
  /\ Enqueue(d, Listen)
  /\ main' = [main EXCEPT ![d] = @ \o FirstLoads]
  /\ UNCHANGED <<backend, store, acks, link, listeners, screen, history, budgets>>

\* viewWillAppear again, when a full-screen controller leaves Home.
HomeReappears(d) ==
  /\ phase[d] = "home"
  /\ Observers(d) < MaxListeners
  /\ Enqueue(d, Listen)
  /\ main' = [main EXCEPT ![d] = Append(@, Load)]
  /\ UNCHANGED <<backend, phase, store, acks, link, listeners, screen, history, budgets>>

\* Expense.init draws the id from UUID().
Fresh_Reused(e) == TRUE
Fresh(e) == e \notin accepted

\* addButtonPressed with both fields filled: the write is handed to the
\* worker and success is reported at once.
AddExpense(d, e) ==
  /\ phase[d] = "home"
  /\ Fresh(e)
  /\ Enqueue(d, Set(e))
  /\ accepted' = accepted \cup {e}
  /\ UNCHANGED <<backend, phase, store, acks, link, listeners, main, screen,
                 lost, written, erased, budgets>>

\* Swipe to delete a row of the table, which shows `expenses`.
DeleteExpense(d, e) ==
  /\ phase[d] = "home"
  /\ e \in expenses[d]
  /\ deletes < MaxDeletes
  /\ deletes' = deletes + 1
  /\ Enqueue(d, Delete(e))
  /\ UNCHANGED <<backend, phase, store, acks, link, listeners, main, screen,
                 history, breaks, outages, kills>>

\* The transform of startObservingExpenses.  Its two didSets post to Home,
\* which redraws label and table, once Home has registered for them.
DeliverSnapshot(d) ==
  /\ main[d] # <<>> /\ Head(main[d]).kind = "snapshot"
  /\ LET S == Head(main[d]).docs IN
       /\ expenses' = [expenses EXCEPT ![d] = S]
       /\ totalExpenses' = [totalExpenses EXCEPT ![d] = Total(S)]
       /\ budgetLabel' = [budgetLabel EXCEPT ![d] =
                            IF phase[d] = "home" THEN Total(S) ELSE @]
  /\ main' = [main EXCEPT ![d] = Tail(@)]
  /\ UNCHANGED <<backend, phase, worker, store, acks, link, listeners, history, budgets>>

\* The block of loadData, for a user whose name is known.
DeliverLoad(d) ==
  /\ main[d] # <<>> /\ Head(main[d]).kind = "load"
  /\ budgetLabel' = [budgetLabel EXCEPT ![d] = totalExpenses[d]]
  /\ main' = [main EXCEPT ![d] = Tail(@)]
  /\ UNCHANGED <<backend, phase, worker, store, acks, link, listeners, expenses,
                 totalExpenses, history, budgets>>

\* The process dies: queues, streams and memory go, the local store stays.
Kill(d) ==
  /\ phase[d] # "dead"
  /\ kills < MaxKills
  /\ kills' = kills + 1
  /\ phase' = [phase EXCEPT ![d] = "dead"]
  /\ lost' = lost \cup {e \in Expenses : \E i \in DOMAIN worker[d] : worker[d][i] = Set(e)}
  /\ worker' = [worker EXCEPT ![d] = <<>>]
  /\ acks' = [acks EXCEPT ![d] = <<>>]
  /\ link' = [link EXCEPT ![d] = "waiting"]
  /\ listeners' = [listeners EXCEPT ![d] = [live |-> 0, waiting |-> 0]]
  /\ main' = [main EXCEPT ![d] = <<>>]
  /\ expenses' = [expenses EXCEPT ![d] = {}]
  /\ totalExpenses' = [totalExpenses EXCEPT ![d] = 0]
  /\ budgetLabel' = [budgetLabel EXCEPT ![d] = Placeholder]
  /\ UNCHANGED <<backend, store, accepted, written, erased, deletes, breaks, outages>>

-----------------------------------------------------------------------------
(* Firestore's worker queue.                                               *)

\* EventManager.AddQueryListener: the newcomer hears of the view as it is.
RunListen(d) ==
  /\ worker[d] # <<>> /\ Head(worker[d]) = Listen
  /\ worker' = [worker EXCEPT ![d] = Tail(@)]
  /\ LET now == Ready(View(d), link[d]) IN
       /\ listeners' = IF now THEN [listeners EXCEPT ![d].live = @ + 1]
                               ELSE [listeners EXCEPT ![d].waiting = @ + 1]
       /\ main' = [main EXCEPT ![d] = IF now THEN Append(@, Snapshot(View(d))) ELSE @]
  /\ UNCHANGED <<backend, phase, store, acks, link, screen, history, budgets>>

Persist_Coalesced(p, m) == Append(SelectSeq(p, LAMBDA x : x.doc # m.doc), m)
Persist(p, m) == Append(p, m)

\* SyncEngine.WriteMutations: the mutation is persisted and shown at once.
RunWrite(d) ==
  /\ worker[d] # <<>> /\ Head(worker[d]) # Listen
  /\ LET m == Head(worker[d]) IN
       /\ pending' = [pending EXCEPT ![d] = Persist(@, m)]
       /\ written' = IF m.op = "set"
                       THEN [written EXCEPT ![d] = @ \cup {m.doc}] ELSE written
       /\ erased' = IF m.op = "delete"
                       THEN [erased EXCEPT ![d] = @ \cup {m.doc}] ELSE erased
       /\ Raise(d, View(d), Overlay(cached[d], Persist(pending[d], m)), link[d])
  /\ worker' = [worker EXCEPT ![d] = Tail(@)]
  /\ UNCHANGED <<backend, phase, cached, seen, acks, link, screen, accepted, lost, budgets>>

-----------------------------------------------------------------------------
(* The write stream: mutations are committed and answered in queue order.  *)

NextToSend_Head(d) == 1
NextToSend(d) == Len(acks[d]) + 1

Commit(d) ==
  /\ phase[d] # "dead"
  /\ NextToSend(d) <= Len(pending[d])
  /\ pending[d][NextToSend(d)] \notin Refused
  /\ log' = Append(log, pending[d][NextToSend(d)])
  /\ acks' = [acks EXCEPT ![d] = Append(@, Len(log) + 1)]
  /\ UNCHANGED <<rejected, phase, worker, store, link, listeners, main, screen,
                 history, budgets>>

\* An older version of a document never replaces a newer one.
Newer_Always(c, e, v) == TRUE
Newer(c, e, v) == c[e].version < v

\* The cache once the backend has committed m at version v.
Acked_Forgotten(c, m, v) == c
Acked(c, m, v) == IF Newer(c, m.doc, v)
                    THEN [c EXCEPT ![m.doc] = [there |-> m.op = "set", version |-> v]]
                    ELSE c

\* SyncEngine.HandleSuccessfulWrite.
Acknowledge(d) ==
  /\ acks[d] # <<>>
  /\ LET c == Acked(cached[d], Head(pending[d]), Head(acks[d]))
     IN /\ cached' = [cached EXCEPT ![d] = c]
        /\ Raise(d, View(d), Overlay(c, Tail(pending[d])), link[d])
  /\ pending' = [pending EXCEPT ![d] = Tail(@)]
  /\ acks' = [acks EXCEPT ![d] = Tail(@)]
  /\ UNCHANGED <<backend, phase, worker, seen, link, screen, history, budgets>>

\* Datastore::IsPermanentWriteError.
Permanent_Never(m) == FALSE
Permanent(m) == m \in Refused

\* SyncEngine.HandleRejectedWrite: the mutation is dropped and undone locally.
Reject(d) ==
  /\ phase[d] # "dead"
  /\ acks[d] = <<>> /\ pending[d] # <<>>
  /\ Permanent(Head(pending[d]))
  /\ rejected' = rejected \cup {Head(pending[d])}
  /\ Raise(d, View(d), Overlay(cached[d], Tail(pending[d])), link[d])
  /\ pending' = [pending EXCEPT ![d] = Tail(@)]
  /\ UNCHANGED <<log, phase, worker, cached, seen, acks, link, screen, history, budgets>>

\* The stream closes with answers unread: the queue is sent again from its head.
BreakWriteStream(d) ==
  /\ acks[d] # <<>>
  /\ breaks < MaxBreaks
  /\ breaks' = breaks + 1
  /\ acks' = [acks EXCEPT ![d] = <<>>]
  /\ UNCHANGED <<backend, phase, worker, store, link, listeners, main, screen,
                 history, deletes, outages, kills>>

-----------------------------------------------------------------------------
(* The watch stream.                                                       *)

\* A consistent snapshot of the collection at version v: the documents that
\* changed since the last one, except where the cache already knows better.
Watch(d, v) ==
  /\ Listening(d)
  /\ v > seen[d] \/ link[d] # "current"
  /\ LET c == [e \in Expenses |->
                 LET new == DocAt(log, v, e) IN
                 IF new.version > seen[d] /\ Newer(cached[d], e, new.version)
                   THEN new ELSE cached[d][e]]
     IN /\ cached' = [cached EXCEPT ![d] = c]
        /\ Raise(d, View(d), Overlay(c, pending[d]), "current")
  /\ seen' = [seen EXCEPT ![d] = v]
  /\ link' = [link EXCEPT ![d] = "current"]
  /\ UNCHANGED <<backend, phase, worker, pending, acks, screen, history, budgets>>

\* OnlineStateTracker gives up on the watch stream.
GoOffline(d) ==
  /\ Listening(d)
  /\ link[d] # "offline"
  /\ outages < MaxOutages
  /\ outages' = outages + 1
  /\ link' = [link EXCEPT ![d] = "offline"]
  /\ Raise(d, View(d), View(d), "offline")
  /\ UNCHANGED <<backend, phase, worker, store, acks, screen, history,
                 deletes, breaks, kills>>

\* The first message of a stream that came back, before its first snapshot.
Reconnect(d) ==
  /\ link[d] = "offline"
  /\ link' = [link EXCEPT ![d] = "waiting"]
  /\ UNCHANGED <<backend, phase, worker, store, acks, listeners, main, screen,
                 history, budgets>>

-----------------------------------------------------------------------------
User(d) == \/ HomeReappears(d)
           \/ \E e \in Expenses : AddExpense(d, e) \/ DeleteExpense(d, e)

MainThread(d) == Launch(d) \/ HomeAppears(d) \/ DeliverSnapshot(d) \/ DeliverLoad(d)
Worker(d)     == RunListen(d) \/ RunWrite(d)
WriteStream(d) == Commit(d) \/ Acknowledge(d) \/ Reject(d)
WatchStream(d) == \E v \in seen[d]..Len(log) : Watch(d, v)
CatchUp(d)     == \E v \in (seen[d] + 1)..Len(log) : Watch(d, v)
Failure(d)    == BreakWriteStream(d) \/ GoOffline(d) \/ Reconnect(d) \/ Kill(d)

Next == \E d \in Devices :
          \/ User(d) \/ MainThread(d) \/ Worker(d)
          \/ WriteStream(d) \/ WatchStream(d) \/ Failure(d)

\* Serial dispatch queues run their blocks, streams are retried with backoff
\* until the network lets them through, and the app is opened again.
Fairness == \A d \in Devices :
              /\ WF_vars(MainThread(d)) /\ WF_vars(Worker(d))
              /\ WF_vars(WriteStream(d)) /\ WF_vars(WatchStream(d)) /\ WF_vars(CatchUp(d))

Spec     == Init /\ [][Next]_vars
FairSpec == Spec /\ Fairness

-----------------------------------------------------------------------------
(* What is wrong with none of this.                                        *)

Events  == [kind : {"snapshot"}, docs : SUBSET Expenses] \cup {Load}
Tasks   == Mutations \cup {Listen}

\* Every variable keeps the shape the code gives it.
TypeOK ==
  /\ log \in Seq(Mutations) /\ rejected \subseteq Mutations
  /\ phase \in [Devices -> {"dead", "launched", "home"}]
  /\ worker \in [Devices -> Seq(Tasks)]
  /\ pending \in [Devices -> Seq(Mutations)]
  /\ acks \in [Devices -> Seq(Nat)]
  /\ cached \in [Devices -> [Expenses -> [there : BOOLEAN, version : Nat]]]
  /\ seen \in [Devices -> Nat]
  /\ link \in [Devices -> {"waiting", "current", "offline"}]
  /\ listeners \in [Devices -> [live : Nat, waiting : Nat]]
  /\ main \in [Devices -> Seq(Events)]
  /\ expenses \in [Devices -> SUBSET Expenses]
  /\ totalExpenses \in [Devices -> Totals]
  /\ budgetLabel \in [Devices -> Totals \cup {Placeholder}]
  /\ accepted \subseteq Expenses /\ lost \subseteq Expenses
  /\ written \in [Devices -> SUBSET Expenses]
  /\ erased \in [Devices -> SUBSET Expenses]
  /\ {deletes, breaks, outages, kills} \subseteq Nat

\* The label on Home is the sum of the rows under it, unless a block that
\* redraws it is still queued: no order of launch, registration for the two
\* notifications, first snapshot and loadData leaves a stale or a placeholder
\* total on screen.
LabelIsTotal ==
  \A d \in Devices : phase[d] = "home" =>
    \/ budgetLabel[d] = Total(expenses[d])
    \/ \E i \in DOMAIN main[d] : main[d][i] = Load

\* The answers the open write stream owes are about the head of the queue, in
\* order: the k-th unread version is where the k-th pending mutation was committed.
AcksMatchQueue ==
  \A d \in Devices :
    /\ Len(acks[d]) <= Len(pending[d])
    /\ \A k \in DOMAIN acks[d] :
         acks[d][k] \in DOMAIN log /\ log[acks[d][k]] = pending[d][k]

\* Whatever the order in which answers to writes and watch snapshots arrive, a
\* cached document is what the backend held at the version it is cached with,
\* and no older than the last snapshot applied.
CacheCoherent ==
  \A d \in Devices : \A e \in Expenses :
    /\ cached[d][e] = DocAt(log, cached[d][e].version, e)
    /\ cached[d][e].version \in LastOn(log, seen[d], e)..Len(log)

\* A cached document never goes back to an older version.
CacheNeverGoesBack ==
  [][\A d \in Devices : \A e \in Expenses :
        cached'[d][e].version >= cached[d][e].version]_vars

LastSnapshot(d) ==
  LET I == {i \in DOMAIN main[d] : main[d][i].kind = "snapshot"}
  IN IF I = {} THEN expenses[d] ELSE main[d][Max(I)].docs

\* Once the blocks queued on the main thread have run, the list on screen is
\* the local view of this moment: no listener misses a change and none, however
\* many were added by viewWillAppear, delivers an older list after a newer one.
ScreenWillShowView ==
  \A d \in Devices : Listening(d) => LastSnapshot(d) = View(d)

DeletedSomewhere(d, e) ==
  \E s \in {log, pending[d]} : \E i \in DOMAIN s : s[i] = Delete(e)

\* An expense a device has written stays in its list from that moment on, while
\* the write is queued, sent, answered and echoed by the watch stream, unless
\* somebody deletes it or the backend refuses it.
WrittenStaysShown ==
  \A d \in Devices : \A e \in written[d] :
    e \in View(d) \/ Set(e) \in rejected \/ DeletedSomewhere(d, e)

\* The backend holds a Set(e) it committed after a Delete(e).
SentAgain(e) == \E i, j \in DOMAIN log : i < j /\ log[i] = Delete(e) /\ log[j] = Set(e)

\* An expense a device has deleted does not come back to its list, not even
\* when a snapshot from before the deletion is still on its way, unless the
\* deletion is refused or another device's unanswered write is sent again.
ErasedStaysHidden ==
  \A d \in Devices : \A e \in erased[d] :
    e \notin View(d) \/ Delete(e) \in rejected \/ SentAgain(e)

\* Nothing reported as a success disappears silently: it is on its way, at the
\* backend, refused by it, or was in a worker queue when the app was killed.
AcceptedIsAccountedFor ==
  \A e \in accepted :
    \/ e \in lost \/ Set(e) \in rejected
    \/ \E i \in DOMAIN log : log[i] = Set(e)
    \/ \E d \in Devices : \/ \E i \in DOMAIN worker[d]  : worker[d][i]  = Set(e)
                         \/ \E i \in DOMAIN pending[d] : pending[d][i] = Set(e)

\* With every failure bounded, all devices settle on the backend's expenses and
\* every label on their sum.
Converges ==
  <>[](\A d \in Devices : /\ expenses[d] = Stored
                           /\ budgetLabel[d] = Total(Stored)
                           /\ pending[d] = <<>>)
=============================================================================
