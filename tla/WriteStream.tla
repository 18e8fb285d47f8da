----------------------------- MODULE WriteStream -----------------------------
(***************************************************************************)
(* Firestore's write stream on one device whose user changes.  Auth        *)
(* changes its user on its own queue and tells the main thread; the        *)
(* credentials provider tells Firestore's worker queue; a stream that      *)
(* starts asks Auth for a token and hears of it over the same two queues.  *)
(* Meanwhile writes are put into the mutation queue of the user the worker *)
(* knows of, and go out over whatever call the stream has open.            *)
(***************************************************************************)
EXTENDS Integers, Sequences, FiniteSets, FiniteSetsExt, SequencesExt

CONSTANTS Users, None,   \* the accounts; nobody
          Refusable,     \* ids of the batches the backend may refuse even to their user
          MaxPending,    \* kMaxPendingWrites
          MaxWrites, MaxChanges, MaxFailures   \* bounds

ASSUME WriteStreamAssumption ==
  /\ None \notin Users
  /\ Refusable \subseteq Nat
  /\ MaxPending \in Nat \ {0}
  /\ {MaxWrites, MaxChanges, MaxFailures} \subseteq Nat

VARIABLES
  auth,      \* FIRAuth's _currentUser
  fetches,   \* token requests Auth has not answered
  main,      \* what Auth has queued on the main thread
  provider,  \* FirebaseCredentialsProvider: current_user, token_counter
  running,   \* the process
  worker,    \* tasks of Firestore's AsyncQueue
  user,      \* SyncEngine's current_user_
  queues,    \* the mutation queue of each user, in LevelDB
  remote,    \* the stream and the pipeline: see Stopped below
  late,      \* requests of calls the client has closed that may still arrive
  log,       \* the backend: what it committed, and in whose name
  refusals,  \* what it refused
  written,   \* history: every batch that was put into a queue
  changes, failures

client  == <<provider, running, worker, user, queues, remote>>
backend == <<log, refusals>>
budgets == <<changes, failures>>
vars    == <<auth, fetches, main, client, late, backend, written, budgets>>

Anyone == Users \cup {None}

Batch == [user : Anyone, id : Nat]

\* The first request on a call.  It holds no mutation.
Handshake == [user |-> None, id |-> 0]

\* A request for a token: when it was made, and whose token it got.
Unread == "unread"
Fetch(closes, counter) == [closes |-> closes, counter |-> counter, of |-> Unread]

Notify(u)   == [kind |-> "notify", user |-> u, closes |-> 0, counter |-> 0]
Answer(f)   == [kind |-> "token", user |-> f.of, closes |-> f.closes, counter |-> f.counter]
Failure(f)  == [Answer(f) EXCEPT !.kind = "error"]

Change(u)   == [kind |-> "change", user |-> u, closes |-> 0]
Resume(b)   == [kind |-> b.kind, user |-> b.user, closes |-> b.closes]
WriteTask   == [kind |-> "write", user |-> None, closes |-> 0]

-----------------------------------------------------------------------------
(* The stream.  Operators take and return the state of the remote store, so *)
(* that a handler is the composition of the calls it makes.                *)

NoCall == [token |-> None, sent |-> <<>>, replies |-> <<>>, ended |-> FALSE]

\* `closes` is close_count_, `idle` says that idleness_timer_ is set, `asks`
\* that RequestCredentials was called in this step.
Stopped == [state |-> "initial", closes |-> 0, handshake |-> FALSE, idle |-> FALSE,
            call |-> NoCall, pipeline |-> <<>>, asks |-> FALSE]

IsStarted(r) == r.state \in {"starting", "backoff", "open"}

\* Stream::Start
Start(r) == IF r.state = "error" THEN [r EXCEPT !.state = "backoff"]
                                 ELSE [r EXCEPT !.state = "starting", !.asks = TRUE]

\* ShouldStartWriteStream, StartWriteStream
StartIfNeeded(r) == IF ~IsStarted(r) /\ r.pipeline # <<>> THEN Start(r) ELSE r

\* Stream::Write, which cancels the idle timer
Send(r, ms) == IF ms = <<>> THEN r ELSE [r EXCEPT !.idle = FALSE, !.call.sent = @ \o ms]

\* The batches of queue q that are newer than the last one of the pipeline p, as
\* many as there is room for.  (Queues are in the order of ids.)
Following(p, q) ==
  LET known == IF p = <<>> THEN 0 ELSE Cardinality({k \in DOMAIN q : q[k].id <= Last(p).id})
      room  == MaxPending - Len(p)
  IN SubSeq(q, known + 1, Min({Len(q), known + room}))

\* FillWritePipeline, for the queue q: what is added is sent if the stream is
\* ready, an open stream with nothing to send is marked idle, and a stream that
\* is needed is started.
Fill(r, q) ==
  LET more == Following(r.pipeline, q)
      full == [r EXCEPT !.pipeline = @ \o more]
  IN StartIfNeeded(
       IF r.state = "open" /\ r.handshake THEN
         IF full.pipeline = <<>> THEN [full EXCEPT !.idle = TRUE] ELSE Send(full, more)
       ELSE [full EXCEPT !.idle = @ \/ (r.state = "open" /\ full.pipeline = <<>>)])

\* Stream::Close
Closed(r, to) == [r EXCEPT !.state = to, !.closes = @ + 1, !.idle = FALSE, !.call = NoCall]

\* NotifyStreamClose resets the handshake only after its callback has run.
AfterClose_Kept(r) == r
AfterClose(r) == [r EXCEPT !.handshake = FALSE]

\* OnStreamFinish with a transient error: the pipeline stays and the stream is
\* started again, from its error state, if it holds anything.
Broken(r) == AfterClose(StartIfNeeded(Closed(r, "error")))

\* The same with a permanent one: HandleWriteError takes the first write for
\* its cause, drops it, inhibits backoff and fills up from the queue q.
Rejected(r, q) ==
  AfterClose(Fill([Closed(r, "initial") EXCEPT !.pipeline = Tail(@)], q))

\* Stop() on a stream that is not needed any more.
Gracefully(r) == IF IsStarted(r) THEN AfterClose(Closed(r, "initial")) ELSE r

\* RestartNetwork: DisableNetworkInternal stops the stream and empties the
\* pipeline, InhibitBackoff clears an error, EnableNetwork fills up again.
Restart_KeepsPipeline(r, q) == Fill([Gracefully(r) EXCEPT !.state = "initial"], q)
Restart(r, q) == Fill([Gracefully(r) EXCEPT !.pipeline = <<>>, !.state = "initial"], q)

\* The remote store becomes r, and Auth is asked for a token if r says so.
Becomes(r) ==
  /\ remote' = [r EXCEPT !.asks = FALSE]
  /\ fetches' = IF r.asks THEN fetches \cup {Fetch(r.closes, provider.counter)} ELSE fetches

\* Requests on a call the client has closed may have left the device.
Leaves(r) == late' = IF r.call.sent = <<>> \/ r.call.ended \/ ~r.handshake THEN late
                       ELSE late \cup {[token |-> r.call.token, sent |-> r.call.sent]}

-----------------------------------------------------------------------------
Init ==
  /\ auth \in Anyone /\ fetches = {} /\ main = <<>>
  /\ provider = [user |-> None, counter |-> 0]
  /\ running = FALSE /\ worker = <<>> /\ user = None
  /\ queues = [u \in Anyone |-> <<>>]
  /\ remote = Stopped /\ late = {}
  /\ log = <<>> /\ refusals = {} /\ written = {}
  /\ changes = 0 /\ failures = 0

\* clearPersistence, which ServiceProvider calls on every launch, succeeds if no
\* client is running yet, that is, if nobody is signed in.
Cleared_Always == [u \in Anyone |-> <<>>]
Cleared == IF auth = None THEN [u \in Anyone |-> <<>>] ELSE queues

\* The launch: the provider starts with Auth's user, whom Auth announces too,
\* and the remote store with that user's queue.
Launch ==
  /\ ~running
  /\ running' = TRUE
  /\ provider' = [user |-> auth, counter |-> 0]
  /\ user' = auth
  /\ queues' = Cleared
  /\ main' = IF auth = None THEN <<>> ELSE <<Notify(auth)>>
  /\ LET r == Fill(Stopped, Cleared[auth]) IN
       /\ remote' = [r EXCEPT !.asks = FALSE]
       /\ fetches' = IF r.asks THEN {Fetch(0, 0)} ELSE {}
  /\ UNCHANGED <<auth, worker, late, backend, written, budgets>>

\* The process dies; Auth's user and the queues are on disk.
Kill ==
  /\ running /\ failures < MaxFailures
  /\ failures' = failures + 1
  /\ running' = FALSE
  /\ fetches' = {} /\ main' = <<>> /\ worker' = <<>>
  /\ provider' = [user |-> None, counter |-> 0] /\ user' = None
  /\ Leaves(remote)
  /\ remote' = Stopped
  /\ UNCHANGED <<auth, queues, backend, written, changes>>

-----------------------------------------------------------------------------
(* Auth.                                                                   *)

\* Sign-in, sign-out, or a new token for the same user: _currentUser changes
\* now, the notification is queued.
AuthChanges(u) ==
  /\ running /\ changes < MaxChanges
  /\ u # None \/ auth # None
  /\ changes' = changes + 1
  /\ auth' = u
  /\ main' = Append(main, Notify(u))
  /\ UNCHANGED <<fetches, client, late, backend, written, failures>>

\* getTokenForcingRefresh, on Auth's queue, which reads whose token it is going to
\* be; nobody's is answered at once.
Read_Late(f) == f
Read(f) == [f EXCEPT !.of = auth]

AuthReads(f) ==
  /\ f \in fetches /\ f.of = Unread
  /\ IF auth = None
       THEN fetches' = fetches \ {f} /\ main' = Append(main, Answer(Read(f)))
       ELSE /\ fetches' = (fetches \ {f}) \cup {Read(f)}
            /\ UNCHANGED main
  /\ UNCHANGED <<auth, client, late, backend, written, budgets>>

\* The token of the user it was read for, from memory or from the network.
AuthAnswers(f) ==
  /\ f \in fetches /\ f.of # Unread
  /\ fetches' = fetches \ {f}
  /\ main' = Append(main, Answer(f))
  /\ UNCHANGED <<auth, client, late, backend, written, budgets>>

AuthFails(f) ==
  /\ f \in fetches /\ f.of # Unread
  /\ failures < MaxFailures
  /\ failures' = failures + 1
  /\ fetches' = fetches \ {f}
  /\ main' = Append(main, Failure(f))
  /\ UNCHANGED <<auth, client, late, backend, written, changes>>

-----------------------------------------------------------------------------
(* The main thread.                                                        *)

\* The provider's observer of the notification.
DeliverNotify ==
  /\ main # <<>> /\ Head(main).kind = "notify"
  /\ provider' = [user |-> Head(main).user, counter |-> provider.counter + 1]
  /\ worker' = Append(worker, Change(Head(main).user))
  /\ main' = Tail(main)
  /\ UNCHANGED <<auth, fetches, running, user, queues, remote, late, backend, written, budgets>>

\* The callback of GetToken: an answer from before a change of user is for
\* nobody in particular, so it is asked again; any other goes to the worker.
Outdated(b) == b.counter # provider.counter

Again_Never(b) == fetches
Again(b) == fetches \cup {Fetch(b.closes, provider.counter)}

DeliverToken ==
  /\ main # <<>> /\ Head(main).kind \in {"token", "error"}
  /\ LET b == Head(main) IN
       IF Outdated(b)
         THEN fetches' = Again(b) /\ UNCHANGED worker
         ELSE worker' = Append(worker, Resume(b)) /\ UNCHANGED fetches
  /\ main' = Tail(main)
  /\ UNCHANGED <<auth, provider, running, user, queues, remote, late, backend, written, budgets>>

\* The app writes: FirestoreClient::WriteMutations.
Pending(kind) == Cardinality({k \in DOMAIN worker : worker[k].kind = kind})

AppWrites ==
  /\ running
  /\ Cardinality(written) + Pending("write") < MaxWrites
  /\ worker' = Append(worker, WriteTask)
  /\ UNCHANGED <<auth, fetches, main, provider, running, user, queues, remote, late,
                 backend, written, budgets>>

-----------------------------------------------------------------------------
(* Firestore's worker queue.                                               *)

Task(kinds) == worker # <<>> /\ Head(worker).kind \in kinds /\ worker' = Tail(worker)

\* SyncEngine::WriteMutations: a batch of whoever the worker thinks is there.
RunWrite ==
  /\ Task({"write"})
  /\ LET b == [user |-> user, id |-> Cardinality(written) + 1]
         q == Append(queues[user], b)
     IN /\ written' = written \cup {b}
        /\ queues' = [queues EXCEPT ![user] = q]
        /\ Becomes(Fill(remote, q))
  /\ UNCHANGED <<auth, main, provider, running, user, late, backend, budgets>>

\* SyncEngine::HandleCredentialChange: another user's queue, and a new stream.
RunChange ==
  /\ Task({"change"})
  /\ user' = Head(worker).user
  /\ Leaves(remote)
  /\ Becomes(Restart(remote, queues[Head(worker).user]))
  /\ UNCHANGED <<auth, main, provider, running, queues, backend, written, budgets>>

\* The completion of RequestCredentials, which checks close_count_, and
\* ResumeStartWithCredentials: a call is opened with the token and the
\* handshake sent, or the stream is closed with the error.
Stale_Never(t) == FALSE
Stale(t) == t.closes # remote.closes

Opened(r, token) == [r EXCEPT !.state = "open",
                              !.call = [NoCall EXCEPT !.token = token, !.sent = <<Handshake>>]]

RunResume ==
  /\ Task({"token", "error"})
  /\ LET t == Head(worker) IN
       Becomes(IF Stale(t) THEN remote
               ELSE IF t.kind = "token" THEN Opened(remote, t.user) ELSE Broken(remote))
  /\ UNCHANGED <<auth, main, provider, running, user, queues, late, backend, written, budgets>>

\* The backoff timer: the stream starts again.
BackoffElapses ==
  /\ remote.state = "backoff"
  /\ Becomes(Start([remote EXCEPT !.state = "initial"]))
  /\ UNCHANGED <<auth, main, provider, running, worker, user, queues, late, backend,
                 written, budgets>>

\* The idle timer: the stream is stopped.
IdleElapses ==
  /\ remote.idle
  /\ Leaves(remote)
  /\ Becomes(Gracefully(remote))
  /\ UNCHANGED <<auth, main, provider, running, worker, user, queues, backend,
                 written, budgets>>

Without(q, b) ==
  IF \E k \in DOMAIN q : q[k] = b THEN RemoveAt(q, CHOOSE k \in DOMAIN q : q[k] = b) ELSE q

\* The first answer on a call is for the handshake, and the pipeline goes out
\* (OnWriteStreamHandshakeComplete).
OnHandshakeComplete ==
  /\ remote.call.replies # <<>> /\ ~remote.handshake
  /\ Becomes(Send([remote EXCEPT !.handshake = TRUE, !.call.replies = Tail(@)],
                  remote.pipeline))
  /\ UNCHANGED <<auth, main, provider, running, worker, user, queues, late, backend,
                 written, budgets>>

\* Every other one is for the head of the pipeline (OnWriteStreamMutationResult):
\* the batch leaves the queue of the user, and the next ones go out.
OnMutationResult ==
  /\ remote.call.replies # <<>> /\ remote.handshake
  /\ LET q == Without(queues[user], Head(remote.pipeline)) IN
       /\ queues' = [queues EXCEPT ![user] = q]
       /\ Becomes(Fill([remote EXCEPT !.pipeline = Tail(@), !.call.replies = Tail(@)], q))
  /\ UNCHANGED <<auth, main, provider, running, worker, user, late, backend, written, budgets>>

\* OnWriteStreamClose with a permanent error, once all answers are read.
OnRefused ==
  /\ remote.call.ended /\ remote.call.replies = <<>>
  /\ LET q == Without(queues[user], Head(remote.pipeline)) IN
       /\ queues' = [queues EXCEPT ![user] = q]
       /\ Becomes(Rejected(remote, q))
  /\ UNCHANGED <<auth, main, provider, running, worker, user, late, backend, written, budgets>>

\* OnWriteStreamClose with a transient error, at any time: unread answers are
\* lost, and what is under way may arrive or not.
OnBroken ==
  /\ remote.state = "open" /\ failures < MaxFailures
  /\ failures' = failures + 1
  /\ Leaves(remote)
  /\ Becomes(Broken(remote))
  /\ UNCHANGED <<auth, main, provider, running, worker, user, queues, backend, written,
                 changes>>

\* The connectivity monitor: the network is restarted for the same user.
OnConnectivityChange ==
  /\ running /\ failures < MaxFailures
  /\ failures' = failures + 1
  /\ Leaves(remote)
  /\ Becomes(Restart(remote, queues[user]))
  /\ UNCHANGED <<auth, main, provider, running, worker, user, queues, backend, written,
                 changes>>

-----------------------------------------------------------------------------
(* The backend, which lets a user write only what is the user's own.       *)

Own(token, b)        == token # None /\ token = b.user
MayRefuse(token, b)  == ~Own(token, b) \/ b.id \in Refusable

Commit(token, b) == log' = Append(log, [as |-> token, batch |-> b]) /\ UNCHANGED refusals
Refuse(b)        == refusals' = refusals \cup {b} /\ UNCHANGED log

BackendReads ==
  /\ remote.call.sent # <<>> /\ ~remote.call.ended
  /\ LET m == Head(remote.call.sent)
         taken == [remote EXCEPT !.call.sent = Tail(@)]
         answered == [taken EXCEPT !.call.replies = Append(@, m)]
     IN \/ m = Handshake /\ remote' = answered /\ UNCHANGED backend
        \/ /\ m # Handshake /\ Own(remote.call.token, m)
           /\ remote' = answered /\ Commit(remote.call.token, m)
        \/ /\ m # Handshake /\ MayRefuse(remote.call.token, m)
           /\ remote' = [taken EXCEPT !.call.ended = TRUE] /\ Refuse(m)
  /\ UNCHANGED <<auth, fetches, main, provider, running, worker, user, queues, late,
                 written, budgets>>

\* What a closed call had sent arrives after all, and is answered to nobody.
LateArrives(o) ==
  /\ o \in late
  /\ LET m == Head(o.sent)
         rest == IF Len(o.sent) = 1 THEN {} ELSE {[o EXCEPT !.sent = Tail(@)]}
     IN \/ Own(o.token, m) /\ Commit(o.token, m) /\ late' = (late \ {o}) \cup rest
        \/ MayRefuse(o.token, m) /\ Refuse(m) /\ late' = late \ {o}
  /\ UNCHANGED <<auth, fetches, main, client, written, budgets>>

-----------------------------------------------------------------------------
Auth == \/ \E u \in Anyone : AuthChanges(u)
        \/ \E f \in fetches : AuthReads(f) \/ AuthAnswers(f) \/ AuthFails(f)
MainThread == Launch \/ DeliverNotify \/ DeliverToken
Worker == RunWrite \/ RunChange \/ RunResume
Timer == BackoffElapses \/ IdleElapses
Stream == OnHandshakeComplete \/ OnMutationResult \/ OnRefused \/ OnBroken \/ OnConnectivityChange
Backend == BackendReads \/ \E o \in late : LateArrives(o)

Next == Auth \/ MainThread \/ AppWrites \/ Worker \/ Timer \/ Stream \/ Backend \/ Kill

\* Serial queues run their tasks, Auth answers, a backoff ends, the backend
\* reads and its answers are read.  Failures, taps and kills are not fair, but
\* the app is opened again.
Fairness ==
  /\ WF_vars(\E f \in fetches : AuthReads(f) \/ AuthAnswers(f))
  /\ WF_vars(MainThread) /\ WF_vars(Worker) /\ WF_vars(BackoffElapses)
  /\ WF_vars(OnHandshakeComplete \/ OnMutationResult \/ OnRefused)
  /\ WF_vars(BackendReads)

Spec     == Init /\ [][Next]_vars
FairSpec == Spec /\ Fairness

-----------------------------------------------------------------------------
(* Properties.                                                             *)

Batches(s) == {s[k] : k \in DOMAIN s}
Out(call)  == call.replies \o call.sent

\* Types; and the pipeline never holds more than kMaxPendingWrites.
TypeOK ==
  /\ auth \in Anyone /\ user \in Anyone
  /\ \A f \in fetches : f.closes \in Nat /\ f.counter \in Nat /\ f.of \in Anyone \cup {Unread}
  /\ \A k \in DOMAIN main : main[k].kind \in {"notify", "token", "error"}
                            /\ main[k].user \in Anyone
  /\ \A k \in DOMAIN worker : worker[k].kind \in {"change", "token", "error", "write"}
                              /\ worker[k].user \in Anyone
  /\ provider \in [user : Anyone, counter : Nat]
  /\ running \in BOOLEAN
  /\ remote.state \in {"initial", "starting", "open", "backoff", "error"}
  /\ remote.closes \in Nat /\ ~remote.asks
  /\ {remote.handshake, remote.idle, remote.call.ended} \subseteq BOOLEAN
  /\ Len(remote.pipeline) \in 0..MaxPending
  /\ written \subseteq Batch /\ refusals \subseteq written
  /\ \A u \in Anyone : Batches(queues[u]) \subseteq written
  /\ \A k \in DOMAIN log : log[k].as \in Anyone /\ log[k].batch \in written

\* Four places keep an idea of who is signed in, and they change one after the
\* other.  Still, no write goes out in another's name: an open call carries the
\* token of the user whose queue the pipeline comes from, what it has sent is
\* that user's, also after it was closed, and no write of a user is ever refused for
\* the name it came in.
OwnName ==
  /\ remote.state = "open" => remote.call.token = user
  /\ \A b \in Batches(remote.pipeline) : b.user = user
  /\ \A o \in late : \A b \in Batches(o.sent) : b.user = o.token
  /\ \A b \in refusals : b.user = None \/ b.id \in Refusable

\* Answers and errors carry no batch: the client takes each for the head of the
\* pipeline.  That is right because an open call owes answers for exactly the
\* pipeline, in order, and the pipeline is the front of the user's queue; and
\* when the call has failed and all answers are read, the head is the batch the
\* backend refused (HandleWriteError's guess).
CallCarriesPipeline ==
  /\ IsPrefix(remote.pipeline, queues[user])
  /\ remote.state # "open" => remote.call = NoCall /\ ~remote.handshake
  /\ remote.state = "open" /\ ~remote.handshake =>
       Out(remote.call) = <<Handshake>> /\ ~remote.call.ended
  /\ remote.handshake =>
       LET n == Len(remote.call.replies) IN
       IF remote.call.ended
         THEN /\ n < Len(remote.pipeline)
              /\ remote.pipeline[n + 1] \in refusals
              /\ Out(remote.call) = RemoveAt(remote.pipeline, n + 1)
         ELSE Out(remote.call) = remote.pipeline

\* The hard assertions of the stream and of the remote store, each before the
\* step that evaluates it: a token that is not stale finds the stream starting;
\* an answer to a write finds a write; the idle timer stops an open stream that
\* is not needed any more; a stream that runs, or that waits, is needed.
AssertionsHold ==
  /\ worker # <<>> /\ Head(worker).kind \in {"token", "error"} /\ ~Stale(Head(worker)) =>
       remote.state = "starting"
  /\ remote.handshake /\ Out(remote.call) # <<>> => remote.pipeline # <<>>
  /\ remote.idle => remote.state = "open" /\ remote.pipeline = <<>>
  /\ remote.state \in {"starting", "backoff"} => remote.pipeline # <<>>
  /\ remote.pipeline # <<>> => IsStarted(remote)

\* A stream that is starting waits for a token, and exactly one is on its way to
\* it, with Auth, on the main thread or on the worker: with none it would hang,
\* with two it would be started twice.
TokenUnderWay ==
  LET Now(t) == t.closes = remote.closes
      OnMain == {k \in DOMAIN main : main[k].kind # "notify" /\ Now(main[k])}
      OnWorker == {k \in DOMAIN worker : worker[k].kind \in {"token", "error"} /\ Now(worker[k])}
  IN Cardinality({f \in fetches : Now(f)}) + Cardinality(OnMain) + Cardinality(OnWorker)
       = IF remote.state = "starting" THEN 1 ELSE 0

\* A write leaves its queue only with the backend's verdict, or forgotten by a
\* launch that finds nobody signed in.
LostOnlySignedOut ==
  [][\A u \in Anyone : \A b \in Batches(queues[u]) \ Batches(queues'[u]) :
       \/ b \in refusals \/ \E k \in DOMAIN log : log[k].batch = b
       \/ ~running /\ auth = None]_vars

\* The streams implement the outboxes of the users.
Promised == INSTANCE Outbox WITH Users <- Anyone, Ids <- 1..MaxWrites, outbox <- queues,
                                 accepted <- written, published <- log, refused <- refusals

ImplementsOutbox == Promised!Spec

\* Every write gets its verdict: as the model's writes are finitely many, the queue of
\* the user who stays signed in is empty in the end.
Delivered == []<>(auth = None \/ queues[auth] = <<>>)
=============================================================================
