----------------------------- MODULE WatchStream -----------------------------
(***************************************************************************)
(* Firestore's watch stream: the targets the client listens to, the stream *)
(* that is opened, broken, stopped and restarted for them, the count of    *)
(* answers each target waits for, and the online state that listeners are  *)
(* told of.  Everything here runs on Firestore's worker queue; timers, the *)
(* network and the backend run when they like.                             *)
(***************************************************************************)
EXTENDS Integers, Sequences, FiniteSets, FiniteSetsExt, SequencesExt

CONSTANTS Targets,
          MaxListens, MaxFailures, MaxUpsets   \* bounds

ASSUME WatchStreamAssumption ==
  /\ IsFiniteSet(Targets)
  /\ {MaxListens, MaxFailures, MaxUpsets} \subseteq Nat

VARIABLES
  remote,    \* the remote store, its stream, aggregator and tracker: see Stopped
  crossed,   \* history: targets of this call with a rejection that crossed a request
  made, failed, upset   \* how often the app listened, the network failed, and
                        \* the backend rejected or reset a target

budgets == <<made, failed, upset>>
vars    == <<remote, crossed, budgets>>

Zero == [t \in Targets |-> 0]

\* The call at both ends: requests and messages under way; which listen of a
\* target the backend serves (0: none), and which it is up to date with; whether
\* it owes a snapshot; whether the client has had a message.
NoCall == [requests |-> <<>>, messages |-> <<>>, serving |-> Zero, caughtUp |-> {},
           owes |-> FALSE, heard |-> FALSE]

Watches(t, n) == [kind |-> "watch", target |-> t, listen |-> n]
Unwatches(t)  == [kind |-> "unwatch", target |-> t, listen |-> 0]

Message(kind, t, n) == [kind |-> kind, target |-> t, listen |-> n]
GlobalSnapshot      == [kind |-> "snapshot"]

\* `listens` is listen_targets_; `pending`, `current` and `resets` are the
\* aggregator's outstanding_responses_, current_ and pending_target_resets_, and
\* `listen` counts the watch requests it knows of; `online`, `failures` and
\* `timer` are the tracker's, which compares its failures with 0 and 1 only.
Stopped == [listens |-> {}, state |-> "initial", idle |-> FALSE, call |-> NoCall,
            pending |-> Zero, listen |-> Zero, current |-> {}, resets |-> {},
            online |-> "unknown", failures |-> 0, timer |-> FALSE]

-----------------------------------------------------------------------------
(* OnlineStateTracker.                                                     *)

UpdateState_KeepsTimer(r, s) == [r EXCEPT !.online = s, !.failures = 0]
UpdateState(r, s) == [r EXCEPT !.online = s, !.failures = 0, !.timer = FALSE]

HandleWatchStreamStart(r) ==
  IF r.failures # 0 THEN r ELSE [r EXCEPT !.online = "unknown", !.timer = TRUE]

HandleWatchStreamFailure(r) ==
  IF r.online = "online" THEN [r EXCEPT !.online = "unknown"]
  ELSE [r EXCEPT !.online = "offline", !.failures = 1, !.timer = FALSE]

-----------------------------------------------------------------------------
(* The stream and the remote store.  Operators take and return `remote`.    *)

IsStarted(r) == r.state \in {"starting", "backoff", "open"}

ShouldStart(r) == ~IsStarted(r) /\ r.listens # {}

NoAggregator(r) == [r EXCEPT !.pending = Zero, !.listen = Zero, !.current = {}, !.resets = {}]

\* StartWatchStream
StartWatch(r) ==
  HandleWatchStreamStart(
    [NoAggregator(r) EXCEPT !.state = IF r.state = "error" THEN "backoff" ELSE "starting"])

\* Every request is counted, whether it adds the target or removes it, and
\* ends idleness.
SendWatch_StaysIdle(r, t) ==
  [r EXCEPT !.pending[t] = @ + 1, !.listen[t] = @ + 1,
            !.call.requests = Append(@, Watches(t, r.listen[t] + 1))]
SendWatch(r, t) ==
  [r EXCEPT !.pending[t] = @ + 1, !.listen[t] = @ + 1, !.idle = FALSE,
            !.call.requests = Append(@, Watches(t, r.listen[t] + 1))]

SendUnwatch_Uncounted(r, t) ==
  [r EXCEPT !.idle = FALSE, !.call.requests = Append(@, Unwatches(t))]
SendUnwatch(r, t) ==
  [r EXCEPT !.pending[t] = @ + 1, !.idle = FALSE,
            !.call.requests = Append(@, Unwatches(t))]

\* OnStreamStart and OnWatchStreamOpen: every target is asked for.
Counted(f, S, n) == [t \in Targets |-> IF t \in S THEN f[t] + n ELSE f[t]]

Opened_Silent(r) == [r EXCEPT !.state = "open"]
Opened(r) ==
  LET ts == SetToSeq(r.listens)
      counted == [r EXCEPT !.state = "open", !.pending = Counted(@, r.listens, 1),
                           !.listen = Counted(@, r.listens, 1)]
  IN [counted EXCEPT !.call.requests =
        @ \o [k \in 1..Len(ts) |-> Watches(ts[k], counted.listen[ts[k]])]]

\* Close with an error, and OnWatchStreamClose.
Broken_KeepsCall(r) ==
  LET s == NoAggregator([r EXCEPT !.state = "error", !.idle = FALSE])
  IN IF ShouldStart(s) THEN StartWatch(HandleWatchStreamFailure(s))
                       ELSE UpdateState(s, "unknown")
Broken(r) ==
  LET s == NoAggregator([r EXCEPT !.state = "error", !.idle = FALSE, !.call = NoCall])
  IN IF ShouldStart(s) THEN StartWatch(HandleWatchStreamFailure(s))
                       ELSE UpdateState(s, "unknown")

\* Stop and OnWatchStreamClose, when nothing is listened to or the network is
\* disabled.
Gracefully(r) ==
  IF IsStarted(r)
    THEN UpdateState(NoAggregator([r EXCEPT !.state = "initial", !.idle = FALSE,
                                            !.call = NoCall]), "unknown")
    ELSE r

\* RestartNetwork
Restart(r) ==
  LET s == [UpdateState(NoAggregator(Gracefully(r)), "unknown") EXCEPT !.state = "initial"]
  IN IF ShouldStart(s) THEN StartWatch(s) ELSE s

Listened_Lost(r, t) ==
  LET s == [r EXCEPT !.listens = @ \cup {t}]
  IN IF ShouldStart(s) THEN StartWatch(s) ELSE s
Listened(r, t) ==
  LET s == [r EXCEPT !.listens = @ \cup {t}]
  IN IF ShouldStart(s) THEN StartWatch(s)
     ELSE IF s.state = "open" THEN SendWatch(s, t) ELSE s

StoppedListening(r, t) ==
  LET s == [r EXCEPT !.listens = @ \ {t}]
      u == IF s.state = "open" THEN SendUnwatch(s, t) ELSE s
  IN IF u.listens # {} THEN u
     ELSE IF u.state = "open" THEN [u EXCEPT !.idle = TRUE]
     ELSE UpdateState(u, "unknown")

-----------------------------------------------------------------------------
Init == /\ remote = Stopped /\ crossed = {}
        /\ made = 0 /\ failed = 0 /\ upset = 0

\* SyncEngine listens to a query nobody listened to before, and stops when
\* nobody does any more.
Listen(t) ==
  /\ t \notin remote.listens /\ made < MaxListens
  /\ made' = made + 1
  /\ remote' = Listened(remote, t)
  /\ UNCHANGED <<crossed, failed, upset>>

StopListening(t) ==
  /\ t \in remote.listens
  /\ remote' = StoppedListening(remote, t)
  /\ UNCHANGED <<crossed, budgets>>

\* The token has come and the call is opened; that does not need the network.
OnStreamOpen ==
  /\ remote.state = "starting"
  /\ remote' = Opened(remote) /\ crossed' = {}
  /\ UNCHANGED budgets

\* There is no token, or the call fails.
OnStreamClose ==
  /\ remote.state \in {"starting", "open"} /\ failed < MaxFailures
  /\ failed' = failed + 1
  /\ remote' = Broken(remote)
  /\ UNCHANGED <<crossed, made, upset>>

BackoffElapses ==
  /\ remote.state = "backoff"
  /\ remote' = [remote EXCEPT !.state = "starting"]
  /\ UNCHANGED <<crossed, budgets>>

IdleElapses ==
  /\ remote.idle
  /\ remote' = Gracefully(remote)
  /\ UNCHANGED <<crossed, budgets>>

OnlineStateTimeout ==
  /\ remote.timer
  /\ remote' = [remote EXCEPT !.timer = FALSE, !.online = "offline"]
  /\ UNCHANGED <<crossed, budgets>>

\* The user has changed, or the network has come back.
RestartNetwork ==
  /\ failed < MaxFailures
  /\ failed' = failed + 1
  /\ remote' = Restart(remote)
  /\ UNCHANGED <<crossed, made, upset>>

-----------------------------------------------------------------------------
(* OnWatchStreamChange: one message is read.                               *)

IsActive(r, t) == r.pending[t] = 0 /\ t \in r.listens

Forgets(r, t) == [r EXCEPT !.pending[t] = 0, !.current = @ \ {t}]

\* Counts an answer.  A target that is gone when all of them have come is
\* forgotten.
Answered_Hasty(r, m) ==
  LET s == [r EXCEPT !.pending[m.target] = @ - 1]
  IN IF m.kind = "removed" THEN Forgets(s, m.target) ELSE s
Answered(r, m) ==
  LET s == [r EXCEPT !.pending[m.target] = @ - 1]
  IN IF m.kind = "removed" /\ s.pending[m.target] = 0 THEN Forgets(s, m.target) ELSE s

\* ProcessTargetError: a target that is not listened to any more is ignored.
Rejected(r, t) ==
  IF t \notin r.listens THEN r
  ELSE [Forgets(r, t) EXCEPT !.listens = @ \ {t}]

\* Data of an active target: it is up to date; it starts all over; or the client
\* has other documents for it than the backend (an existence filter), and must
\* start all over with the next snapshot.
Data == {"current", "reset", "filter"}

Updated(r, m) ==
  IF ~IsActive(r, m.target) THEN r
  ELSE CASE m.kind = "current" -> [r EXCEPT !.current = @ \cup {m.target}]
         [] m.kind = "reset"   -> [r EXCEPT !.current = @ \ {m.target}]
         [] m.kind = "filter"  -> [r EXCEPT !.current = @ \ {m.target},
                                            !.resets = @ \cup {m.target}]

\* RaiseWatchSnapshot: what must start all over is removed and asked for again, one
\* target after the other.
Raised(r) ==
  LET again == r.resets \cap r.listens
      ts == SetToSeq(again)
      counted == [r EXCEPT !.resets = {}, !.pending = Counted(@, again, 2),
                           !.listen = Counted(@, again, 1), !.idle = @ /\ again = {}]
      Request(t, k) == IF k % 2 = 1 THEN Unwatches(t) ELSE Watches(t, counted.listen[t])
  IN [counted EXCEPT !.call.requests =
        @ \o [k \in 1..(2 * Len(ts)) |-> Request(ts[(k + 1) \div 2], k)]]

\* How many requests for t wait for an answer, on call c.  A rejection answers the
\* watch request it names, if it names one.
Unanswered(c, t) ==
  LET Asked    == {k \in DOMAIN c.requests : c.requests[k].target = t}
      Answer(m) == /\ m.kind \in {"added", "removed"} \/ (m.kind = "rejected" /\ m.listen # 0)
                   /\ m.target = t
  IN Cardinality(Asked) + Cardinality({k \in DOMAIN c.messages : Answer(c.messages[k])})

OnWatchStreamChange ==
  /\ remote.call.messages # <<>>
  /\ LET m == Head(remote.call.messages)
         r == UpdateState([remote EXCEPT !.call.messages = Tail(@), !.call.heard = TRUE],
                          "online")
     IN /\ remote' = CASE m.kind \in {"added", "removed"} -> Answered(r, m)
                       [] m.kind = "rejected" -> Rejected(r, m.target)
                       [] m.kind \in Data     -> Updated(r, m)
                       [] m.kind = "snapshot" -> Raised(r)
        /\ crossed' = IF m.kind = "rejected" /\ Unanswered(r.call, m.target) > 0
                        THEN crossed \cup {m.target} ELSE crossed
  /\ UNCHANGED budgets

-----------------------------------------------------------------------------
(* The backend.                                                            *)

Says(c, m) == [c EXCEPT !.messages = Append(@, m)]
Drops(c, t) == [c EXCEPT !.serving[t] = 0, !.caughtUp = @ \ {t}]

\* It answers requests in order.
BackendAnswers ==
  /\ remote.call.requests # <<>>
  /\ LET q == Head(remote.call.requests)
         c == Drops([remote.call EXCEPT !.requests = Tail(@)], q.target)
     IN IF q.kind = "unwatch"
          THEN /\ remote' = [remote EXCEPT !.call = Says(c, Message("removed", q.target, 0))]
               /\ UNCHANGED upset
          ELSE \/ /\ remote' = [remote EXCEPT !.call =
                       [Says(c, Message("added", q.target, q.listen)) EXCEPT
                          !.serving[q.target] = q.listen]]
                  /\ UNCHANGED upset
               \/ /\ upset < MaxUpsets /\ upset' = upset + 1
                  /\ remote' = [remote EXCEPT !.call =
                                  Says(c, Message("rejected", q.target, q.listen))]
  /\ UNCHANGED <<crossed, made, failed>>

\* It brings a target up to date.
BackendCatchesUp(t) ==
  /\ remote.call.serving[t] # 0 /\ t \notin remote.call.caughtUp
  /\ remote' = [remote EXCEPT !.call =
                  [Says(remote.call, Message("current", t, remote.call.serving[t])) EXCEPT
                     !.caughtUp = @ \cup {t}, !.owes = TRUE]]
  /\ UNCHANGED <<crossed, budgets>>

\* It starts all over with a target, or counts other documents than the client.
BackendUpsets(t, kind) ==
  /\ t \in remote.call.caughtUp /\ kind \in {"reset", "filter"}
  /\ upset < MaxUpsets /\ upset' = upset + 1
  /\ remote' = [remote EXCEPT !.call =
                  [Says(remote.call, Message(kind, t, remote.call.serving[t])) EXCEPT
                     !.caughtUp = IF kind = "reset" THEN @ \ {t} ELSE @, !.owes = TRUE]]
  /\ UNCHANGED <<crossed, made, failed>>

\* It stops serving a target it served.
BackendExpels(t) ==
  /\ remote.call.serving[t] # 0
  /\ upset < MaxUpsets /\ upset' = upset + 1
  /\ remote' = [remote EXCEPT !.call = Says(Drops(@, t), Message("rejected", t, 0))]
  /\ UNCHANGED <<crossed, made, failed>>

BackendSnapshot ==
  /\ remote.call.owes
  /\ remote' = [remote EXCEPT !.call = [Says(remote.call, GlobalSnapshot) EXCEPT !.owes = FALSE]]
  /\ UNCHANGED <<crossed, budgets>>

-----------------------------------------------------------------------------
App     == \E t \in Targets : Listen(t) \/ StopListening(t)
Network == OnStreamOpen \/ OnStreamClose \/ RestartNetwork \/ OnWatchStreamChange
Timers  == BackoffElapses \/ IdleElapses \/ OnlineStateTimeout
Backend == \/ BackendAnswers \/ BackendSnapshot
           \/ \E t \in Targets : \/ BackendCatchesUp(t) \/ BackendExpels(t)
                                 \/ \E kind \in {"reset", "filter"} : BackendUpsets(t, kind)

Next == App \/ Network \/ Timers \/ Backend

Spec == Init /\ [][Next]_vars

\* Timers fire, and Auth answers with a token.
TimerFairness == WF_vars(BackoffElapses) /\ WF_vars(OnlineStateTimeout) /\ WF_vars(OnStreamOpen)

\* The backend answers, brings targets up to date, and what it says is read.
BackendFairness == /\ WF_vars(BackendAnswers) /\ WF_vars(BackendSnapshot)
                   /\ WF_vars(OnWatchStreamChange)
                   /\ \A t \in Targets : WF_vars(BackendCatchesUp(t))

FairSpec   == Spec /\ TimerFairness /\ BackendFairness
SilentSpec == Spec /\ TimerFairness

-----------------------------------------------------------------------------
(* Properties.                                                             *)

\* Types; and only an open stream has a call, with anything under way on it.
TypeOK ==
  /\ remote.listens \subseteq Targets
  /\ remote.state \in {"initial", "starting", "open", "backoff", "error"}
  /\ {remote.idle, remote.timer} \subseteq BOOLEAN
  /\ remote.online \in {"unknown", "online", "offline"} /\ remote.failures \in {0, 1}
  /\ remote.pending \in [Targets -> Int] /\ remote.listen \in [Targets -> Nat]
  /\ remote.current \subseteq Targets /\ remote.resets \subseteq Targets
  /\ remote.state # "open" =>
       /\ remote.call = NoCall
       /\ remote.pending = Zero /\ remote.current = {} /\ remote.resets = {}

\* The online state is about the stream there is.  It is online exactly from the
\* first message of a call to the call's end; the timeout only waits while an
\* attempt is under way that has neither failed nor been heard of, which is what
\* the tracker's hard assertions demand; and a failed attempt is offline.
TrackerInStep ==
  /\ remote.online = "online" <=> remote.call.heard
  /\ remote.timer => remote.online = "unknown" /\ remote.failures = 0 /\ IsStarted(remote)
  /\ remote.failures # 0 => remote.online = "offline"

\* The stream runs, or is about to, while it is needed, and what the idle timer is
\* going to stop is not: the assertion of OnWatchStreamClose ("Watch stream was stopped
\* gracefully while still needed").
RunsWhenNeeded ==
  /\ remote.idle => remote.state = "open" /\ remote.listens = {}
  /\ remote.listens # {} => IsStarted(remote)

\* Whatever was listened to, stopped, rejected and asked for again, before the
\* stream opened or after: once the backend has read all requests it serves what
\* the client listens to, but for a rejection the client has not read.
LastAsked(t) ==
  LET Asked == {k \in DOMAIN remote.call.requests : remote.call.requests[k].target = t}
  IN IF Asked = {} THEN remote.call.serving[t] # 0
                   ELSE remote.call.requests[Max(Asked)].kind = "watch"

RejectionUnread(t) ==
  \E k \in DOMAIN remote.call.messages :
    remote.call.messages[k].kind = "rejected" /\ remote.call.messages[k].target = t

ServesWhatIsListened ==
  remote.state = "open" =>
    \A t \in Targets \ crossed :
      RejectionUnread(t) \/ (t \in remote.listens <=> LastAsked(t))

\* outstanding_responses_ is the number of answers that are still to come.  (A
\* rejection that crosses another request for its target puts it out of step, until
\* the stream is opened anew.)
CountsRequests ==
  \A t \in Targets \ crossed : remote.pending[t] = Unanswered(remote.call, t)

\* What the client takes for a target's data was sent for its latest listen, not
\* for one the client has stopped meanwhile, or restarted for a mismatch.
DataIsOfThisListen ==
  remote.call.messages # <<>> =>
    LET m == Head(remote.call.messages) IN
    m.kind \in Data /\ m.target \notin crossed /\ IsActive(remote, m.target) =>
      m.listen = remote.listen[m.target]

\* Every target that stays listened to is up to date again and again, after any
\* outage, restart, reset and mismatch, unless the backend rejects it.
UpToDate(t) == IsActive(remote, t) /\ t \in remote.current /\ t \in remote.call.caughtUp

Served == \A t \in Targets : []<>(UpToDate(t) \/ t \notin remote.listens \/ t \in crossed)

\* "If the timeout is reached, we transition to Offline rather than waiting
\* indefinitely" (online_state_tracker.cc): whoever listens is told, at the latest by
\* the timeout, whether the client is online or offline.
NeverWaitsIndefinitely ==
  remote.listens # {} /\ remote.online = "unknown"
    ~> remote.online # "unknown" \/ remote.listens = {}
=============================================================================
