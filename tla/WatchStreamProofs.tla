-------------------------- MODULE WatchStreamProofs --------------------------
(***************************************************************************)
(* What holds of WatchStream for any targets and any number of listens,    *)
(* failures and rejections.                                                *)
(*                                                                         *)
(* Handlers are compositions of operators on the state of the remote store,*)
(* so the invariant is a predicate of such a state: Sound, the conjunction  *)
(* of its type, of the silence of a stream that is not open, of the        *)
(* tracker's agreement with the call, and of the stream running exactly    *)
(* when it is needed.  None of the last three is inductive without the     *)
(* others: the tracker is in step only because a stream that is not open   *)
(* has heard nothing, and the idle timer stops what is not needed only     *)
(* because whoever listens again sends a request, which cancels it.        *)
(*                                                                         *)
(* What is under way on an open stream is the subject of the second half.  *)
(* Per target, the requests and the messages about it are linked (Linked:  *)
(* what is served, and the numbers of the listens) whatever happens, and   *)
(* unless a rejection has crossed a request they can also be relied upon   *)
(* (Trusted: the last word tells whether the client listens, and the count *)
(* is right).  Every step, over sequences of any length, keeps that.       *)
(***************************************************************************)
EXTENDS WatchStream, TLAPS, FiniteSetTheorems, FunctionTheorems, SequenceTheorems,
        WellFoundedInduction

\* What the client sends, what it is sent, and the call between them.
Requests == [kind : {"watch", "unwatch"}, target : Targets, listen : Nat]
Sayings  == [kind : {"added", "removed", "rejected"} \cup Data, target : Targets, listen : Nat]
Messages == Sayings \cup {GlobalSnapshot}

Calls == [requests : Seq(Requests), messages : Seq(Messages), serving : [Targets -> Nat],
          caughtUp : SUBSET Targets, owes : BOOLEAN, heard : BOOLEAN]

\* The states of the remote store.
Remotes ==
  [listens : SUBSET Targets, state : {"initial", "starting", "open", "backoff", "error"},
   idle : BOOLEAN, call : Calls, pending : [Targets -> Int], listen : [Targets -> Nat],
   current : SUBSET Targets, resets : SUBSET Targets,
   online : {"unknown", "online", "offline"}, failures : {0, 1}, timer : BOOLEAN]

\* Without an open call nothing is under way, counted or current.
Quiet(r) ==
  r.state # "open" =>
    r.call = NoCall /\ r.pending = Zero /\ r.current = {} /\ r.resets = {}

\* TrackerInStep, of any state of the remote store.
InStep(r) ==
  /\ r.online = "online" <=> r.call.heard
  /\ r.timer => r.online = "unknown" /\ r.failures = 0 /\ IsStarted(r)
  /\ r.failures # 0 => r.online = "offline"

\* RunsWhenNeeded, of any state of the remote store.
Needed(r) ==
  /\ r.idle => r.state = "open" /\ r.listens = {}
  /\ r.listens # {} => IsStarted(r)

\* The invariant, of any state of the remote store.
Sound(r) == r \in Remotes /\ Quiet(r) /\ InStep(r) /\ Needed(r)

-----------------------------------------------------------------------------
(* Types of the values messages and requests are made of.                  *)

\* A call that begins.
LEMMA NoCallType == NoCall \in Calls /\ ~NoCall.heard
  BY DEF NoCall, Calls, Zero

\* Starting the aggregator anew leaves the rest alone.
LEMMA NoAggregatorType ==
  ASSUME NEW r \in Remotes
  PROVE  LET s == NoAggregator(r) IN
         /\ s \in Remotes
         /\ s.pending = Zero /\ s.current = {} /\ s.resets = {}
         /\ s.listens = r.listens /\ s.state = r.state /\ s.idle = r.idle /\ s.call = r.call
         /\ s.online = r.online /\ s.failures = r.failures /\ s.timer = r.timer
<1>1. Zero \in [Targets -> Nat] /\ Zero \in [Targets -> Int]
  BY DEF Zero
<1> QED
  BY <1>1 DEF NoAggregator, Remotes

\* Any subset of the targets can be enumerated.
LEMMA SetToSeqType ==
  ASSUME NEW S \in SUBSET Targets
  PROVE  SetToSeq(S) \in Seq(S)
<1>1. IsFiniteSet(S)
  BY FS_Subset, WatchStreamAssumption DEF WatchStreamAssumption
<1>2. Cardinality(S) \in Nat /\ ExistsBijection(1..Cardinality(S), S)
  BY <1>1, FS_CardinalityType
<1>3. \E f \in [1..Cardinality(S) -> S] : IsInjective(f)
  BY <1>2, Zenon DEF ExistsBijection, Bijection, Injection
<1>4. SetToSeq(S) \in [1..Cardinality(S) -> S]
  BY <1>3 DEF SetToSeq
<1> QED
  BY <1>2, <1>4

-----------------------------------------------------------------------------
(* Starting and closing the stream.                                        *)

\* StartWatch starts a stream that is not started, and the tracker with it.
LEMMA StartWatchSound ==
  ASSUME NEW r \in Remotes, r.state \in {"initial", "error"}, r.call = NoCall, ~r.idle,
         InStep(r)
  PROVE  Sound(StartWatch(r))
<1> DEFINE a == NoAggregator(r)
           s == [a EXCEPT !.state = IF r.state = "error" THEN "backoff" ELSE "starting"]
<1>1. /\ s \in Remotes /\ s.state \in {"backoff", "starting"}
      /\ s.call = NoCall /\ s.pending = Zero /\ s.current = {} /\ s.resets = {}
      /\ ~s.idle /\ s.online = r.online /\ s.failures = r.failures /\ s.timer = r.timer
  <2>1. /\ a \in Remotes /\ a.call = NoCall /\ ~a.idle
        /\ a.pending = Zero /\ a.current = {} /\ a.resets = {}
        /\ a.online = r.online /\ a.failures = r.failures /\ a.timer = r.timer
    BY NoAggregatorType
  <2> HIDE DEF a
  <2> QED
    BY <2>1 DEF Remotes
<1>2. s.online # "online" /\ ~s.timer /\ (s.failures # 0 => s.online = "offline")
  BY <1>1, NoCallType DEF InStep, IsStarted
<1>3. StartWatch(r) = IF s.failures # 0 THEN s
                      ELSE [s EXCEPT !.online = "unknown", !.timer = TRUE]
  BY DEF StartWatch, HandleWatchStreamStart
<1> HIDE DEF a, s
<1>4. StartWatch(r) \in Remotes
  <2>1. [s EXCEPT !.online = "unknown", !.timer = TRUE] \in Remotes
    BY <1>1 DEF Remotes
  <2> QED
    BY <1>1, <1>3, <2>1
<1>5. Quiet(StartWatch(r)) /\ Needed(StartWatch(r))
  BY <1>1, <1>3 DEF Remotes, Quiet, Needed, IsStarted
<1>6. InStep(StartWatch(r))
  BY <1>1, <1>2, <1>3, NoCallType DEF Remotes, InStep, IsStarted
<1> QED
  BY <1>4, <1>5, <1>6 DEF Sound

\* A stream that breaks is started again if it is needed, and unknown otherwise.
LEMMA BrokenSound ==
  ASSUME NEW r \in Remotes, Sound(r)
  PROVE  Sound(Broken(r))
<1> DEFINE e == [r EXCEPT !.state = "error", !.idle = FALSE, !.call = NoCall]
           s == NoAggregator(e)
<1>1. /\ s \in Remotes /\ s.state = "error" /\ s.call = NoCall /\ ~s.idle
      /\ s.pending = Zero /\ s.current = {} /\ s.resets = {}
      /\ s.listens = r.listens
      /\ s.online = r.online /\ s.failures = r.failures /\ s.timer = r.timer
  <2>1. /\ e \in Remotes /\ e.state = "error" /\ e.call = NoCall /\ ~e.idle
        /\ e.listens = r.listens
        /\ e.online = r.online /\ e.failures = r.failures /\ e.timer = r.timer
    BY NoCallType DEF Remotes
  <2> HIDE DEF e
  <2> QED
    BY <2>1, NoAggregatorType
<1>2. s.failures # 0 => s.online = "offline"
  BY <1>1 DEF Sound, InStep
<1>3. Broken(r) = IF ShouldStart(s) THEN StartWatch(HandleWatchStreamFailure(s))
                                    ELSE UpdateState(s, "unknown")
  BY DEF Broken
<1> HIDE DEF s
<1>4. CASE ShouldStart(s)
  <2> DEFINE f == HandleWatchStreamFailure(s)
  <2>1. /\ f \in Remotes /\ f.state = "error" /\ f.call = NoCall /\ ~f.idle
        /\ f.online # "online" /\ ~f.timer
        /\ (f.failures # 0 => f.online = "offline")
    <3>1. s.online = "online" => ~s.timer
      BY <1>1 DEF Sound, InStep
    <3> QED
      BY <1>1, <1>2, <3>1 DEF HandleWatchStreamFailure, Remotes
  <2>2. InStep(f)
    BY <2>1, NoCallType DEF InStep
  <2>3. Broken(r) = StartWatch(f)
    BY <1>3, <1>4
  <2> HIDE DEF f
  <2> QED
    BY <2>1, <2>2, <2>3, StartWatchSound
<1>5. CASE ~ShouldStart(s)
  <2> DEFINE u == UpdateState(s, "unknown")
  <2>1. /\ u \in Remotes /\ u.state = "error" /\ u.call = NoCall /\ ~u.idle
        /\ u.pending = Zero /\ u.current = {} /\ u.resets = {} /\ u.listens = {}
        /\ u.online = "unknown" /\ u.failures = 0 /\ ~u.timer
    BY <1>1, <1>5 DEF ShouldStart, UpdateState, Remotes, IsStarted
  <2>2. Broken(r) = u
    BY <1>3, <1>5
  <2> HIDE DEF u
  <2> QED
    BY <2>1, <2>2, NoCallType DEF Sound, Quiet, InStep, Needed
<1> QED
  BY <1>4, <1>5

\* A stream that is stopped gracefully has neither call nor count.
LEMMA GracefullyStops ==
  ASSUME NEW r \in Remotes, Sound(r)
  PROVE  LET s == Gracefully(r) IN
         /\ s \in Remotes /\ s.listens = r.listens /\ s.state \in {"initial", "error"}
         /\ s.call = NoCall /\ s.pending = Zero /\ s.current = {} /\ s.resets = {}
         /\ ~s.idle /\ s.online # "online" /\ ~s.timer
         /\ (s.failures # 0 => s.online = "offline")
<1>1. CASE IsStarted(r)
  <2> DEFINE e == [r EXCEPT !.state = "initial", !.idle = FALSE, !.call = NoCall]
             a == NoAggregator(e)
  <2>1. e \in Remotes /\ e.state = "initial" /\ e.call = NoCall /\ ~e.idle
        /\ e.listens = r.listens
    BY NoCallType DEF Remotes
  <2>2. Gracefully(r) = UpdateState(a, "unknown")
    BY <1>1 DEF Gracefully
  <2> HIDE DEF e
  <2>3. /\ a \in Remotes /\ a.state = "initial" /\ a.call = NoCall /\ ~a.idle
        /\ a.pending = Zero /\ a.current = {} /\ a.resets = {} /\ a.listens = r.listens
    BY <2>1, NoAggregatorType
  <2> HIDE DEF a
  <2> QED
    BY <2>2, <2>3 DEF UpdateState, Remotes
<1>2. CASE ~IsStarted(r)
  <2>1. Gracefully(r) = r
    BY <1>2 DEF Gracefully
  <2>2. r.state \in {"initial", "error"}
    BY <1>2 DEF IsStarted, Remotes
  <2> QED
    BY <1>2, <2>1, <2>2, NoCallType DEF Sound, Quiet, InStep, Needed
<1> QED
  BY <1>1, <1>2

\* The network is restarted.
LEMMA RestartSound ==
  ASSUME NEW r \in Remotes, Sound(r)
  PROVE  Sound(Restart(r))
<1> DEFINE g == Gracefully(r)
           s == [UpdateState(NoAggregator(g), "unknown") EXCEPT !.state = "initial"]
<1>1. g \in Remotes /\ g.call = NoCall /\ ~g.idle
  BY GracefullyStops
<1> HIDE DEF g
<1>a. LET a == NoAggregator(g) IN
      /\ a \in Remotes /\ a.call = NoCall /\ ~a.idle
      /\ a.pending = Zero /\ a.current = {} /\ a.resets = {}
  BY <1>1, NoAggregatorType
<1>2. /\ s \in Remotes /\ s.state = "initial" /\ s.call = NoCall /\ ~s.idle
      /\ s.pending = Zero /\ s.current = {} /\ s.resets = {}
      /\ s.online = "unknown" /\ s.failures = 0 /\ ~s.timer
  BY <1>a DEF UpdateState, Remotes
<1>3. Restart(r) = IF ShouldStart(s) THEN StartWatch(s) ELSE s
  BY DEF Restart, g
<1> HIDE DEF s
<1>4. InStep(s)
  BY <1>2, NoCallType DEF InStep
<1>5. CASE ShouldStart(s)
  BY <1>2, <1>3, <1>4, <1>5, StartWatchSound
<1>6. CASE ~ShouldStart(s)
  BY <1>2, <1>3, <1>4, <1>6 DEF ShouldStart, Sound, Quiet, Needed, IsStarted
<1> QED
  BY <1>5, <1>6

-----------------------------------------------------------------------------
(* Requests.                                                               *)

\* One request more, or a sequence of them.
LEMMA AskedType ==
  ASSUME NEW c \in Calls, NEW qs \in Seq(Requests)
  PROVE  /\ [c EXCEPT !.requests = @ \o qs] \in Calls
         /\ [c EXCEPT !.requests = @ \o qs].heard = c.heard
<1>1. c.requests \o qs \in Seq(Requests)
  BY DEF Calls
<1> QED
  BY <1>1 DEF Calls

\* One request more.
LEMMA AskedOneType ==
  ASSUME NEW c \in Calls, NEW q \in Requests
  PROVE  /\ [c EXCEPT !.requests = Append(@, q)] \in Calls
         /\ [c EXCEPT !.requests = Append(@, q)].heard = c.heard
<1>1. Append(c.requests, q) \in Seq(Requests)
  BY DEF Calls
<1> QED
  BY <1>1 DEF Calls

\* Both requests keep the type, end idleness, and leave the rest alone.
LEMMA SendWatchType ==
  ASSUME NEW r \in Remotes, NEW t \in Targets
  PROVE  LET s == SendWatch(r, t) IN
         /\ s \in Remotes /\ ~s.idle /\ s.listens = r.listens /\ s.state = r.state
         /\ s.call.heard = r.call.heard
         /\ s.online = r.online /\ s.failures = r.failures /\ s.timer = r.timer
<1> DEFINE q == Watches(t, r.listen[t] + 1)
           c == [r.call EXCEPT !.requests = Append(@, q)]
           p == [r.pending EXCEPT ![t] = @ + 1]
           l == [r.listen EXCEPT ![t] = @ + 1]
<1>1. q \in Requests
  BY DEF Remotes, Requests, Watches
<1>2. r.call \in Calls
  BY DEF Remotes
<1>3. c \in Calls /\ c.heard = r.call.heard
  BY <1>1, <1>2, AskedOneType
<1>4. p \in [Targets -> Int] /\ l \in [Targets -> Nat]
  BY DEF Remotes
<1>5. SendWatch(r, t) = [r EXCEPT !.pending = p, !.listen = l, !.idle = FALSE, !.call = c]
  BY DEF SendWatch, Remotes, Calls
<1> HIDE DEF c, p, l
<1> QED
  BY <1>3, <1>4, <1>5 DEF Remotes

\* A target's removal is requested.
LEMMA SendUnwatchType ==
  ASSUME NEW r \in Remotes, NEW t \in Targets
  PROVE  LET s == SendUnwatch(r, t) IN
         /\ s \in Remotes /\ ~s.idle /\ s.listens = r.listens /\ s.state = r.state
         /\ s.call.heard = r.call.heard
         /\ s.online = r.online /\ s.failures = r.failures /\ s.timer = r.timer
<1> DEFINE q == Unwatches(t)
           c == [r.call EXCEPT !.requests = Append(@, q)]
           p == [r.pending EXCEPT ![t] = @ + 1]
<1>1. q \in Requests
  BY DEF Requests, Unwatches
<1>2. r.call \in Calls
  BY DEF Remotes
<1>3. c \in Calls /\ c.heard = r.call.heard
  BY <1>1, <1>2, AskedOneType
<1>4. p \in [Targets -> Int]
  BY DEF Remotes
<1>5. SendUnwatch(r, t) = [r EXCEPT !.pending = p, !.idle = FALSE, !.call = c]
  BY DEF SendUnwatch, Remotes, Calls
<1> HIDE DEF c, p
<1> QED
  BY <1>3, <1>4, <1>5 DEF Remotes

\* A target is listened to.
LEMMA ListenedSound ==
  ASSUME NEW r \in Remotes, Sound(r), NEW t \in Targets
  PROVE  Sound(Listened(r, t))
<1> DEFINE s == [r EXCEPT !.listens = @ \cup {t}]
<1>1. /\ s \in Remotes /\ s.listens # {} /\ s.state = r.state /\ s.idle = r.idle
      /\ s.call = r.call /\ s.pending = r.pending /\ s.current = r.current
      /\ s.resets = r.resets
      /\ s.online = r.online /\ s.failures = r.failures /\ s.timer = r.timer
  BY DEF Remotes
<1>2. Listened(r, t) = IF ShouldStart(s) THEN StartWatch(s)
                       ELSE IF s.state = "open" THEN SendWatch(s, t) ELSE s
  BY DEF Listened
<1> HIDE DEF s
<1>3. InStep(s) /\ Quiet(s)
  BY <1>1 DEF Sound, InStep, Quiet, IsStarted
<1>4. CASE ShouldStart(s)
  <2>1. s.state \in {"initial", "error"}
    BY <1>1, <1>4 DEF ShouldStart, IsStarted, Remotes
  <2>2. s.call = NoCall /\ ~s.idle
    BY <1>1, <2>1 DEF Sound, Quiet, Needed
  <2> QED
    BY <1>1, <1>2, <1>3, <1>4, <2>1, <2>2, StartWatchSound
<1>5. CASE ~ShouldStart(s) /\ s.state = "open"
  <2> DEFINE u == SendWatch(s, t)
  <2>1. /\ u \in Remotes /\ ~u.idle /\ u.state = "open" /\ u.call.heard = s.call.heard
        /\ u.online = s.online /\ u.failures = s.failures /\ u.timer = s.timer
    BY <1>1, <1>5, SendWatchType
  <2>2. Listened(r, t) = u
    BY <1>2, <1>5
  <2> HIDE DEF u
  <2> QED
    BY <1>3, <2>1, <2>2 DEF Sound, Quiet, InStep, Needed, IsStarted
<1>6. CASE ~ShouldStart(s) /\ s.state # "open"
  BY <1>1, <1>2, <1>3, <1>6 DEF ShouldStart, Sound, Needed, IsStarted
<1> QED
  BY <1>4, <1>5, <1>6

\* A target is given up.
LEMMA StoppedListeningSound ==
  ASSUME NEW r \in Remotes, Sound(r), NEW t \in Targets
  PROVE  Sound(StoppedListening(r, t))
<1> DEFINE s == [r EXCEPT !.listens = @ \ {t}]
           u == IF s.state = "open" THEN SendUnwatch(s, t) ELSE s
<1>1. /\ s \in Remotes /\ s.listens \subseteq r.listens /\ s.state = r.state
      /\ s.idle = r.idle
      /\ s.call = r.call /\ s.pending = r.pending /\ s.current = r.current
      /\ s.resets = r.resets
      /\ s.online = r.online /\ s.failures = r.failures /\ s.timer = r.timer
  BY DEF Remotes
<1>2. StoppedListening(r, t) =
        IF u.listens # {} THEN u
        ELSE IF u.state = "open" THEN [u EXCEPT !.idle = TRUE] ELSE UpdateState(u, "unknown")
  BY DEF StoppedListening
<1> HIDE DEF s
<1>3. InStep(s) /\ Quiet(s) /\ Needed(s)
  BY <1>1 DEF Sound, InStep, Quiet, Needed, IsStarted
<1>4. CASE s.state = "open"
  <2>1. /\ u \in Remotes /\ ~u.idle /\ u.state = "open" /\ u.call.heard = s.call.heard
        /\ u.online = s.online /\ u.failures = s.failures /\ u.timer = s.timer
    BY <1>1, <1>4, SendUnwatchType
  <2> HIDE DEF u
  <2>2. Sound(u)
    BY <1>3, <2>1 DEF Sound, Quiet, InStep, Needed, IsStarted
  <2>3. u.listens = {} => Sound([u EXCEPT !.idle = TRUE])
    BY <2>1, <2>2 DEF Sound, Quiet, InStep, Needed, IsStarted, Remotes
  <2> QED
    BY <1>2, <2>1, <2>2, <2>3
<1>5. CASE s.state # "open"
  <2>1. u = s
    BY <1>5
  <2> HIDE DEF u
  <2>2. Sound(s)
    BY <1>1, <1>3 DEF Sound
  <2> DEFINE w == UpdateState(s, "unknown")
  <2>3. /\ w \in Remotes /\ w.state = s.state /\ w.idle = s.idle /\ w.call = s.call
        /\ w.pending = s.pending /\ w.current = s.current /\ w.resets = s.resets
        /\ w.listens = s.listens /\ w.online = "unknown" /\ w.failures = 0 /\ ~w.timer
    BY <1>1 DEF UpdateState, Remotes
  <2> HIDE DEF w
  <2>4. s.listens = {} => Sound(w)
    BY <1>3, <1>5, <2>3, NoCallType DEF Sound, Quiet, InStep, Needed
  <2> QED
    BY <1>2, <1>5, <2>1, <2>2, <2>4 DEF w
<1> QED
  BY <1>4, <1>5

\* Counting requests of some targets keeps the types.
LEMMA CountedType ==
  ASSUME NEW r \in Remotes, NEW S \in SUBSET Targets, NEW n \in {1, 2}
  PROVE  /\ Counted(r.pending, S, n) \in [Targets -> Int]
         /\ Counted(r.listen, S, n) \in [Targets -> Nat]
  BY DEF Counted, Remotes

\* The stream opens.
LEMMA OpenedSound ==
  ASSUME NEW r \in Remotes, Sound(r), r.state = "starting"
  PROVE  Sound(Opened(r))
<1> DEFINE ts == SetToSeq(r.listens)
           p == Counted(r.pending, r.listens, 1)
           l == Counted(r.listen, r.listens, 1)
           qs == [k \in 1..Len(ts) |-> Watches(ts[k], l[ts[k]])]
           c == [r.call EXCEPT !.requests = @ \o qs]
<1>1. r.listens \in SUBSET Targets /\ r.call \in Calls
  BY DEF Remotes
<1>2. p \in [Targets -> Int] /\ l \in [Targets -> Nat]
  BY <1>1, CountedType
<1>3. ts \in Seq(Targets)
  BY <1>1, SetToSeqType
<1>4. Opened(r) = [r EXCEPT !.state = "open", !.pending = p, !.listen = l, !.call = c]
  BY DEF Opened, Remotes, Calls
<1> HIDE DEF ts, p, l
<1>5. qs \in Seq(Requests)
  BY <1>2, <1>3 DEF Requests, Watches
<1> HIDE DEF qs
<1>6. c \in Calls /\ c.heard = r.call.heard
  BY <1>1, <1>5, AskedType
<1> HIDE DEF c
<1>7. ~r.idle
  BY DEF Sound, Needed
<1> DEFINE s == [r EXCEPT !.state = "open", !.pending = p, !.listen = l, !.call = c]
<1>8. /\ s \in Remotes /\ s.state = "open" /\ ~s.idle /\ s.call.heard = r.call.heard
      /\ s.online = r.online /\ s.failures = r.failures /\ s.timer = r.timer
  BY <1>2, <1>6, <1>7 DEF Remotes
<1> HIDE DEF s
<1> QED
  BY <1>4, <1>8 DEF s, Sound, Quiet, InStep, Needed, IsStarted

-----------------------------------------------------------------------------
(* Messages.                                                               *)

\* A handler that leaves an open stream open, its tracker alone and its needs no
\* greater keeps the invariant.
LEMMA StaysOpen ==
  ASSUME NEW r \in Remotes, Sound(r), r.state = "open",
         NEW s \in Remotes, s.state = "open", s.listens \subseteq r.listens,
         s.idle => r.idle, s.call.heard = r.call.heard,
         s.online = r.online, s.failures = r.failures, s.timer = r.timer
  PROVE  Sound(s)
  BY DEF Sound, Quiet, InStep, Needed, IsStarted

\* A target is forgotten, ...
LEMMA ForgetsSound ==
  ASSUME NEW r \in Remotes, Sound(r), r.state = "open", NEW t
  PROVE  Sound(Forgets(r, t)) /\ Forgets(r, t).state = "open"
<1> DEFINE s == Forgets(r, t)
<1>1. /\ s \in Remotes /\ s.state = "open" /\ s.listens = r.listens /\ s.idle = r.idle
      /\ s.call = r.call
      /\ s.online = r.online /\ s.failures = r.failures /\ s.timer = r.timer
  <2> DEFINE p == [r.pending EXCEPT ![t] = 0]
  <2>1. p \in [Targets -> Int]
    <3>1. r.pending \in [Targets -> Int]
      BY DEF Remotes
    <3>2. CASE t \in Targets
      BY <3>1, <3>2
    <3>3. CASE t \notin Targets
      <4>1. p = r.pending
        BY <3>1, <3>3, Zenon
      <4> QED
        BY <3>1, <4>1
    <3> QED
      BY <3>2, <3>3
  <2>2. s = [r EXCEPT !.pending = p, !.current = @ \ {t}]
    BY DEF Forgets
  <2> HIDE DEF p, s
  <2> QED
    BY <2>1, <2>2 DEF Remotes
<1> HIDE DEF s
<1> QED
  BY <1>1, StaysOpen DEF s

\* ... when its last answer is a removal, ...
LEMMA AnsweredSound ==
  ASSUME NEW r \in Remotes, Sound(r), r.state = "open", NEW m
  PROVE  Sound(Answered(r, m))
<1> DEFINE s == [r EXCEPT !.pending[m.target] = @ - 1]
<1>1. /\ s \in Remotes /\ s.state = "open" /\ s.listens = r.listens /\ s.idle = r.idle
      /\ s.call = r.call
      /\ s.online = r.online /\ s.failures = r.failures /\ s.timer = r.timer
  BY DEF Remotes
<1>2. Answered(r, m) \in {s, Forgets(s, m.target)}
  BY DEF Answered
<1> HIDE DEF s
<1>3. Sound(s)
  BY <1>1, StaysOpen
<1> QED
  BY <1>1, <1>2, <1>3, ForgetsSound

\* ... or when it is rejected.
LEMMA RejectedSound ==
  ASSUME NEW r \in Remotes, Sound(r), r.state = "open", NEW t
  PROVE  Sound(Rejected(r, t))
<1> DEFINE f == Forgets(r, t)
           s == [f EXCEPT !.listens = @ \ {t}]
<1>1. Rejected(r, t) \in {r, s}
  BY DEF Rejected
<1>2. Sound(f) /\ f.state = "open" /\ f \in Remotes
  BY ForgetsSound DEF Sound
<1> HIDE DEF f
<1>3. /\ s \in Remotes /\ s.state = "open" /\ s.listens \subseteq f.listens
      /\ s.idle = f.idle /\ s.call = f.call
      /\ s.online = f.online /\ s.failures = f.failures /\ s.timer = f.timer
  BY <1>2 DEF Remotes
<1> HIDE DEF s
<1>4. Sound(s)
  BY <1>2, <1>3, StaysOpen
<1> QED
  BY <1>1, <1>4

\* Data of a target is read.
LEMMA UpdatedSound ==
  ASSUME NEW r \in Remotes, Sound(r), r.state = "open", NEW m, m.kind \in Data
  PROVE  Sound(Updated(r, m))
<1> DEFINE s == Updated(r, m)
<1>1. IsActive(r, m.target) => m.target \in Targets
  BY DEF IsActive, Remotes
<1>2. /\ s \in Remotes /\ s.state = "open" /\ s.listens = r.listens /\ s.idle = r.idle
      /\ s.call = r.call
      /\ s.online = r.online /\ s.failures = r.failures /\ s.timer = r.timer
  <2>1. CASE ~IsActive(r, m.target)
    BY <2>1 DEF Updated
  <2>2. CASE IsActive(r, m.target) /\ m.kind = "current"
    BY <1>1, <2>2 DEF Updated, Remotes
  <2>3. CASE IsActive(r, m.target) /\ m.kind = "reset"
    BY <1>1, <2>3 DEF Updated, Remotes
  <2>4. CASE IsActive(r, m.target) /\ m.kind = "filter"
    BY <1>1, <2>4 DEF Updated, Remotes
  <2> QED
    BY <2>1, <2>2, <2>3, <2>4 DEF Data
<1> HIDE DEF s
<1> QED
  BY <1>2, StaysOpen DEF s

\* A snapshot is raised.
LEMMA RaisedSound ==
  ASSUME NEW r \in Remotes, Sound(r), r.state = "open"
  PROVE  Sound(Raised(r))
<1> DEFINE again == r.resets \cap r.listens
           ts == SetToSeq(again)
           p == Counted(r.pending, again, 2)
           l == Counted(r.listen, again, 1)
           Request(t, k) == IF k % 2 = 1 THEN Unwatches(t) ELSE Watches(t, l[t])
           qs == [k \in 1..(2 * Len(ts)) |-> Request(ts[(k + 1) \div 2], k)]
           c == [r.call EXCEPT !.requests = @ \o qs]
           s == [r EXCEPT !.resets = {}, !.pending = p, !.listen = l,
                          !.idle = r.idle /\ again = {}, !.call = c]
<1>1. again \in SUBSET Targets /\ r.call \in Calls
  BY DEF Remotes
<1>2. p \in [Targets -> Int] /\ l \in [Targets -> Nat]
  BY <1>1, CountedType
<1>3. ts \in Seq(Targets)
  BY <1>1, SetToSeqType
<1>4. Raised(r) = s
  BY DEF Raised, Remotes, Calls
<1> HIDE DEF again, ts, p, l
<1>5. qs \in Seq(Requests)
  <2>1. \A k \in 1..(2 * Len(ts)) : (k + 1) \div 2 \in 1..Len(ts)
    BY <1>3
  <2>2. \A t \in Targets, k \in Nat : Request(t, k) \in Requests
    BY <1>2 DEF Requests, Watches, Unwatches
  <2> HIDE DEF Request
  <2>3. \A k \in 1..(2 * Len(ts)) : Request(ts[(k + 1) \div 2], k) \in Requests
    BY <1>3, <2>1, <2>2
  <2>4. 2 * Len(ts) \in Nat
    BY <1>3
  <2> QED
    BY <2>3, <2>4
<1> HIDE DEF qs
<1>6. c \in Calls /\ c.heard = r.call.heard
  BY <1>1, <1>5, AskedType
<1> HIDE DEF c
<1>7. (r.idle /\ again = {}) \in BOOLEAN
  OBVIOUS
<1>8. /\ s \in Remotes /\ s.state = "open" /\ (s.idle => r.idle) /\ s.listens = r.listens
      /\ s.call.heard = r.call.heard
      /\ s.online = r.online /\ s.failures = r.failures /\ s.timer = r.timer
  BY <1>2, <1>6, <1>7 DEF Remotes
<1> HIDE DEF s
<1> QED
  BY <1>4, <1>8, StaysOpen

\* One message is read, and handled according to its kind.
LEMMA ReadSound ==
  ASSUME Sound(remote), OnWatchStreamChange
  PROVE  Sound(remote')
<1> DEFINE m == Head(remote.call.messages)
           c == [remote.call EXCEPT !.messages = Tail(@), !.heard = TRUE]
           h == [remote EXCEPT !.call = c]
           r == UpdateState(h, "online")
<1>1. /\ remote \in Remotes /\ remote.call \in Calls /\ remote.call.messages \in Seq(Messages)
      /\ remote.call.messages # <<>>
  BY DEF Sound, Remotes, Calls, OnWatchStreamChange
<1>2. remote.state = "open"
  BY <1>1 DEF Sound, Quiet, NoCall
<1>3. m \in Messages
  BY <1>1
<1>4. remote' = CASE m.kind \in {"added", "removed"} -> Answered(r, m)
                  [] m.kind = "rejected" -> Rejected(r, m.target)
                  [] m.kind \in Data     -> Updated(r, m)
                  [] m.kind = "snapshot" -> Raised(r)
  <2>1. [remote EXCEPT !.call.messages = Tail(@), !.call.heard = TRUE] = h
    BY <1>1 DEF Remotes, Calls
  <2> QED
    BY <2>1 DEF OnWatchStreamChange
<1>5. c \in Calls /\ c.heard = TRUE
  <2>1. Tail(remote.call.messages) \in Seq(Messages)
    BY <1>1
  <2> QED
    BY <1>1, <2>1 DEF Calls
<1> HIDE DEF c, m
<1>6. /\ r \in Remotes /\ r.state = "open" /\ r.idle = remote.idle
      /\ r.listens = remote.listens /\ r.call.heard
      /\ r.online = "online" /\ r.failures = 0 /\ ~r.timer
  BY <1>1, <1>2, <1>5 DEF UpdateState, Remotes
<1> HIDE DEF r, h
<1>7. Sound(r)
  BY <1>1, <1>2, <1>6 DEF Sound, Quiet, InStep, Needed, IsStarted
<1>8. m.kind \in {"added", "removed", "rejected", "snapshot"} \cup Data
  BY <1>3 DEF Messages, Sayings, GlobalSnapshot, Data
<1>9. CASE m.kind \in {"added", "removed"}
  <2>1. remote' = Answered(r, m)
    BY <1>4, <1>9 DEF Data
  <2> QED
    BY <1>6, <1>7, <2>1, AnsweredSound
<1>10. CASE m.kind = "rejected"
  <2>1. remote' = Rejected(r, m.target)
    BY <1>4, <1>10 DEF Data
  <2> QED
    BY <1>6, <1>7, <2>1, RejectedSound
<1>11. CASE m.kind \in Data
  <2>1. remote' = Updated(r, m)
    BY <1>4, <1>11 DEF Data
  <2> QED
    BY <1>6, <1>7, <1>11, <2>1, UpdatedSound
<1>12. CASE m.kind = "snapshot"
  <2>1. remote' = Raised(r)
    BY <1>4, <1>12 DEF Data
  <2> QED
    BY <1>6, <1>7, <2>1, RaisedSound
<1> QED
  BY <1>8, <1>9, <1>10, <1>11, <1>12

-----------------------------------------------------------------------------
(* The backend.                                                            *)

\* Whatever the backend does to a call, the client has heard no more than before.
LEMMA CallChanges ==
  ASSUME NEW r \in Remotes, Sound(r), r.call # NoCall,
         NEW c \in Calls, c.heard = r.call.heard
  PROVE  Sound([r EXCEPT !.call = c])
<1> DEFINE s == [r EXCEPT !.call = c]
<1>1. r.state = "open"
  BY DEF Sound, Quiet
<1>2. /\ s \in Remotes /\ s.state = "open" /\ s.idle = r.idle /\ s.listens = r.listens
      /\ s.call.heard = r.call.heard
      /\ s.online = r.online /\ s.failures = r.failures /\ s.timer = r.timer
  BY <1>1 DEF Remotes
<1> HIDE DEF s
<1> QED
  BY <1>1, <1>2, StaysOpen DEF s

\* The backend says something, ...
LEMMA SaysType ==
  ASSUME NEW c \in Calls, NEW m \in Messages
  PROVE  Says(c, m) \in Calls /\ Says(c, m).heard = c.heard
<1>1. Append(c.messages, m) \in Seq(Messages)
  BY DEF Calls
<1> QED
  BY <1>1 DEF Says, Calls

\* ... or stops serving a target.
LEMMA DropsType ==
  ASSUME NEW c \in Calls, NEW t
  PROVE  Drops(c, t) \in Calls /\ Drops(c, t).heard = c.heard
<1>1. [c.serving EXCEPT ![t] = 0] \in [Targets -> Nat]
  BY DEF Calls
<1> QED
  BY <1>1 DEF Drops, Calls

\* Every step of the backend.
LEMMA BackendSound ==
  ASSUME Sound(remote), Backend
  PROVE  Sound(remote')
<1>1. remote \in Remotes /\ remote.call \in Calls
  BY DEF Sound, Remotes
<1>2. CASE BackendAnswers
  <2> DEFINE q == Head(remote.call.requests)
             k == [remote.call EXCEPT !.requests = Tail(@)]
             c == Drops(k, q.target)
             a == Message("added", q.target, q.listen)
             e == Says(c, a)
             b == [e EXCEPT !.serving[q.target] = q.listen]
  <2>1. remote.call.requests \in Seq(Requests) /\ remote.call.requests # <<>>
    BY <1>1, <1>2 DEF Calls, BackendAnswers
  <2>2. q \in Requests /\ k \in Calls /\ k.heard = remote.call.heard
    <3>1. Tail(remote.call.requests) \in Seq(Requests) /\ q \in Requests
      BY <2>1
    <3> QED
      BY <1>1, <3>1 DEF Calls
  <2>3. remote.call # NoCall
    BY <2>1 DEF NoCall
  <2>4. \/ remote' = [remote EXCEPT !.call = Says(c, Message("removed", q.target, 0))]
        \/ remote' = [remote EXCEPT !.call = b]
        \/ remote' = [remote EXCEPT !.call = Says(c, Message("rejected", q.target, q.listen))]
    BY <1>2 DEF BackendAnswers
  <2> HIDE DEF q, k
  <2>5. c \in Calls /\ c.heard = remote.call.heard
    BY <2>2, DropsType
  <2>6. {a, Message("removed", q.target, 0), Message("rejected", q.target, q.listen)}
          \subseteq Messages
    BY <2>2 DEF Message, Messages, Sayings, Requests
  <2> HIDE DEF c, a
  <2>7. e \in Calls /\ e.heard = remote.call.heard
    BY <2>5, <2>6, SaysType
  <2> HIDE DEF e
  <2>8. b \in Calls /\ b.heard = remote.call.heard
    <3>1. [e.serving EXCEPT ![q.target] = q.listen] \in [Targets -> Nat]
      BY <2>2, <2>7 DEF Calls, Requests
    <3> QED
      BY <2>7, <3>1 DEF Calls
  <2> HIDE DEF b
  <2>9. CASE remote' = [remote EXCEPT !.call = Says(c, Message("removed", q.target, 0))]
    BY <1>1, <2>3, <2>5, <2>6, <2>9, SaysType, CallChanges
  <2>10. CASE remote' = [remote EXCEPT !.call = b]
    BY <1>1, <2>3, <2>8, <2>10, CallChanges
  <2>11. CASE remote' = [remote EXCEPT !.call = Says(c, Message("rejected", q.target, q.listen))]
    BY <1>1, <2>3, <2>5, <2>6, <2>11, SaysType, CallChanges
  <2> QED
    BY <2>4, <2>9, <2>10, <2>11
<1>3. ASSUME NEW t \in Targets, BackendCatchesUp(t)
      PROVE  Sound(remote')
  <2> DEFINE a == Message("current", t, remote.call.serving[t])
             e == Says(remote.call, a)
             b == [e EXCEPT !.caughtUp = @ \cup {t}, !.owes = TRUE]
  <2>1. a \in Messages
    BY <1>1 DEF Message, Messages, Sayings, Data, Calls
  <2>2. remote.call # NoCall
    BY <1>3 DEF BackendCatchesUp, NoCall, Zero
  <2>3. remote' = [remote EXCEPT !.call = b]
    BY <1>3 DEF BackendCatchesUp
  <2> HIDE DEF a
  <2>4. e \in Calls /\ e.heard = remote.call.heard
    BY <1>1, <2>1, SaysType
  <2> HIDE DEF e
  <2>5. b \in Calls /\ b.heard = remote.call.heard
    BY <2>4 DEF Calls
  <2> HIDE DEF b
  <2> QED
    BY <1>1, <2>2, <2>3, <2>5, CallChanges
<1>4. ASSUME NEW t \in Targets, NEW kind \in {"reset", "filter"}, BackendUpsets(t, kind)
      PROVE  Sound(remote')
  <2> DEFINE a == Message(kind, t, remote.call.serving[t])
             e == Says(remote.call, a)
             u == IF kind = "reset" THEN e.caughtUp \ {t} ELSE e.caughtUp
             b == [e EXCEPT !.caughtUp = u, !.owes = TRUE]
  <2>1. a \in Messages
    BY <1>1 DEF Message, Messages, Sayings, Data, Calls
  <2>2. remote.call # NoCall
    BY <1>4 DEF BackendUpsets, NoCall
  <2>3. remote' = [remote EXCEPT !.call = b]
    BY <1>4 DEF BackendUpsets
  <2> HIDE DEF a
  <2>4. e \in Calls /\ e.heard = remote.call.heard
    BY <1>1, <2>1, SaysType
  <2> HIDE DEF e
  <2>5. b \in Calls /\ b.heard = remote.call.heard
    BY <2>4 DEF Calls
  <2> HIDE DEF b
  <2> QED
    BY <1>1, <2>2, <2>3, <2>5, CallChanges
<1>5. ASSUME NEW t \in Targets, BackendExpels(t)
      PROVE  Sound(remote')
  <2> DEFINE a == Message("rejected", t, 0)
             d == Drops(remote.call, t)
             e == Says(d, a)
  <2>1. a \in Messages
    BY DEF Message, Messages, Sayings
  <2>2. remote.call # NoCall
    BY <1>5 DEF BackendExpels, NoCall, Zero
  <2>3. remote' = [remote EXCEPT !.call = e]
    BY <1>1, <1>5 DEF BackendExpels, Remotes
  <2> HIDE DEF a
  <2>4. d \in Calls /\ d.heard = remote.call.heard
    BY <1>1, DropsType
  <2> HIDE DEF d
  <2>5. e \in Calls /\ e.heard = remote.call.heard
    BY <2>1, <2>4, SaysType
  <2> HIDE DEF e
  <2> QED
    BY <1>1, <2>2, <2>3, <2>5, CallChanges
<1>6. CASE BackendSnapshot
  <2> DEFINE e == Says(remote.call, GlobalSnapshot)
             b == [e EXCEPT !.owes = FALSE]
  <2>1. GlobalSnapshot \in Messages
    BY DEF Messages
  <2>2. remote.call # NoCall
    BY <1>6 DEF BackendSnapshot, NoCall
  <2>3. remote' = [remote EXCEPT !.call = b]
    BY <1>1, <1>6 DEF BackendSnapshot, Remotes
  <2>4. e \in Calls /\ e.heard = remote.call.heard
    BY <1>1, <2>1, SaysType
  <2> HIDE DEF e
  <2>5. b \in Calls /\ b.heard = remote.call.heard
    BY <2>4 DEF Calls
  <2> HIDE DEF b
  <2> QED
    BY <1>1, <2>2, <2>3, <2>5, CallChanges
<1> QED
  BY <1>2, <1>3, <1>4, <1>5, <1>6 DEF Backend

-----------------------------------------------------------------------------
(* The invariant.                                                          *)

\* The inductive invariant.
IInv == Sound(remote)

\* It holds at first, ...
LEMMA InitSound == Init => IInv
<1> SUFFICES ASSUME Init PROVE IInv
  OBVIOUS
<1>1. Zero \in [Targets -> Nat] /\ Zero \in [Targets -> Int]
  BY DEF Zero
<1>2. Stopped \in Remotes
  BY <1>1, NoCallType DEF Stopped, Remotes
<1>3. Quiet(Stopped) /\ InStep(Stopped) /\ Needed(Stopped)
  BY NoCallType DEF Stopped, Quiet, InStep, Needed, IsStarted
<1> QED
  BY <1>2, <1>3 DEF Init, IInv, Sound

\* ... every step keeps it, ...
LEMMA StepSound == IInv /\ [Next]_vars => IInv'
<1> SUFFICES ASSUME Sound(remote), [Next]_vars PROVE Sound(remote')
  BY DEF IInv
<1>1. remote \in Remotes
  BY DEF Sound
<1>2. ASSUME NEW t \in Targets, Listen(t) PROVE Sound(remote')
  BY <1>1, <1>2, ListenedSound DEF Listen
<1>3. ASSUME NEW t \in Targets, StopListening(t) PROVE Sound(remote')
  BY <1>1, <1>3, StoppedListeningSound DEF StopListening
<1>4. CASE OnStreamOpen
  BY <1>1, <1>4, OpenedSound DEF OnStreamOpen
<1>5. CASE OnStreamClose
  BY <1>1, <1>5, BrokenSound DEF OnStreamClose
<1>6. CASE RestartNetwork
  BY <1>1, <1>6, RestartSound DEF RestartNetwork
<1>7. CASE OnWatchStreamChange
  BY <1>7, ReadSound
<1>8. CASE BackoffElapses
  <2> DEFINE s == [remote EXCEPT !.state = "starting"]
  <2>1. /\ s \in Remotes /\ s.state = "starting" /\ s.listens = remote.listens
        /\ s.idle = remote.idle /\ s.call = remote.call /\ s.pending = remote.pending
        /\ s.current = remote.current /\ s.resets = remote.resets
        /\ s.online = remote.online /\ s.failures = remote.failures /\ s.timer = remote.timer
    BY <1>1 DEF Remotes
  <2>2. remote' = s /\ remote.state = "backoff"
    BY <1>8 DEF BackoffElapses
  <2> HIDE DEF s
  <2> QED
    BY <2>1, <2>2 DEF Sound, Quiet, InStep, Needed, IsStarted
<1>9. CASE IdleElapses
  <2> DEFINE s == Gracefully(remote)
  <2>1. /\ s \in Remotes /\ s.listens = remote.listens /\ s.state \in {"initial", "error"}
        /\ s.call = NoCall /\ s.pending = Zero /\ s.current = {} /\ s.resets = {}
        /\ ~s.idle /\ s.online # "online" /\ ~s.timer
        /\ (s.failures # 0 => s.online = "offline")
    BY <1>1, GracefullyStops
  <2>2. remote' = s /\ remote.listens = {}
    BY <1>9 DEF IdleElapses, Sound, Needed
  <2> HIDE DEF s
  <2> QED
    BY <2>1, <2>2, NoCallType DEF Sound, Quiet, InStep, Needed
<1>10. CASE OnlineStateTimeout
  <2> DEFINE s == [remote EXCEPT !.timer = FALSE, !.online = "offline"]
  <2>1. /\ s \in Remotes /\ s.state = remote.state /\ s.listens = remote.listens
        /\ s.idle = remote.idle /\ s.call = remote.call /\ s.pending = remote.pending
        /\ s.current = remote.current /\ s.resets = remote.resets
        /\ s.online = "offline" /\ s.failures = remote.failures /\ ~s.timer
    BY <1>1 DEF Remotes
  <2>2. remote' = s /\ remote.timer
    BY <1>10 DEF OnlineStateTimeout
  <2> HIDE DEF s
  <2> QED
    BY <2>1, <2>2 DEF Sound, Quiet, InStep, Needed, IsStarted
<1>11. CASE Backend
  BY <1>11, BackendSound
<1>12. CASE UNCHANGED vars
  BY <1>12 DEF vars
<1> QED
  BY <1>2, <1>3, <1>4, <1>5, <1>6, <1>7, <1>8, <1>9, <1>10, <1>11, <1>12
  DEF Next, App, Network, Timers

\* ... so it always holds.
LEMMA AlwaysSound == Spec => []IInv
  BY InitSound, StepSound, PTL DEF Spec

\* TypeOK: a stream that is not open has no call, and nothing counted or current,
\* whatever has been listened to, broken or restarted before.
THEOREM TypesHold == Spec => []TypeOK
<1>1. IInv => TypeOK
  BY DEF IInv, Sound, Quiet, Remotes, TypeOK
<1> QED
  BY <1>1, AlwaysSound, PTL

\* TrackerInStep: the online state agrees with the call there is, and the hard
\* assertions of OnlineStateTracker hold.
THEOREM TrackerKeepsStep == Spec => []TrackerInStep
<1>1. IInv => TrackerInStep
  BY DEF IInv, Sound, InStep, TrackerInStep
<1> QED
  BY <1>1, AlwaysSound, PTL

\* RunsWhenNeeded: the stream is started whenever a target is listened to, and the
\* idle timer only waits on an open stream without targets.
THEOREM StreamRuns == Spec => []RunsWhenNeeded
<1>1. IInv => RunsWhenNeeded
  BY DEF IInv, Sound, Needed, RunsWhenNeeded
<1> QED
  BY <1>1, AlwaysSound, PTL

-----------------------------------------------------------------------------
(* The last element of a sequence in a set A, and how many there are.      *)

\* The indices of s at which an element of A is; how many; none; and the last one.
Of(s, A) == {k \in DOMAIN s : s[k] \in A}
Count(s, A) == Cardinality(Of(s, A))
Free(s, A) == \A k \in DOMAIN s : s[k] \notin A
Final(s, A) == {s[k] : k \in {k \in Of(s, A) : \A j \in Of(s, A) : j <= k}}

\* A sequence followed by another.
LEMMA JoinIs ==
  ASSUME NEW S, NEW p \in Seq(S), NEW q \in Seq(S)
  PROVE  /\ p \o q \in Seq(S) /\ Len(p) \in Nat
         /\ \A k \in DOMAIN p :
              k \in DOMAIN (p \o q) /\ (p \o q)[k] = p[k] /\ k <= Len(p) /\ k \in Nat
         /\ \A k \in DOMAIN q :
              /\ Len(p) + k \in DOMAIN (p \o q) /\ (p \o q)[Len(p) + k] = q[k]
              /\ k > 0 /\ k \in Nat
         /\ \A k \in DOMAIN (p \o q) :
              \/ k \in DOMAIN p
              \/ k - Len(p) \in DOMAIN q /\ Len(p) + (k - Len(p)) = k /\ k > Len(p)
         /\ DOMAIN (p \o q) \subseteq Nat
  OBVIOUS

\* A sequence with one more element.
LEMMA AppendIs ==
  ASSUME NEW S, NEW p \in Seq(S), NEW b \in S
  PROVE  /\ <<b>> \in Seq(S) /\ Append(p, b) = p \o <<b>> /\ Append(p, b) \in Seq(S)
         /\ Len(p) \in Nat /\ DOMAIN p = 1..Len(p)
         /\ \A k \in DOMAIN p : k \in DOMAIN Append(p, b) /\ Append(p, b)[k] = p[k] /\ k < Len(p) + 1
         /\ Len(p) + 1 \in DOMAIN Append(p, b) /\ Append(p, b)[Len(p) + 1] = b
         /\ \A k \in DOMAIN Append(p, b) : k \in DOMAIN p \/ k = Len(p) + 1
  OBVIOUS

\* The first element and the rest of a sequence.
LEMMA TailIs ==
  ASSUME NEW S, NEW p \in Seq(S), p # <<>>
  PROVE  /\ Tail(p) \in Seq(S) /\ Head(p) \in S /\ Head(p) = p[1] /\ 1 \in DOMAIN p
         /\ p = <<Head(p)>> \o Tail(p) /\ <<Head(p)>> \in Seq(S)
         /\ \A k \in DOMAIN Tail(p) : k + 1 \in DOMAIN p /\ Tail(p)[k] = p[k + 1] /\ k + 1 # 1
         /\ \A k \in DOMAIN p : k # 1 => k - 1 \in DOMAIN Tail(p) /\ (k - 1) + 1 = k
         /\ DOMAIN p \subseteq Nat /\ DOMAIN Tail(p) \subseteq Nat
  OBVIOUS

\* A set of naturals has a least element, ...
LEMMA LeastIs ==
  ASSUME NEW I \in SUBSET Nat, I # {}
  PROVE  \E x \in I : \A y \in I : x <= y
<1> DEFINE R == {p \in Nat \X Nat : p[1] < p[2]}
<1>1. IsWellFoundedOn(R, Nat)
  <2>1. R = OpToRel(<, Nat)
    BY DEF OpToRel
  <2> QED
    BY <2>1, NatLessThanWellFounded
<1>2. \A x, y \in Nat : <<y, x>> \notin R => x <= y
  OBVIOUS
<1> HIDE DEF R
<1>3. PICK x \in I : \A y \in I : <<y, x>> \notin R
  BY <1>1, WFMin
<1>4. \A y \in I : x <= y
  BY <1>2, <1>3
<1> QED
  BY <1>4

\* ... and the indices of a sequence have a greatest.
LEMMA GreatestIs ==
  ASSUME NEW S, NEW s \in Seq(S), NEW K \in SUBSET DOMAIN s, K # {}
  PROVE  \E k \in K : \A j \in K : j <= k
<1> DEFINE D == {Len(s) - k : k \in K}
<1>1. Len(s) \in Nat /\ K \subseteq 1..Len(s)
  OBVIOUS
<1>2. D # {} /\ D \subseteq Nat
  BY <1>1
<1> HIDE DEF D
<1>3. PICK d \in D : \A e \in D : d <= e
  BY <1>2, LeastIs
<1>4. PICK k \in K : d = Len(s) - k
  BY DEF D
<1>5. \A j \in K : Len(s) - j \in D
  BY DEF D
<1>6. \A j \in K : j <= k
  BY <1>1, <1>3, <1>4, <1>5
<1> QED
  BY <1>6

\* There is no last one exactly if there is none.
LEMMA FinalIs ==
  ASSUME NEW S, NEW s \in Seq(S), NEW A
  PROVE  Final(s, A) = {} <=> Free(s, A)
<1>1. Of(s, A) # {} => Final(s, A) # {}
  <2>1. Of(s, A) \in SUBSET DOMAIN s
    BY DEF Of
  <2> QED
    BY <2>1, GreatestIs DEF Final
<1> QED
  BY <1>1 DEF Final, Free, Of

\* The last one of two sequences.
LEMMA FinalJoin ==
  ASSUME NEW S, NEW p \in Seq(S), NEW q \in Seq(S), NEW A
  PROVE  /\ Free(p \o q, A) <=> Free(p, A) /\ Free(q, A)
         /\ Final(p \o q, A) = IF Free(q, A) THEN Final(p, A) ELSE Final(q, A)
<1> DEFINE n == p \o q
<1>1. /\ n \in Seq(S) /\ Len(p) \in Nat
      /\ \A k \in DOMAIN p : k \in DOMAIN n /\ n[k] = p[k] /\ k <= Len(p) /\ k \in Nat
      /\ \A k \in DOMAIN q : Len(p) + k \in DOMAIN n /\ n[Len(p) + k] = q[k] /\ k > 0 /\ k \in Nat
      /\ \A k \in DOMAIN n :
           k \in DOMAIN p \/ (k - Len(p) \in DOMAIN q /\ Len(p) + (k - Len(p)) = k /\ k > Len(p))
      /\ DOMAIN n \subseteq Nat
  BY JoinIs
<1> HIDE DEF n
<1>2. Free(n, A) <=> Free(p, A) /\ Free(q, A)
  <2>1. Free(p, A) /\ Free(q, A) => Free(n, A)
    <3> SUFFICES ASSUME Free(p, A), Free(q, A), NEW k \in DOMAIN n PROVE n[k] \notin A
      BY DEF Free
    <3> QED
      BY <1>1 DEF Free
  <2>2. Free(n, A) => Free(p, A) /\ Free(q, A)
    BY <1>1 DEF Free
  <2> QED
    BY <2>1, <2>2
<1>3. CASE Free(q, A)
  <2>1. Of(n, A) = Of(p, A)
    BY <1>1, <1>3 DEF Of, Free
  <2>2. \A k \in Of(p, A) : n[k] = p[k]
    BY <1>1 DEF Of
  <2> QED
    BY <1>2, <1>3, <2>1, <2>2 DEF Final, n
<1>4. CASE ~Free(q, A)
  <2>1. PICK i \in Of(q, A) : TRUE
    BY <1>4 DEF Free, Of
  <2>2. \A k \in Of(q, A) : Len(p) + k \in Of(n, A) /\ n[Len(p) + k] = q[k] /\ k > 0 /\ k \in Nat
    BY <1>1 DEF Of
  <2>3. \A k \in Of(n, A) : k \in Nat /\ (k <= Len(p) \/ k - Len(p) \in Of(q, A))
    BY <1>1 DEF Of
  <2>4. ASSUME NEW k \in Of(n, A), \A j \in Of(n, A) : j <= k
        PROVE  n[k] \in Final(q, A)
    <3>1. k - Len(p) \in Of(q, A) /\ Len(p) + (k - Len(p)) = k
      BY <1>1, <2>1, <2>2, <2>3, <2>4
    <3>2. \A j \in Of(q, A) : j <= k - Len(p)
      <4> SUFFICES ASSUME NEW j \in Of(q, A) PROVE j <= k - Len(p)
        OBVIOUS
      <4>1. Len(p) + j <= k /\ j \in Nat /\ k \in Nat
        BY <2>2, <2>3, <2>4
      <4> QED
        BY <1>1, <4>1
    <3>3. n[k] = q[k - Len(p)]
      BY <2>2, <3>1
    <3> QED
      BY <3>1, <3>2, <3>3 DEF Final
  <2>5. ASSUME NEW k \in Of(q, A), \A j \in Of(q, A) : j <= k
        PROVE  q[k] \in Final(n, A)
    <3>1. Len(p) + k \in Of(n, A) /\ n[Len(p) + k] = q[k] /\ k \in Nat /\ k > 0
      BY <2>2, <2>5
    <3>2. \A j \in Of(n, A) : j <= Len(p) + k
      <4> SUFFICES ASSUME NEW j \in Of(n, A) PROVE j <= Len(p) + k
        OBVIOUS
      <4>1. j \in Nat /\ (j <= Len(p) \/ j - Len(p) <= k)
        BY <2>3, <2>5
      <4> QED
        BY <1>1, <3>1, <4>1
    <3> QED
      BY <3>1, <3>2 DEF Final
  <2>6. Final(n, A) = Final(q, A)
    BY <2>4, <2>5 DEF Final
  <2> QED
    BY <1>2, <1>4, <2>6 DEF n
<1> QED
  BY <1>3, <1>4

\* The last one of a single element.
LEMMA FinalOne ==
  ASSUME NEW S, NEW x \in S, NEW A
  PROVE  /\ Free(<<x>>, A) <=> x \notin A
         /\ Final(<<x>>, A) = IF x \in A THEN {x} ELSE {}
<1>1. DOMAIN <<x>> = {1} /\ <<x>>[1] = x
  OBVIOUS
<1>2. Of(<<x>>, A) = IF x \in A THEN {1} ELSE {}
  BY <1>1 DEF Of
<1>3. 1 <= 1
  OBVIOUS
<1> QED
  BY <1>1, <1>2, <1>3 DEF Free, Final

\* With one more at the end, ...
LEMMA FinalAppend ==
  ASSUME NEW S, NEW s \in Seq(S), NEW x \in S, NEW A
  PROVE  /\ Free(Append(s, x), A) <=> Free(s, A) /\ x \notin A
         /\ Final(Append(s, x), A) = IF x \in A THEN {x} ELSE Final(s, A)
<1>1. Append(s, x) = s \o <<x>> /\ <<x>> \in Seq(S)
  BY AppendIs
<1>2. /\ Free(s \o <<x>>, A) <=> Free(s, A) /\ Free(<<x>>, A)
      /\ Final(s \o <<x>>, A) = IF Free(<<x>>, A) THEN Final(s, A) ELSE Final(<<x>>, A)
  BY <1>1, FinalJoin
<1>3. (Free(<<x>>, A) <=> x \notin A) /\ Final(<<x>>, A) = IF x \in A THEN {x} ELSE {}
  BY FinalOne
<1> QED
  BY <1>1, <1>2, <1>3

\* ... and without the first.
LEMMA FinalTail ==
  ASSUME NEW S, NEW s \in Seq(S), s # <<>>, NEW A
  PROVE  /\ Free(s, A) <=> Head(s) \notin A /\ Free(Tail(s), A)
         /\ ~Free(Tail(s), A) => Final(s, A) = Final(Tail(s), A)
         /\ Free(Tail(s), A) => Final(s, A) = IF Head(s) \in A THEN {Head(s)} ELSE {}
<1> DEFINE h == Head(s)
           t == Tail(s)
<1>1. s = <<h>> \o t /\ <<h>> \in Seq(S) /\ t \in Seq(S) /\ h \in S
  BY TailIs
<1> HIDE DEF h, t
<1>2. /\ Free(s, A) <=> Free(<<h>>, A) /\ Free(t, A)
      /\ Final(s, A) = IF Free(t, A) THEN Final(<<h>>, A) ELSE Final(t, A)
  BY <1>1, FinalJoin
<1>3. (Free(<<h>>, A) <=> h \notin A) /\ Final(<<h>>, A) = IF h \in A THEN {h} ELSE {}
  BY <1>1, FinalOne
<1> QED
  BY <1>2, <1>3 DEF h, t

\* How many there are in a sequence, ...
LEMMA CountIs ==
  ASSUME NEW S, NEW s \in Seq(S), NEW A
  PROVE  /\ Count(s, A) \in Nat /\ IsFiniteSet(Of(s, A))
         /\ Count(s, A) = 0 <=> Free(s, A)
<1>1. Len(s) \in Nat /\ DOMAIN s = 1..Len(s)
  OBVIOUS
<1>2. IsFiniteSet(1..Len(s))
  BY <1>1, FS_Interval
<1>3. IsFiniteSet(Of(s, A))
  BY <1>1, <1>2, FS_Subset DEF Of
<1>4. Cardinality(Of(s, A)) = 0 <=> Of(s, A) = {}
  BY <1>3, FS_EmptySet
<1> QED
  BY <1>3, <1>4, FS_CardinalityType DEF Count, Of, Free

\* ... in two, ...
LEMMA CountJoin ==
  ASSUME NEW S, NEW p \in Seq(S), NEW q \in Seq(S), NEW A
  PROVE  Count(p \o q, A) = Count(p, A) + Count(q, A)
<1> DEFINE n == p \o q
           f == [k \in Of(q, A) |-> Len(p) + k]
           T == {Len(p) + k : k \in Of(q, A)}
<1>1. /\ Len(p) \in Nat /\ DOMAIN n \subseteq Nat
      /\ \A k \in DOMAIN p : k \in DOMAIN n /\ n[k] = p[k] /\ k <= Len(p) /\ k \in Nat
      /\ \A k \in DOMAIN q : Len(p) + k \in DOMAIN n /\ n[Len(p) + k] = q[k] /\ k > 0 /\ k \in Nat
      /\ \A k \in DOMAIN n :
           k \in DOMAIN p \/ (k - Len(p) \in DOMAIN q /\ Len(p) + (k - Len(p)) = k /\ k > Len(p))
  BY JoinIs
<1> HIDE DEF n
<1>2. Of(n, A) = Of(p, A) \cup T
  <2>1. Of(p, A) \cup T \subseteq Of(n, A)
    BY <1>1 DEF Of
  <2>2. ASSUME NEW k \in Of(n, A), k \notin Of(p, A)
        PROVE  k \in T
    <3>1. k - Len(p) \in DOMAIN q /\ Len(p) + (k - Len(p)) = k
      BY <1>1, <2>2 DEF Of
    <3>2. k - Len(p) \in Of(q, A)
      BY <1>1, <2>2, <3>1 DEF Of
    <3> QED
      BY <3>1, <3>2
  <2> QED
    BY <2>1, <2>2
<1>3. Of(p, A) \cap T = {}
  BY <1>1 DEF Of
<1>4. IsFiniteSet(Of(p, A)) /\ IsFiniteSet(Of(q, A))
  BY CountIs
<1>5. IsFiniteSet(T) /\ Cardinality(T) = Cardinality(Of(q, A))
  <2>1. f \in [Of(q, A) -> T] /\ \A t \in T : \E k \in Of(q, A) : f[k] = t
    OBVIOUS
  <2>2. \A j, k \in Of(q, A) : f[j] = f[k] => j = k
    BY <1>1 DEF Of
  <2>3. f \in Bijection(Of(q, A), T)
    BY <2>1, <2>2 DEF Bijection, Injection, Surjection, IsInjective
  <2> HIDE DEF f, T
  <2> QED
    BY <1>4, <2>3, FS_Bijection DEF ExistsBijection
<1> HIDE DEF T
<1>6. Cardinality(Of(p, A) \cup T) = Cardinality(Of(p, A)) + Cardinality(T) - 0
  <2>1. Cardinality(Of(p, A) \cap T) = 0
    BY <1>3, FS_EmptySet
  <2> QED
    BY <1>4, <1>5, <2>1, FS_Union
<1>7. Count(p, A) \in Nat /\ Count(q, A) \in Nat
  BY CountIs
<1> QED
  BY <1>2, <1>5, <1>6, <1>7 DEF Count, n

\* ... in a single element, ...
LEMMA CountOne ==
  ASSUME NEW S, NEW x \in S, NEW A
  PROVE  Count(<<x>>, A) = IF x \in A THEN 1 ELSE 0
<1>1. DOMAIN <<x>> = {1} /\ <<x>>[1] = x
  OBVIOUS
<1>2. Of(<<x>>, A) = IF x \in A THEN {1} ELSE {}
  BY <1>1 DEF Of
<1> QED
  BY <1>2, FS_EmptySet, FS_Singleton DEF Count

\* ... with one more, and without the first.
LEMMA CountAppend ==
  ASSUME NEW S, NEW s \in Seq(S), NEW x \in S, NEW A
  PROVE  Count(Append(s, x), A) = Count(s, A) + (IF x \in A THEN 1 ELSE 0)
<1>1. Append(s, x) = s \o <<x>> /\ <<x>> \in Seq(S)
  BY AppendIs
<1>2. Count(s \o <<x>>, A) = Count(s, A) + Count(<<x>>, A)
  BY <1>1, CountJoin
<1>3. Count(<<x>>, A) = IF x \in A THEN 1 ELSE 0
  BY CountOne
<1> QED
  BY <1>1, <1>2, <1>3

\* The rest of the count.
LEMMA CountTail ==
  ASSUME NEW S, NEW s \in Seq(S), s # <<>>, NEW A
  PROVE  Count(s, A) = Count(Tail(s), A) + (IF Head(s) \in A THEN 1 ELSE 0)
<1> DEFINE h == Head(s)
           t == Tail(s)
<1>1. s = <<h>> \o t /\ <<h>> \in Seq(S) /\ t \in Seq(S) /\ h \in S
  BY TailIs
<1> HIDE DEF h, t
<1>2. Count(s, A) = Count(<<h>>, A) + Count(t, A)
  <2>1. Count(<<h>> \o t, A) = Count(<<h>>, A) + Count(t, A)
    BY <1>1, CountJoin, Zenon
  <2> QED
    BY <1>1, <2>1
<1>3. Count(<<h>>, A) = IF h \in A THEN 1 ELSE 0
  BY <1>1, CountOne
<1>4. Count(t, A) \in Nat
  BY <1>1, CountIs
<1>5. Count(s, A) = Count(t, A) + (IF h \in A THEN 1 ELSE 0)
  BY <1>2, <1>3, <1>4
<1> QED
  BY <1>5 DEF h, t

-----------------------------------------------------------------------------
(* What is under way about a target t: requests q, messages m; the backend *)
(* serves listen s of it, the client's latest is n, b is whether it is     *)
(* listened to and p the count of outstanding responses.                   *)

\* Requests for t; the backend's words on it, the answers among them; data of it.
Asks(t)    == {x \in Requests : x.target = t}
Words(t)   == {x \in Sayings : x.target = t /\ x.kind \in {"added", "removed", "rejected"}}
Answers(t) == {x \in Words(t) : x.kind = "rejected" => x.listen # 0}
DataOf(t)  == {x \in Sayings : x.target = t /\ x.kind \in Data}

\* The last word of the client under way, or if there is none the last one of the
\* backend, or else what it serves, says whether the target is listened to.
Told(q, m, s, b, t) ==
  /\ \A x \in Final(q, Asks(t)) : b <=> x.kind = "watch"
  /\ Free(q, Asks(t)) =>
       /\ \A x \in Final(m, Words(t)) : b <=> x.kind # "removed"
       /\ Free(m, Words(t)) => (b <=> s # 0)

\* The backend serves what its last word says; and between a word and an expulsion,
\* which answers no request, it has said that it serves the target.
Stops(m, s, t) ==
  /\ \A x \in Final(m, Words(t)) : s # 0 <=> x.kind = "added"
  /\ \A j, k \in DOMAIN m :
       j < k /\ m[j] \in Words(t) /\ m[k] \in Words(t) \ Answers(t) =>
         \E i \in DOMAIN m : j <= i /\ i < k /\ m[i] \in Words(t) /\ m[i].kind = "added"

\* If no request is under way, what is served, and sent with no answer behind it, is
\* the latest listen; otherwise the last request is.
Numbers(q, m, s, n, t) ==
  /\ Free(q, Asks(t)) =>
       /\ s # 0 => s = n
       /\ \A k \in DOMAIN m :
            m[k] \in DataOf(t) /\ (\A j \in DOMAIN m : j > k => m[j] \notin Answers(t)) =>
              m[k].listen = n
  /\ \A x \in Final(q, Asks(t)) : x.kind = "watch" => x.listen = n
  /\ \A k \in DOMAIN q : q[k] \in Asks(t) /\ q[k].kind = "watch" => q[k].listen # 0

\* What holds in any case, and what else unless a rejection crossed a request.
Linked(q, m, s, n, t)     == Stops(m, s, t) /\ Numbers(q, m, s, n, t)
Trusted(q, m, s, b, p, t) == /\ Told(q, m, s, b, t)
                             /\ p = Count(q, Asks(t)) + Count(m, Answers(t))

\* The kinds of messages are apart.
LEMMA KindsApart ==
  ASSUME NEW t
  PROVE  /\ Answers(t) \subseteq Words(t) /\ Words(t) \cap DataOf(t) = {}
         /\ \A x \in Words(t) : x.kind \in {"added", "removed", "rejected"}
         /\ \A x \in Words(t) : x.kind # "rejected" => x \in Answers(t)
         /\ \A x \in Words(t) \ Answers(t) : x.kind = "rejected"
         /\ \A x \in Asks(t) : x.kind \in {"watch", "unwatch"}
  BY DEF Answers, Words, DataOf, Data, Asks, Requests

\* Requests for other targets make no difference.
LEMMA AskNone ==
  ASSUME NEW t, NEW q \in Seq(Requests), NEW y \in Seq(Requests), Free(y, Asks(t)),
         NEW m, NEW s, NEW n
  PROVE  /\ Linked(q, m, s, n, t) => Linked(q \o y, m, s, n, t)
         /\ \A b, p : Trusted(q, m, s, b, p, t) => Trusted(q \o y, m, s, b, p, t)
<1> DEFINE r == q \o y
<1>1. /\ Free(r, Asks(t)) <=> Free(q, Asks(t))
      /\ Final(r, Asks(t)) = Final(q, Asks(t))
  BY FinalJoin
<1>2. Count(r, Asks(t)) = Count(q, Asks(t))
  <2>1. Count(q, Asks(t)) \in Nat /\ Count(y, Asks(t)) = 0
    BY CountIs
  <2>2. Count(r, Asks(t)) = Count(q, Asks(t)) + Count(y, Asks(t))
    BY CountJoin
  <2> QED
    BY <2>1, <2>2
<1>3. \A k \in DOMAIN r : r[k] \in Asks(t) => \E j \in DOMAIN q : r[k] = q[j]
  <2>1. \A k \in DOMAIN r :
          \/ k \in DOMAIN q
          \/ k - Len(q) \in DOMAIN y /\ Len(q) + (k - Len(q)) = k
    BY JoinIs
  <2>2. \A k \in DOMAIN q : r[k] = q[k]
    BY JoinIs
  <2>3. \A k \in DOMAIN y : r[Len(q) + k] = y[k]
    BY JoinIs
  <2> HIDE DEF r
  <2> QED
    BY <2>1, <2>2, <2>3 DEF Free
<1> HIDE DEF r
<1>4. Linked(q, m, s, n, t) => Linked(r, m, s, n, t)
  BY <1>1, <1>3 DEF Linked, Numbers
<1>5. \A b, p : Trusted(q, m, s, b, p, t) => Trusted(r, m, s, b, p, t)
  BY <1>1, <1>2 DEF Trusted, Told
<1> QED
  BY <1>4, <1>5 DEF r

\* Requests for the target: the last of them says what is listened to.
LEMMA AskSome ==
  ASSUME NEW t, NEW q \in Seq(Requests), NEW y \in Seq(Requests),
         NEW m \in Seq(Messages), NEW s, NEW n, NEW l,
         NEW x \in Asks(t), Final(y, Asks(t)) = {x}, x.kind = "watch" => x.listen = l,
         \A k \in DOMAIN y : y[k] \in Asks(t) /\ y[k].kind = "watch" => y[k].listen # 0,
         Linked(q, m, s, n, t)
  PROVE  /\ Linked(q \o y, m, s, l, t)
         /\ \A b, p : /\ b <=> x.kind = "watch"
                      /\ p = Count(q, Asks(t)) + Count(m, Answers(t)) + Count(y, Asks(t))
                      => Trusted(q \o y, m, s, b, p, t)
<1> DEFINE r == q \o y
<1>1. ~Free(y, Asks(t))
  BY FinalIs
<1>2. ~Free(r, Asks(t)) /\ Final(r, Asks(t)) = {x}
  BY <1>1, FinalJoin
<1>3. /\ Count(r, Asks(t)) = Count(q, Asks(t)) + Count(y, Asks(t))
      /\ Count(q, Asks(t)) \in Nat /\ Count(y, Asks(t)) \in Nat /\ Count(m, Answers(t)) \in Nat
  BY CountJoin, CountIs
<1>4. \A k \in DOMAIN r : r[k] \in Asks(t) /\ r[k].kind = "watch" => r[k].listen # 0
  <2>1. \A k \in DOMAIN r :
          \/ k \in DOMAIN q
          \/ k - Len(q) \in DOMAIN y /\ Len(q) + (k - Len(q)) = k
    BY JoinIs
  <2>2. \A k \in DOMAIN q : r[k] = q[k]
    BY JoinIs
  <2>3. \A k \in DOMAIN y : r[Len(q) + k] = y[k]
    BY JoinIs
  <2> HIDE DEF r
  <2>4. \A k \in DOMAIN q : q[k] \in Asks(t) /\ q[k].kind = "watch" => q[k].listen # 0
    BY DEF Linked, Numbers
  <2> QED
    BY <2>1, <2>2, <2>3, <2>4
<1> HIDE DEF r
<1>5. Linked(r, m, s, l, t)
  BY <1>2, <1>4 DEF Linked, Numbers
<1>6. ASSUME NEW b, NEW p, b <=> x.kind = "watch",
             p = Count(q, Asks(t)) + Count(m, Answers(t)) + Count(y, Asks(t))
      PROVE  Trusted(r, m, s, b, p, t)
  <2>1. p = Count(r, Asks(t)) + Count(m, Answers(t))
    BY <1>3, <1>6
  <2> QED
    BY <1>2, <1>6, <2>1 DEF Trusted, Told
<1> QED
  BY <1>5, <1>6 DEF r

\* A message that is no word about the target, and no data of another listen.
LEMMA SaysElse ==
  ASSUME NEW t, NEW q, NEW m \in Seq(Messages), NEW x \in Messages, NEW s \in Nat, NEW n,
         x \notin Words(t), x \in DataOf(t) => x.listen = s /\ s # 0
  PROVE  /\ Linked(q, m, s, n, t) => Linked(q, Append(m, x), s, n, t)
         /\ \A b, p : Trusted(q, m, s, b, p, t) => Trusted(q, Append(m, x), s, b, p, t)
<1> DEFINE w == Append(m, x)
<1>1. /\ Free(w, Words(t)) <=> Free(m, Words(t))
      /\ Final(w, Words(t)) = Final(m, Words(t))
  BY FinalAppend
<1>2. Count(w, Answers(t)) = Count(m, Answers(t))
  <2>1. Count(m, Answers(t)) \in Nat
    BY CountIs
  <2>2. x \notin Answers(t)
    BY KindsApart
  <2>3. Count(w, Answers(t)) = Count(m, Answers(t)) + (IF x \in Answers(t) THEN 1 ELSE 0)
    BY CountAppend
  <2> QED
    BY <2>1, <2>2, <2>3
<1>3. /\ Len(m) \in Nat /\ DOMAIN m = 1..Len(m)
      /\ \A k \in DOMAIN m : k \in DOMAIN w /\ w[k] = m[k] /\ k < Len(m) + 1
      /\ Len(m) + 1 \in DOMAIN w /\ w[Len(m) + 1] = x
      /\ \A k \in DOMAIN w : k \in DOMAIN m \/ k = Len(m) + 1
  BY AppendIs
<1> HIDE DEF w
<1>4. Stops(m, s, t) => Stops(w, s, t)
  BY <1>1, <1>3 DEF Stops
<1>5. Numbers(q, m, s, n, t) => Numbers(q, w, s, n, t)
  <2> SUFFICES ASSUME Numbers(q, m, s, n, t), Free(q, Asks(t)), NEW k \in DOMAIN w, w[k] \in DataOf(t),
                      \A j \in DOMAIN w : j > k => w[j] \notin Answers(t)
               PROVE  w[k].listen = n
    BY DEF Numbers
  <2>1. s # 0 => s = n
    BY DEF Numbers
  <2>2. CASE k = Len(m) + 1
    BY <1>3, <2>1, <2>2
  <2>3. CASE k \in DOMAIN m
    <3>1. \A j \in DOMAIN m : j > k => m[j] \notin Answers(t)
      BY <1>3
    <3> QED
      BY <1>3, <2>3, <3>1 DEF Numbers
  <2> QED
    BY <1>3, <2>2, <2>3
<1>6. \A b, p : Trusted(q, m, s, b, p, t) => Trusted(q, w, s, b, p, t)
  BY <1>1, <1>2 DEF Trusted, Told
<1> QED
  BY <1>4, <1>5, <1>6 DEF Linked, w

\* The last word about a target, if there is one, is there to be found.
LEMMA LastWord ==
  ASSUME NEW S, NEW m \in Seq(S), NEW A, ~Free(m, A)
  PROVE  \E i \in DOMAIN m : /\ m[i] \in A /\ m[i] \in Final(m, A)
                             /\ \A j \in DOMAIN m : m[j] \in A => j <= i
<1>1. PICK x \in Final(m, A) : TRUE
  BY FinalIs
<1> QED
  BY <1>1 DEF Final, Of

\* The backend expels a target it serves.
LEMMA Expelled ==
  ASSUME NEW t, NEW q, NEW m \in Seq(Messages), NEW s \in Nat, s # 0, NEW n,
         NEW x \in Messages, x \in Words(t) \ Answers(t)
  PROVE  /\ Linked(q, m, s, n, t) => Linked(q, Append(m, x), 0, n, t)
         /\ \A b, p : Linked(q, m, s, n, t) /\ Trusted(q, m, s, b, p, t) =>
                        Trusted(q, Append(m, x), 0, b, p, t)
<1> DEFINE w == Append(m, x)
<1>0. x.kind = "rejected"
  BY KindsApart
<1>1. ~Free(w, Words(t)) /\ Final(w, Words(t)) = {x}
  BY FinalAppend
<1>2. Count(w, Answers(t)) = Count(m, Answers(t))
  <2>1. Count(m, Answers(t)) \in Nat
    BY CountIs
  <2>2. Count(w, Answers(t)) = Count(m, Answers(t)) + (IF x \in Answers(t) THEN 1 ELSE 0)
    BY CountAppend
  <2> QED
    BY <2>1, <2>2
<1>3. /\ Len(m) \in Nat /\ DOMAIN m = 1..Len(m)
      /\ \A k \in DOMAIN m : k \in DOMAIN w /\ w[k] = m[k] /\ k < Len(m) + 1
      /\ Len(m) + 1 \in DOMAIN w /\ w[Len(m) + 1] = x
      /\ \A k \in DOMAIN w : k \in DOMAIN m \/ k = Len(m) + 1
  BY AppendIs
<1> HIDE DEF w
<1>4. ASSUME Stops(m, s, t) PROVE Stops(w, 0, t)
  <2> SUFFICES ASSUME NEW j \in DOMAIN w, NEW k \in DOMAIN w,
                      j < k, w[j] \in Words(t), w[k] \in Words(t) \ Answers(t)
               PROVE  \E i \in DOMAIN w : j <= i /\ i < k /\ w[i] \in Words(t) /\ w[i].kind = "added"
    BY <1>0, <1>1 DEF Stops
  <2>1. j \in DOMAIN m
    BY <1>3
  <2>2. CASE k \in DOMAIN m
    BY <1>3, <1>4, <2>1, <2>2 DEF Stops
  <2>3. CASE k = Len(m) + 1
    <3>1. ~Free(m, Words(t)) /\ m[j] \in Words(t)
      BY <1>3, <2>1 DEF Free
    <3>2. PICK i \in DOMAIN m : /\ m[i] \in Words(t) /\ m[i] \in Final(m, Words(t))
                                /\ \A h \in DOMAIN m : m[h] \in Words(t) => h <= i
      BY <3>1, LastWord
    <3>3. m[i].kind = "added"
      BY <1>4, <3>2 DEF Stops
    <3> QED
      BY <1>3, <2>1, <2>3, <3>1, <3>2, <3>3
  <2> QED
    BY <1>3, <2>2, <2>3
<1>5. ASSUME Numbers(q, m, s, n, t) PROVE Numbers(q, w, 0, n, t)
  <2> SUFFICES ASSUME Free(q, Asks(t)), NEW k \in DOMAIN w, w[k] \in DataOf(t),
                      \A j \in DOMAIN w : j > k => w[j] \notin Answers(t)
               PROVE  w[k].listen = n
    BY <1>5 DEF Numbers
  <2>1. k \in DOMAIN m
    BY <1>3, KindsApart
  <2>2. \A j \in DOMAIN m : j > k => m[j] \notin Answers(t)
    BY <1>3
  <2> QED
    BY <1>3, <1>5, <2>1, <2>2 DEF Numbers
<1>6. ASSUME NEW b, NEW p, Stops(m, s, t), Trusted(q, m, s, b, p, t)
      PROVE  Trusted(q, w, 0, b, p, t)
  <2>1. ASSUME Free(q, Asks(t)) PROVE b
    <3>1. CASE Free(m, Words(t))
      BY <1>6, <2>1, <3>1 DEF Trusted, Told
    <3>2. CASE ~Free(m, Words(t))
      <4>1. PICK y \in Final(m, Words(t)) : TRUE
        BY <3>2, FinalIs
      <4>2. y.kind = "added" /\ (b <=> y.kind # "removed")
        BY <1>6, <2>1, <4>1 DEF Stops, Trusted, Told
      <4> QED
        BY <4>2
    <3> QED
      BY <3>1, <3>2
  <2>2. Told(q, w, 0, b, t)
    BY <1>0, <1>1, <1>6, <2>1 DEF Told, Trusted
  <2> QED
    BY <1>2, <1>6, <2>2 DEF Trusted
<1> QED
  BY <1>4, <1>5, <1>6 DEF Linked, w

\* The backend reads a request for another target.
LEMMA ReadsElse ==
  ASSUME NEW t, NEW q \in Seq(Requests), q # <<>>, Head(q) \notin Asks(t), NEW m, NEW s, NEW n
  PROVE  /\ Linked(q, m, s, n, t) => Linked(Tail(q), m, s, n, t)
         /\ \A b, p : Trusted(q, m, s, b, p, t) => Trusted(Tail(q), m, s, b, p, t)
<1> DEFINE r == Tail(q)
<1>1. /\ Free(r, Asks(t)) <=> Free(q, Asks(t))
      /\ Final(r, Asks(t)) = Final(q, Asks(t))
  <2>1. Free(r, Asks(t)) => Final(r, Asks(t)) = {}
    BY TailIs, FinalIs
  <2> QED
    BY <2>1, FinalTail
<1>2. Count(r, Asks(t)) = Count(q, Asks(t))
  <2>1. Count(r, Asks(t)) \in Nat
    BY TailIs, CountIs
  <2>2. Count(q, Asks(t)) = Count(r, Asks(t)) + (IF Head(q) \in Asks(t) THEN 1 ELSE 0)
    BY CountTail
  <2> QED
    BY <2>1, <2>2
<1>3. \A k \in DOMAIN r : k + 1 \in DOMAIN q /\ r[k] = q[k + 1]
  BY TailIs
<1> HIDE DEF r
<1>4. Linked(q, m, s, n, t) => Linked(r, m, s, n, t)
  BY <1>1, <1>3 DEF Linked, Numbers
<1>5. \A b, p : Trusted(q, m, s, b, p, t) => Trusted(r, m, s, b, p, t)
  BY <1>1, <1>2 DEF Trusted, Told
<1> QED
  BY <1>4, <1>5 DEF r

\* The backend answers a request: it says what it then serves.
LEMMA AnswersIt ==
  ASSUME NEW t, NEW q \in Seq(Requests), q # <<>>, Head(q) \in Asks(t),
         NEW m \in Seq(Messages), NEW s \in Nat, NEW n, NEW u \in Nat,
         NEW x \in Messages, x \in Answers(t),
         Head(q).kind = "watch" <=> x.kind # "removed",
         u = IF x.kind = "added" THEN Head(q).listen ELSE 0,
         Linked(q, m, s, n, t)
  PROVE  /\ Linked(Tail(q), Append(m, x), u, n, t)
         /\ \A b, p : Trusted(q, m, s, b, p, t) => Trusted(Tail(q), Append(m, x), u, b, p, t)
<1> DEFINE r == Tail(q)
           w == Append(m, x)
           h == Head(q)
<1>0. /\ x \in Words(t) /\ x \notin DataOf(t) /\ x.kind \in {"added", "removed", "rejected"}
  BY KindsApart
<1>1. /\ r \in Seq(Requests) /\ h \in Requests /\ 1 \in DOMAIN q /\ q[1] = h
      /\ \A k \in DOMAIN r : k + 1 \in DOMAIN q /\ r[k] = q[k + 1]
  BY TailIs
<1>2. /\ ~Free(r, Asks(t)) => Final(r, Asks(t)) = Final(q, Asks(t))
      /\ Free(r, Asks(t)) => Final(q, Asks(t)) = {h} /\ Final(r, Asks(t)) = {}
  <2>1. Free(r, Asks(t)) => Final(r, Asks(t)) = {}
    BY <1>1, FinalIs
  <2> QED
    BY <2>1, FinalTail
<1>3. ~Free(w, Words(t)) /\ Final(w, Words(t)) = {x}
  BY <1>0, FinalAppend
<1>4. Count(r, Asks(t)) + Count(w, Answers(t)) = Count(q, Asks(t)) + Count(m, Answers(t))
  <2>1. Count(r, Asks(t)) \in Nat /\ Count(m, Answers(t)) \in Nat
    BY <1>1, CountIs
  <2>2. Count(q, Asks(t)) = Count(r, Asks(t)) + (IF h \in Asks(t) THEN 1 ELSE 0)
    BY CountTail
  <2>3. Count(w, Answers(t)) = Count(m, Answers(t)) + (IF x \in Answers(t) THEN 1 ELSE 0)
    BY CountAppend
  <2> QED
    BY <2>1, <2>2, <2>3
<1>5. /\ Len(m) \in Nat /\ DOMAIN m = 1..Len(m)
      /\ \A k \in DOMAIN m : k \in DOMAIN w /\ w[k] = m[k] /\ k < Len(m) + 1
      /\ Len(m) + 1 \in DOMAIN w /\ w[Len(m) + 1] = x
      /\ \A k \in DOMAIN w : k \in DOMAIN m \/ k = Len(m) + 1
  BY AppendIs
<1>6. h.kind = "watch" => h.listen # 0
  BY <1>1 DEF Linked, Numbers
<1> HIDE DEF r, w, h
<1>7. Stops(w, u, t)
  <2>1. u # 0 <=> x.kind = "added"
    BY <1>0, <1>6 DEF h
  <2>2. ASSUME NEW j \in DOMAIN w, NEW k \in DOMAIN w,
               j < k, w[j] \in Words(t), w[k] \in Words(t) \ Answers(t)
        PROVE  \E i \in DOMAIN w : j <= i /\ i < k /\ w[i] \in Words(t) /\ w[i].kind = "added"
    <3>1. j \in DOMAIN m /\ k \in DOMAIN m
      BY <1>5, <2>2
    <3> QED
      BY <1>5, <2>2, <3>1 DEF Linked, Stops
  <2> QED
    BY <1>3, <2>1, <2>2 DEF Stops
<1>8. Numbers(r, w, u, n, t)
  <2>1. ASSUME Free(r, Asks(t)), u # 0 PROVE u = n
    <3>1. x.kind = "added" /\ u = h.listen
      BY <2>1 DEF h
    <3>2. h \in Final(q, Asks(t)) /\ h.kind = "watch"
      BY <1>2, <2>1, <3>1 DEF h
    <3> QED
      BY <3>1, <3>2 DEF Linked, Numbers
  <2>2. ASSUME NEW k \in DOMAIN w, w[k] \in DataOf(t),
               \A j \in DOMAIN w : j > k => w[j] \notin Answers(t)
        PROVE  FALSE
    <3>1. k # Len(m) + 1
      BY <1>0, <1>5, <2>2
    <3>2. k \in DOMAIN m /\ k < Len(m) + 1
      BY <1>5, <3>1
    <3> QED
      BY <1>5, <2>2, <3>2
  <2>3. \A y \in Final(r, Asks(t)) : y.kind = "watch" => y.listen = n
    BY <1>2 DEF Linked, Numbers
  <2>4. \A k \in DOMAIN r : r[k] \in Asks(t) /\ r[k].kind = "watch" => r[k].listen # 0
    BY <1>1 DEF Linked, Numbers
  <2> QED
    BY <2>1, <2>2, <2>3, <2>4 DEF Numbers
<1>9. ASSUME NEW b, NEW p, Trusted(q, m, s, b, p, t)
      PROVE  Trusted(r, w, u, b, p, t)
  <2>1. \A y \in Final(r, Asks(t)) : b <=> y.kind = "watch"
    BY <1>2, <1>9 DEF Trusted, Told
  <2>2. Free(r, Asks(t)) => (b <=> x.kind # "removed")
    <3>1. Free(r, Asks(t)) => (b <=> h.kind = "watch")
      BY <1>2, <1>9 DEF Trusted, Told
    <3> QED
      BY <3>1 DEF h
  <2>3. Told(r, w, u, b, t)
    BY <1>3, <2>1, <2>2 DEF Told
  <2> QED
    BY <1>4, <1>9, <2>3 DEF Trusted
<1> QED
  BY <1>7, <1>8, <1>9 DEF Linked, r, w

\* The client reads a message: what the others are to each other stays.
LEMMA ReadLinked ==
  ASSUME NEW t, NEW q, NEW m \in Seq(Messages), m # <<>>, NEW s, NEW n, Linked(q, m, s, n, t)
  PROVE  Linked(q, Tail(m), s, n, t)
<1> DEFINE w == Tail(m)
<1>1. /\ w \in Seq(Messages)
      /\ \A k \in DOMAIN w : k + 1 \in DOMAIN m /\ w[k] = m[k + 1]
      /\ \A k \in DOMAIN m : k # 1 => k - 1 \in DOMAIN w /\ (k - 1) + 1 = k
      /\ DOMAIN m \subseteq Nat /\ DOMAIN w \subseteq Nat
  BY TailIs
<1>2. /\ ~Free(w, Words(t)) => Final(w, Words(t)) = Final(m, Words(t))
      /\ Free(w, Words(t)) => Final(w, Words(t)) = {}
  BY <1>1, FinalTail, FinalIs
<1>0. \A k \in DOMAIN w : k # 0
  BY DEF w
<1> HIDE DEF w
<1>3. Stops(w, s, t)
  <2>1. \A x \in Final(w, Words(t)) : s # 0 <=> x.kind = "added"
    BY <1>2 DEF Linked, Stops
  <2>2. ASSUME NEW j \in DOMAIN w, NEW k \in DOMAIN w,
               j < k, w[j] \in Words(t), w[k] \in Words(t) \ Answers(t)
        PROVE  \E i \in DOMAIN w : j <= i /\ i < k /\ w[i] \in Words(t) /\ w[i].kind = "added"
    <3>1. PICK i \in DOMAIN m : /\ j + 1 <= i /\ i < k + 1
                                /\ m[i] \in Words(t) /\ m[i].kind = "added"
      <4>1. j + 1 < k + 1
        BY <1>1, <2>2
      <4> QED
        BY <1>1, <2>2, <4>1 DEF Linked, Stops
    <3>2. i # 1 /\ j <= i - 1 /\ i - 1 < k
      BY <1>0, <1>1, <3>1
    <3>3. i - 1 \in DOMAIN w /\ w[i - 1] = m[i]
      BY <1>1, <3>2
    <3> QED
      BY <3>1, <3>2, <3>3
  <2> QED
    BY <2>1, <2>2 DEF Stops
<1>4. Numbers(q, w, s, n, t)
  <2> SUFFICES ASSUME Free(q, Asks(t)), NEW k \in DOMAIN w, w[k] \in DataOf(t),
                      \A j \in DOMAIN w : j > k => w[j] \notin Answers(t)
               PROVE  w[k].listen = n
    BY DEF Linked, Numbers
  <2>1. \A j \in DOMAIN m : j > k + 1 => m[j] \notin Answers(t)
    <3> SUFFICES ASSUME NEW j \in DOMAIN m, j > k + 1 PROVE m[j] \notin Answers(t)
      OBVIOUS
    <3>1. j # 1 /\ j - 1 > k
      BY <1>0, <1>1
    <3>2. j - 1 \in DOMAIN w /\ w[j - 1] = m[j]
      BY <1>1, <3>1
    <3> QED
      BY <3>1, <3>2
  <2> QED
    BY <1>1, <2>1 DEF Linked, Numbers
<1> QED
  BY <1>3, <1>4 DEF Linked, w

\* A message that is no word about the target.
LEMMA HearsElse ==
  ASSUME NEW t, NEW q, NEW m \in Seq(Messages), m # <<>>, Head(m) \notin Words(t),
         NEW s, NEW b, NEW p, Trusted(q, m, s, b, p, t)
  PROVE  Trusted(q, Tail(m), s, b, p, t)
<1>1. Tail(m) \in Seq(Messages)
  BY TailIs
<1>2. /\ Free(Tail(m), Words(t)) <=> Free(m, Words(t))
      /\ Final(Tail(m), Words(t)) = Final(m, Words(t))
  <2>1. Free(Tail(m), Words(t)) => Final(Tail(m), Words(t)) = {}
    BY <1>1, FinalIs
  <2> QED
    BY <2>1, FinalTail
<1>3. Count(Tail(m), Answers(t)) = Count(m, Answers(t))
  <2>1. Count(m, Answers(t)) = Count(Tail(m), Answers(t))
                               + (IF Head(m) \in Answers(t) THEN 1 ELSE 0)
    BY CountTail
  <2>2. Count(Tail(m), Answers(t)) \in Nat /\ Head(m) \notin Answers(t)
    BY <1>1, CountIs, KindsApart
  <2> QED
    BY <2>1, <2>2
<1> QED
  BY <1>2, <1>3 DEF Trusted, Told

\* The answer to a request, other than a rejection.
LEMMA HearsAnswer ==
  ASSUME NEW t, NEW q \in Seq(Requests), NEW m \in Seq(Messages), m # <<>>, Head(m) \in Words(t),
         Head(m).kind # "rejected",
         NEW s, NEW b, NEW p, Stops(m, s, t), Trusted(q, m, s, b, p, t)
  PROVE  Trusted(q, Tail(m), s, b, p - 1, t)
<1>1. Tail(m) \in Seq(Messages)
  BY TailIs
<1>2. Head(m) \in Answers(t) /\ Head(m).kind \in {"added", "removed"}
  BY KindsApart
<1>3. p - 1 = Count(q, Asks(t)) + Count(Tail(m), Answers(t))
  <2>1. Count(m, Answers(t)) = Count(Tail(m), Answers(t))
                               + (IF Head(m) \in Answers(t) THEN 1 ELSE 0)
    BY CountTail
  <2>2. Count(Tail(m), Answers(t)) \in Nat /\ Count(q, Asks(t)) \in Nat
    BY <1>1, CountIs
  <2>3. p = Count(q, Asks(t)) + Count(m, Answers(t))
    BY DEF Trusted
  <2> QED
    BY <1>2, <2>1, <2>2, <2>3
<1>4. /\ ~Free(Tail(m), Words(t)) => Final(Tail(m), Words(t)) = Final(m, Words(t))
      /\ Free(Tail(m), Words(t)) => /\ Final(m, Words(t)) = {Head(m)}
                                    /\ Final(Tail(m), Words(t)) = {}
      /\ ~Free(m, Words(t))
  BY <1>1, FinalTail, FinalIs
<1>5. Told(q, Tail(m), s, b, t)
  <2>1. ASSUME Free(q, Asks(t)), Free(Tail(m), Words(t)) PROVE b <=> s # 0
    <3>1. Head(m) \in Final(m, Words(t))
      BY <1>4, <2>1
    <3>2. (b <=> Head(m).kind # "removed") /\ (s # 0 <=> Head(m).kind = "added")
      BY <2>1, <3>1 DEF Trusted, Told, Stops
    <3> QED
      BY <1>2, <3>2
  <2>2. Free(q, Asks(t)) => \A x \in Final(Tail(m), Words(t)) : b <=> x.kind # "removed"
    BY <1>4 DEF Trusted, Told
  <2> QED
    BY <2>1, <2>2 DEF Told, Trusted
<1> QED
  BY <1>3, <1>5 DEF Trusted

\* A rejection, when nothing else about the target is unanswered: the target is
\* listened to, and then no more.
LEMMA HearsRejection ==
  ASSUME NEW t, NEW q \in Seq(Requests), NEW m \in Seq(Messages), m # <<>>, Head(m) \in Words(t),
         Head(m).kind = "rejected", Count(q, Asks(t)) + Count(Tail(m), Answers(t)) = 0,
         NEW s, NEW b, NEW p, Stops(m, s, t), Trusted(q, m, s, b, p, t)
  PROVE  b /\ Trusted(q, Tail(m), s, FALSE, 0, t)
<1> DEFINE w == Tail(m)
<1>1. /\ w \in Seq(Messages) /\ Head(m) = m[1] /\ 1 \in DOMAIN m
      /\ \A k \in DOMAIN w : k + 1 \in DOMAIN m /\ w[k] = m[k + 1]
      /\ \A k \in DOMAIN m : k # 1 => k - 1 \in DOMAIN w /\ (k - 1) + 1 = k
      /\ DOMAIN m \subseteq Nat /\ DOMAIN w \subseteq Nat
  BY TailIs
<1>0. \A k \in DOMAIN w : k # 0
  BY DEF w
<1>2. Free(q, Asks(t)) /\ Free(w, Answers(t))
  <2>1. Count(q, Asks(t)) \in Nat /\ Count(w, Answers(t)) \in Nat
    BY <1>1, CountIs
  <2> HIDE DEF w
  <2>2. Count(q, Asks(t)) = 0 /\ Count(w, Answers(t)) = 0
    BY <2>1 DEF w
  <2> QED
    BY <1>1, <2>2, CountIs
<1>4. /\ Free(w, Words(t)) => Final(m, Words(t)) = {Head(m)} /\ Final(w, Words(t)) = {}
  BY <1>1, FinalTail, FinalIs
<1> HIDE DEF w
<1>3. Free(w, Words(t))
  <2> SUFFICES ASSUME NEW k \in DOMAIN w, w[k] \in Words(t) PROVE FALSE
    BY DEF Free
  <2>1. w[k] \notin Answers(t) /\ 1 < k + 1
    BY <1>0, <1>1, <1>2 DEF Free
  <2>2. PICK i \in DOMAIN m : 1 <= i /\ i < k + 1 /\ m[i] \in Words(t) /\ m[i].kind = "added"
    BY <1>1, <2>1 DEF Stops
  <2>3. i # 1
    BY <1>1, <2>2
  <2>4. i - 1 \in DOMAIN w /\ w[i - 1] = m[i]
    BY <1>1, <2>3
  <2>5. m[i] \in Answers(t)
    BY <2>2, KindsApart
  <2> QED
    BY <1>2, <2>4, <2>5 DEF Free
<1>5. b /\ s = 0
  <2>1. Head(m) \in Final(m, Words(t))
    BY <1>3, <1>4
  <2> QED
    BY <1>2, <2>1 DEF Trusted, Told, Stops
<1>6. Final(q, Asks(t)) = {}
  BY <1>2, FinalIs
<1> QED
  BY <1>2, <1>3, <1>4, <1>5, <1>6 DEF Trusted, Told, w

-----------------------------------------------------------------------------
(* The requests of a stream that opens, and of a snapshot.                 *)

\* Every element of S has one place in ts.
Lists(ts, S) ==
  /\ Len(ts) \in Nat /\ DOMAIN ts = 1..Len(ts)
  /\ \A i \in DOMAIN ts : ts[i] \in S
  /\ \A i, j \in DOMAIN ts : ts[i] = ts[j] => i = j
  /\ \A t \in S : \E i \in DOMAIN ts : ts[i] = t

\* SetToSeq enumerates targets.
LEMMA SetToSeqLists ==
  ASSUME NEW S \in SUBSET Targets
  PROVE  Lists(SetToSeq(S), S)
<1> DEFINE n == Cardinality(S)
           ts == SetToSeq(S)
<1>1. IsFiniteSet(S)
  BY FS_Subset, WatchStreamAssumption DEF WatchStreamAssumption
<1>2. n \in Nat /\ ExistsBijection(1..n, S)
  BY <1>1, FS_CardinalityType
<1>3. \E f \in [1..n -> S] : IsInjective(f)
  BY <1>2, Zenon DEF ExistsBijection, Bijection, Injection
<1>4. ts \in [1..n -> S] /\ IsInjective(ts)
  BY <1>3 DEF SetToSeq
<1>5. ts \in Injection(1..n, S)
  BY <1>4 DEF Injection
<1>6. Cardinality(1..n) = n
  BY <1>2, FS_Interval
<1> HIDE DEF ts
<1>7. ts \in Surjection(1..n, S)
  BY <1>1, <1>5, <1>6, FS_Injection
<1>8. Len(ts) = n
  BY <1>2, <1>4
<1>9. \A t \in S : \E i \in 1..n : ts[i] = t
  BY <1>7 DEF Surjection
<1> HIDE DEF n
<1> QED
  BY <1>2, <1>4, <1>8, <1>9 DEF IsInjective, Lists, ts

\* A stream that opens asks once for each target.
LEMMA OpeningAsks ==
  ASSUME NEW S \in SUBSET Targets, NEW ts, Lists(ts, S),
         NEW l \in [Targets -> Nat], \A t \in S : l[t] # 0,
         NEW y, DOMAIN y = DOMAIN ts, \A k \in DOMAIN y : y[k] = Watches(ts[k], l[ts[k]])
  PROVE  /\ \A k \in DOMAIN y : y[k].kind = "watch" => y[k].listen # 0
         /\ \A t \in S : /\ Final(y, Asks(t)) = {Watches(t, l[t])}
                         /\ Watches(t, l[t]) \in Asks(t)
                         /\ Count(y, Asks(t)) = 1
         /\ \A t \in Targets \ S : Free(y, Asks(t))
<1>1. \A k \in DOMAIN y : /\ y[k].target = ts[k] /\ y[k].listen = l[ts[k]]
                          /\ ts[k] \in S /\ y[k] \in Asks(ts[k])
  BY DEF Lists, Watches, Asks, Requests
<1>2. \A k \in DOMAIN y : y[k].kind = "watch" => y[k].listen # 0
  BY <1>1
<1>3. ASSUME NEW t \in S
      PROVE  /\ Final(y, Asks(t)) = {Watches(t, l[t])}
             /\ Watches(t, l[t]) \in Asks(t)
             /\ Count(y, Asks(t)) = 1
  <2>1. PICK i \in DOMAIN y : ts[i] = t
    BY DEF Lists
  <2>2. y[i] = Watches(t, l[t]) /\ y[i] \in Asks(t)
    BY <1>1, <2>1
  <2>3. \A k \in DOMAIN y : y[k] \in Asks(t) => k = i
    BY <1>1, <2>1 DEF Asks, Lists
  <2>4. Of(y, Asks(t)) = {i}
    BY <2>2, <2>3 DEF Of
  <2>5. i <= i
    BY DEF Lists
  <2>6. Final(y, Asks(t)) = {y[i]}
    BY <2>4, <2>5 DEF Final
  <2> QED
    BY <2>2, <2>4, <2>6, FS_Singleton DEF Count
<1>4. \A t \in Targets \ S : Free(y, Asks(t))
  BY <1>1 DEF Free, Asks
<1> QED
  BY <1>2, <1>3, <1>4

\* Two requests for each element of a sequence are at these places.
LEMMA DoubleIs ==
  ASSUME NEW i \in Nat, i # 0
  PROVE  /\ (2 * i - 1 + 1) \div 2 = i /\ (2 * i + 1) \div 2 = i
         /\ (2 * i - 1) % 2 = 1 /\ (2 * i) % 2 = 0
         /\ 2 * i - 1 # 2 * i /\ 2 * i - 1 <= 2 * i /\ 2 * i <= 2 * i
         /\ ~(2 * i <= 2 * i - 1)
  OBVIOUS

\* And at no others.
LEMMA HalfIs ==
  ASSUME NEW k \in Nat, k # 0
  PROVE  k = 2 * ((k + 1) \div 2) - 1 \/ k = 2 * ((k + 1) \div 2)
  OBVIOUS

\* Two elements.
LEMMA PairCount ==
  ASSUME NEW a, NEW b, a # b
  PROVE  Cardinality({a, b}) = 2
<1>1. IsFiniteSet({a}) /\ Cardinality({a}) = 1
  BY FS_Singleton
<1>2. Cardinality({a} \cup {b}) = IF b \in {a} THEN Cardinality({a}) ELSE Cardinality({a}) + 1
  BY <1>1, FS_AddElement, Zenon
<1>3. {a} \cup {b} = {a, b} /\ b \notin {a}
  OBVIOUS
<1> QED
  BY <1>1, <1>2, <1>3

\* A snapshot removes each target that must start all over, and asks for it again.
LEMMA RaisingAsks ==
  ASSUME NEW S \in SUBSET Targets, NEW ts, Lists(ts, S),
         NEW l \in [Targets -> Nat], \A t \in S : l[t] # 0,
         NEW y, DOMAIN y = 1..(2 * Len(ts)),
         \A k \in DOMAIN y : y[k] = IF k % 2 = 1 THEN Unwatches(ts[(k + 1) \div 2])
                                    ELSE Watches(ts[(k + 1) \div 2], l[ts[(k + 1) \div 2]])
  PROVE  /\ \A k \in DOMAIN y : y[k].kind = "watch" => y[k].listen # 0
         /\ \A t \in S : /\ Final(y, Asks(t)) = {Watches(t, l[t])}
                         /\ Watches(t, l[t]) \in Asks(t)
                         /\ Count(y, Asks(t)) = 2
         /\ \A t \in Targets \ S : Free(y, Asks(t))
<1> DEFINE h(k) == (k + 1) \div 2
<1>1. \A k \in DOMAIN y : k \in Nat /\ k # 0 /\ h(k) \in DOMAIN ts
  BY DEF Lists
<1>2. \A k \in DOMAIN y : y[k] = IF k % 2 = 1 THEN Unwatches(ts[h(k)]) ELSE Watches(ts[h(k)], l[ts[h(k)]])
  OBVIOUS
<1>3. \A i \in DOMAIN ts : /\ i \in Nat /\ i # 0
                           /\ 2 * i - 1 \in DOMAIN y /\ 2 * i \in DOMAIN y
  BY DEF Lists
<1>4. \A i \in DOMAIN ts : /\ h(2 * i - 1) = i /\ h(2 * i) = i
                           /\ (2 * i - 1) % 2 = 1 /\ (2 * i) % 2 = 0
                           /\ 2 * i - 1 # 2 * i /\ 2 * i - 1 <= 2 * i /\ 2 * i <= 2 * i
                           /\ ~(2 * i <= 2 * i - 1)
  BY <1>3, DoubleIs
<1>5. \A k \in DOMAIN y : \A i \in DOMAIN ts : h(k) = i => k = 2 * i - 1 \/ k = 2 * i
  BY <1>1, HalfIs
<1> HIDE DEF h
<1>6. \A t \in S : /\ Unwatches(t) \in Asks(t) /\ Watches(t, l[t]) \in Asks(t)
                   /\ Unwatches(t).kind # "watch" /\ Watches(t, l[t]).listen = l[t]
  BY DEF Watches, Unwatches, Asks, Requests
<1>7. \A k \in DOMAIN y : ts[h(k)] \in S
  BY <1>1 DEF Lists
<1>8. \A k \in DOMAIN y : y[k] \in Asks(ts[h(k)]) /\ (y[k].kind = "watch" => y[k].listen # 0)
  <2> SUFFICES ASSUME NEW k \in DOMAIN y
               PROVE  y[k] \in Asks(ts[h(k)]) /\ (y[k].kind = "watch" => y[k].listen # 0)
    OBVIOUS
  <2>1. y[k] = Unwatches(ts[h(k)]) \/ y[k] = Watches(ts[h(k)], l[ts[h(k)]])
    BY <1>2
  <2> QED
    BY <1>6, <1>7, <2>1
<1>9. ASSUME NEW t \in S
      PROVE  /\ Final(y, Asks(t)) = {Watches(t, l[t])}
             /\ Watches(t, l[t]) \in Asks(t)
             /\ Count(y, Asks(t)) = 2
  <2>1. PICK i \in DOMAIN ts : ts[i] = t
    BY DEF Lists
  <2>2. PICK a, b : a = 2 * i - 1 /\ b = 2 * i
    OBVIOUS
  <2>3. /\ a \in DOMAIN y /\ b \in DOMAIN y /\ h(a) = i /\ h(b) = i
        /\ a # b /\ a <= b /\ b <= b /\ ~(b <= a) /\ b % 2 = 0
    BY <1>3, <1>4, <2>2
  <2>4. y[a] \in Asks(t) /\ y[b] \in Asks(t) /\ y[b] = Watches(t, l[t])
    <3>1. b % 2 # 1
      BY <2>3
    <3> QED
      BY <1>2, <1>8, <2>1, <2>3, <3>1
  <2>5. \A k \in DOMAIN y : y[k] \in Asks(t) => k = a \/ k = b
    <3> SUFFICES ASSUME NEW k \in DOMAIN y, y[k] \in Asks(t) PROVE k = a \/ k = b
      OBVIOUS
    <3>1. ts[h(k)] = ts[i]
      BY <1>8, <2>1 DEF Asks
    <3>2. h(k) = i
      BY <1>1, <3>1 DEF Lists
    <3> QED
      BY <1>5, <2>2, <3>2
  <2>6. Of(y, Asks(t)) = {a, b}
    BY <2>3, <2>4, <2>5 DEF Of
  <2>7. Final(y, Asks(t)) = {y[b]}
    BY <2>3, <2>6 DEF Final
  <2>8. Cardinality({a, b}) = 2
    BY <2>3, PairCount
  <2> QED
    BY <1>6, <2>4, <2>6, <2>7, <2>8 DEF Count
<1>10. \A t \in Targets \ S : Free(y, Asks(t))
  BY <1>7, <1>8 DEF Free, Asks
<1> QED
  BY <1>8, <1>9, <1>10

-----------------------------------------------------------------------------
(* What is under way on an open stream: at each target, and the rest of it *)
(* at those of which no rejection has crossed a request.                   *)

\* The two, of a target in any state of the remote store, and of all.
LinkedAt(r, t) ==
  /\ Linked(r.call.requests, r.call.messages, r.call.serving[t], r.listen[t], t)
  /\ t \in r.call.caughtUp => r.call.serving[t] # 0
TrustedAt(r, t) ==
  Trusted(r.call.requests, r.call.messages, r.call.serving[t], t \in r.listens, r.pending[t], t)

Tracks(r, C) ==
  r.state = "open" => \A t \in Targets : LinkedAt(r, t) /\ (t \notin C => TrustedAt(r, t))

\* What the state r has of target t, s has too.
SameAt(r, s, t) ==
  /\ s.listen[t] = r.listen[t] /\ s.pending[t] = r.pending[t]
  /\ t \in s.listens <=> t \in r.listens

\* The types of a call, for the lemmas about sequences.
LEMMA CallTypes ==
  ASSUME NEW r \in Remotes
  PROVE  /\ r.call.requests \in Seq(Requests) /\ r.call.messages \in Seq(Messages)
         /\ r.call.serving \in [Targets -> Nat] /\ r.call \in Calls
         /\ r.listen \in [Targets -> Nat] /\ r.pending \in [Targets -> Int]
  BY DEF Remotes, Calls

\* A sequence with one more element is two sequences.
LEMMA OneMore ==
  ASSUME NEW S, NEW p \in Seq(S), NEW x \in S
  PROVE  Append(p, x) = p \o <<x>> /\ <<x>> \in Seq(S)
  OBVIOUS

\* A request is sent for one target.
LEMMA RequestSent ==
  ASSUME NEW r \in Remotes, NEW s \in Remotes, NEW t \in Targets, NEW x \in Asks(t),
         s.call.requests = Append(r.call.requests, x),
         s.call.messages = r.call.messages, s.call.serving = r.call.serving,
         s.call.caughtUp = r.call.caughtUp, s.pending[t] = r.pending[t] + 1,
         x.kind = "watch" => x.listen = s.listen[t] /\ x.listen # 0,
         t \in s.listens <=> x.kind = "watch",
         \A u \in Targets \ {t} : SameAt(r, s, u),
         NEW C, Tracks(r, C), r.state = "open"
  PROVE  Tracks(s, C)
<1> DEFINE q == r.call.requests
           m == r.call.messages
           y == <<x>>
<1>0. \A u \in Targets : u \in s.call.caughtUp => s.call.serving[u] # 0
  BY DEF Tracks, LinkedAt
<1>1. q \in Seq(Requests) /\ m \in Seq(Messages) /\ x \in Requests
  BY CallTypes DEF Asks
<1>2. s.call.requests = q \o y /\ y \in Seq(Requests)
  <2> HIDE DEF q
  <2>1. s.call.requests = Append(q, x)
    BY DEF q
  <2> QED
    BY <1>1, <2>1, OneMore
<1>3. DOMAIN y = {1} /\ y[1] = x
  OBVIOUS
<1>4. Final(y, Asks(t)) = {x} /\ Count(y, Asks(t)) = 1
  BY <1>1, FinalOne, CountOne
<1>5. \A u \in Targets \ {t} : Free(y, Asks(u))
  BY <1>3 DEF Free, Asks
<1> HIDE DEF y
<1>6. LinkedAt(s, t) /\ (t \notin C => TrustedAt(s, t))
  <2>1. Linked(q, m, r.call.serving[t], r.listen[t], t)
    BY DEF Tracks, LinkedAt
  <2>2. /\ Linked(q \o y, m, r.call.serving[t], s.listen[t], t)
        /\ \A b, p : /\ b <=> x.kind = "watch"
                     /\ p = Count(q, Asks(t)) + Count(m, Answers(t)) + Count(y, Asks(t))
                     => Trusted(q \o y, m, r.call.serving[t], b, p, t)
    BY <1>1, <1>2, <1>3, <1>4, <2>1, AskSome
  <2>3. t \notin C => s.pending[t] = Count(q, Asks(t)) + Count(m, Answers(t)) + Count(y, Asks(t))
    BY <1>4 DEF Tracks, TrustedAt, Trusted
  <2> QED
    BY <1>0, <1>2, <2>2, <2>3 DEF LinkedAt, TrustedAt
<1>7. ASSUME NEW u \in Targets, u # t
      PROVE  LinkedAt(s, u) /\ (u \notin C => TrustedAt(s, u))
  <2>1. /\ Linked(q, m, r.call.serving[u], r.listen[u], u)
        /\ u \notin C => Trusted(q, m, r.call.serving[u], u \in r.listens, r.pending[u], u)
    BY DEF Tracks, LinkedAt, TrustedAt
  <2>2. /\ Linked(q, m, r.call.serving[u], r.listen[u], u) =>
             Linked(q \o y, m, r.call.serving[u], r.listen[u], u)
        /\ \A b, p : Trusted(q, m, r.call.serving[u], b, p, u) =>
                       Trusted(q \o y, m, r.call.serving[u], b, p, u)
    BY <1>1, <1>2, <1>5, <1>7, AskNone
  <2>3. SameAt(r, s, u)
    BY <1>7
  <2>4. u \notin C => Trusted(q \o y, m, r.call.serving[u], u \in s.listens, s.pending[u], u)
    <3>1. (u \in s.listens) = (u \in r.listens) /\ s.pending[u] = r.pending[u]
      BY <2>3 DEF SameAt
    <3> QED
      BY <2>1, <2>2, <3>1
  <2> QED
    BY <1>0, <1>2, <2>1, <2>2, <2>3, <2>4 DEF LinkedAt, TrustedAt, SameAt
<1> QED
  BY <1>6, <1>7 DEF Tracks

\* The fields that a request changes.
LEMMA SendWatchIs ==
  ASSUME NEW r \in Remotes, NEW t \in Targets
  PROVE  LET s == SendWatch(r, t) IN
         /\ s.call.requests = Append(r.call.requests, Watches(t, s.listen[t]))
         /\ s.call.messages = r.call.messages /\ s.call.serving = r.call.serving
         /\ s.call.caughtUp = r.call.caughtUp
         /\ s.pending[t] = r.pending[t] + 1 /\ s.listen[t] = r.listen[t] + 1
         /\ s.listens = r.listens /\ s.listen[t] # 0
         /\ \A u \in Targets \ {t} : SameAt(r, s, u)
<1>1. r.listen[t] \in Nat
  BY DEF Remotes
<1>2. r.listen[t] + 1 # 0
  BY <1>1
<1> QED
  BY <1>2 DEF SendWatch, Remotes, Calls, SameAt

\* The same, for the removal of a target.
LEMMA SendUnwatchIs ==
  ASSUME NEW r \in Remotes, NEW t \in Targets
  PROVE  LET s == SendUnwatch(r, t) IN
         /\ s.call.requests = Append(r.call.requests, Unwatches(t))
         /\ s.call.messages = r.call.messages /\ s.call.serving = r.call.serving
         /\ s.call.caughtUp = r.call.caughtUp
         /\ s.pending[t] = r.pending[t] + 1 /\ s.listen = r.listen
         /\ s.listens = r.listens
         /\ \A u \in Targets \ {t} : SameAt(r, s, u)
  BY DEF SendUnwatch, Remotes, Calls, SameAt

\* A stream that is started is not open at once.
LEMMA StartsClosed ==
  ASSUME NEW r \in Remotes
  PROVE  StartWatch(r).state # "open"
<1> DEFINE a == NoAggregator(r)
           s == [a EXCEPT !.state = IF r.state = "error" THEN "backoff" ELSE "starting"]
<1>1. a \in Remotes
  BY NoAggregatorType
<1> HIDE DEF a
<1>2. s.state \in {"backoff", "starting"}
  BY <1>1 DEF Remotes
<1>3. s \in Remotes
  BY <1>1 DEF Remotes
<1>4. StartWatch(r) = IF s.failures # 0 THEN s ELSE [s EXCEPT !.online = "unknown", !.timer = TRUE]
  BY DEF StartWatch, HandleWatchStreamStart, a
<1> HIDE DEF s
<1>5. [s EXCEPT !.online = "unknown", !.timer = TRUE].state = s.state
  BY <1>3 DEF Remotes
<1> QED
  BY <1>2, <1>4, <1>5

\* A target is listened to.
LEMMA ListenedTracks ==
  ASSUME NEW r \in Remotes, NEW t \in Targets, NEW C, Tracks(r, C)
  PROVE  Tracks(Listened(r, t), C)
<1> DEFINE s == [r EXCEPT !.listens = @ \cup {t}]
           v == SendWatch(s, t)
<1>1. /\ s \in Remotes /\ s.state = r.state /\ s.call = r.call
      /\ s.pending = r.pending /\ s.listen = r.listen /\ s.listens = r.listens \cup {t}
  BY DEF Remotes
<1>2. Listened(r, t) = IF ShouldStart(s) THEN StartWatch(s)
                       ELSE IF s.state = "open" THEN v ELSE s
  BY DEF Listened
<1> HIDE DEF s
<1>3. CASE ShouldStart(s)
  BY <1>1, <1>2, <1>3, StartsClosed DEF Tracks
<1>4. CASE ~ShouldStart(s) /\ s.state # "open"
  BY <1>2, <1>4 DEF Tracks
<1>5. CASE ~ShouldStart(s) /\ s.state = "open"
  <2>1. v \in Remotes
    BY <1>1, SendWatchType
  <2>2. /\ v.call.requests = Append(s.call.requests, Watches(t, v.listen[t]))
        /\ v.call.messages = s.call.messages /\ v.call.serving = s.call.serving
        /\ v.call.caughtUp = s.call.caughtUp
        /\ v.pending[t] = s.pending[t] + 1 /\ v.listens = s.listens /\ v.listen[t] # 0
        /\ \A u \in Targets \ {t} : SameAt(s, v, u)
    BY <1>1, SendWatchIs
  <2> HIDE DEF v
  <2> DEFINE x == Watches(t, v.listen[t])
  <2>3. x \in Asks(t) /\ x.kind = "watch" /\ x.listen = v.listen[t]
    <3>1. v.listen[t] \in Nat
      BY <2>1 DEF Remotes
    <3> QED
      BY <3>1 DEF Watches, Asks, Requests
  <2> HIDE DEF x
  <2>4. \A u \in Targets \ {t} : SameAt(r, v, u)
    BY <1>1, <2>2 DEF SameAt
  <2>5. v.call.requests = Append(r.call.requests, x)
    BY <1>1, <2>2 DEF x
  <2>6. Tracks(v, C)
    BY <1>1, <1>5, <2>1, <2>2, <2>3, <2>4, <2>5, RequestSent
  <2> QED
    BY <1>2, <1>5, <2>6
<1> QED
  BY <1>3, <1>4, <1>5

\* A target is given up.
LEMMA StoppedTracks ==
  ASSUME NEW r \in Remotes, NEW t \in Targets, NEW C, Tracks(r, C)
  PROVE  Tracks(StoppedListening(r, t), C)
<1> DEFINE s == [r EXCEPT !.listens = @ \ {t}]
           u == IF s.state = "open" THEN SendUnwatch(s, t) ELSE s
<1>1. /\ s \in Remotes /\ s.state = r.state /\ s.call = r.call
      /\ s.pending = r.pending /\ s.listen = r.listen /\ s.listens = r.listens \ {t}
  BY DEF Remotes
<1>2. StoppedListening(r, t) =
        IF u.listens # {} THEN u
        ELSE IF u.state = "open" THEN [u EXCEPT !.idle = TRUE] ELSE UpdateState(u, "unknown")
  BY DEF StoppedListening
<1> HIDE DEF s
<1>3. CASE s.state # "open"
  <2>1. u = s /\ UpdateState(s, "unknown").state # "open"
    BY <1>1, <1>3 DEF UpdateState, Remotes
  <2> QED
    BY <1>2, <1>3, <2>1 DEF Tracks
<1>4. CASE s.state = "open"
  <2> DEFINE v == SendUnwatch(s, t)
             x == Unwatches(t)
  <2>1. v \in Remotes /\ v.state = "open"
    BY <1>1, <1>4, SendUnwatchType
  <2>2. /\ v.call.requests = Append(s.call.requests, x)
        /\ v.call.messages = s.call.messages /\ v.call.serving = s.call.serving
        /\ v.call.caughtUp = s.call.caughtUp
        /\ v.pending[t] = s.pending[t] + 1 /\ v.listens = s.listens
        /\ \A w \in Targets \ {t} : SameAt(s, v, w)
    BY <1>1, SendUnwatchIs
  <2>3. x \in Asks(t) /\ x.kind # "watch"
    BY DEF Unwatches, Asks, Requests
  <2>4. u = v
    BY <1>4
  <2> HIDE DEF v, x, u
  <2>5. \A w \in Targets \ {t} : SameAt(r, v, w)
    BY <1>1, <2>2 DEF SameAt
  <2>6. Tracks(v, C)
    BY <1>1, <1>4, <2>1, <2>2, <2>3, <2>5, RequestSent
  <2> DEFINE i == [v EXCEPT !.idle = TRUE]
  <2>7. /\ i.state = v.state /\ i.call = v.call /\ i.listens = v.listens
        /\ i.pending = v.pending /\ i.listen = v.listen
    BY <2>1 DEF Remotes
  <2> HIDE DEF i
  <2>8. Tracks(i, C)
    BY <2>6, <2>7 DEF Tracks, LinkedAt, TrustedAt
  <2>9. StoppedListening(r, t) \in {v, i}
    BY <1>2, <2>1, <2>4 DEF i
  <2> QED
    BY <2>6, <2>8, <2>9
<1> QED
  BY <1>3, <1>4

\* Nothing is in the empty sequence, ...
LEMMA CountNone ==
  \A A : Of(<<>>, A) = {} /\ Free(<<>>, A) /\ Final(<<>>, A) = {} /\ Count(<<>>, A) = 0
<1>1. DOMAIN <<>> = {}
  OBVIOUS
<1> QED
  BY <1>1, FS_EmptySet DEF Of, Free, Final, Count

\* ... and nothing is under way on a call that begins.
LEMMA NothingLinked ==
  ASSUME NEW t, NEW n
  PROVE  Linked(<<>>, <<>>, 0, n, t) /\ Trusted(<<>>, <<>>, 0, FALSE, 0, t)
<1>1. DOMAIN <<>> = {}
  OBVIOUS
<1> QED
  BY <1>1, CountNone DEF Linked, Stops, Numbers, Trusted, Told

\* The stream opens.
LEMMA OpenedTracks ==
  ASSUME NEW r \in Remotes, Sound(r), r.state = "starting"
  PROVE  Tracks(Opened(r), {})
<1> DEFINE ts == SetToSeq(r.listens)
           l == Counted(r.listen, r.listens, 1)
           y == [k \in 1..Len(ts) |-> Watches(ts[k], l[ts[k]])]
           s == Opened(r)
<1>1. r.call = NoCall /\ r.pending = Zero /\ r.listens \in SUBSET Targets
  BY DEF Sound, Quiet, Remotes
<1>2. l \in [Targets -> Nat] /\ \A t \in r.listens : l[t] # 0
  <2>1. l \in [Targets -> Nat]
    BY <1>1, CountedType
  <2>2. \A t \in r.listens : l[t] = r.listen[t] + 1 /\ r.listen[t] \in Nat
    BY <1>1 DEF Counted, Remotes
  <2> QED
    BY <2>1, <2>2
<1>3. Lists(ts, r.listens)
  BY <1>1, SetToSeqLists
<1>4. /\ s.call.requests = <<>> \o y /\ s.call.messages = <<>> /\ s.call.serving = Zero
      /\ s.call.caughtUp = {}
      /\ s.pending = Counted(Zero, r.listens, 1) /\ s.listen = l /\ s.listens = r.listens
  <2>1. /\ s.call.requests = r.call.requests \o y /\ s.call.messages = r.call.messages
        /\ s.call.serving = r.call.serving /\ s.call.caughtUp = r.call.caughtUp
        /\ s.pending = Counted(r.pending, r.listens, 1) /\ s.listen = l /\ s.listens = r.listens
    BY DEF Opened, Remotes, Calls
  <2>2. r.call.requests = <<>> /\ r.call.messages = <<>> /\ r.call.serving = Zero
        /\ r.call.caughtUp = {}
    BY <1>1 DEF NoCall
  <2> HIDE DEF s, l, y
  <2> QED
    BY <1>1, <2>1, <2>2
<1> HIDE DEF s, ts, l
<1>5. DOMAIN y = DOMAIN ts /\ \A k \in DOMAIN y : y[k] = Watches(ts[k], l[ts[k]])
  BY <1>3 DEF Lists
<1>6. y \in Seq(Requests)
  <2>1. \A k \in 1..Len(ts) : Watches(ts[k], l[ts[k]]) \in Requests
    BY <1>1, <1>2, <1>3 DEF Watches, Requests, Lists
  <2> QED
    BY <1>3, <2>1 DEF Lists
<1> HIDE DEF y
<1>7. /\ \A k \in DOMAIN y : y[k].kind = "watch" => y[k].listen # 0
      /\ \A t \in r.listens : /\ Final(y, Asks(t)) = {Watches(t, l[t])}
                              /\ Watches(t, l[t]) \in Asks(t)
                              /\ Count(y, Asks(t)) = 1
      /\ \A t \in Targets \ r.listens : Free(y, Asks(t))
  BY <1>1, <1>2, <1>3, <1>5, OpeningAsks
<1>8. <<>> \in Seq(Requests) /\ <<>> \in Seq(Messages)
  OBVIOUS
<1>9. ASSUME NEW t \in Targets, t \in r.listens
      PROVE  LinkedAt(s, t) /\ TrustedAt(s, t)
  <2> DEFINE x == Watches(t, l[t])
  <2>1. x \in Asks(t) /\ Final(y, Asks(t)) = {x} /\ x.kind = "watch" /\ x.listen = l[t]
    BY <1>7, <1>9 DEF Watches
  <2>2. Linked(<<>>, <<>>, 0, r.listen[t], t)
    BY NothingLinked
  <2> HIDE DEF x
  <2>3. /\ Linked(<<>> \o y, <<>>, 0, l[t], t)
        /\ \A b, p : /\ b <=> x.kind = "watch"
                     /\ p = Count(<<>>, Asks(t)) + Count(<<>>, Answers(t)) + Count(y, Asks(t))
                     => Trusted(<<>> \o y, <<>>, 0, b, p, t)
    BY <1>6, <1>7, <1>8, <2>1, <2>2, AskSome
  <2>4. s.pending[t] = 1 /\ s.call.serving[t] = 0
    BY <1>4, <1>9 DEF Counted, Zero
  <2>5. Count(<<>>, Asks(t)) = 0 /\ Count(<<>>, Answers(t)) = 0
    BY CountNone
  <2>6. s.pending[t] = Count(<<>>, Asks(t)) + Count(<<>>, Answers(t)) + Count(y, Asks(t))
    BY <1>7, <1>9, <2>4, <2>5
  <2> QED
    BY <1>4, <1>9, <2>1, <2>3, <2>4, <2>6 DEF LinkedAt, TrustedAt
<1>10. ASSUME NEW t \in Targets, t \notin r.listens
       PROVE  LinkedAt(s, t) /\ TrustedAt(s, t)
  <2>1. /\ Linked(<<>> \o y, <<>>, 0, l[t], t)
        /\ Trusted(<<>> \o y, <<>>, 0, FALSE, 0, t)
    BY <1>6, <1>7, <1>8, <1>10, NothingLinked, AskNone
  <2>2. s.pending[t] = 0 /\ s.call.serving[t] = 0
    BY <1>4, <1>10 DEF Counted, Zero
  <2>3. (t \in s.listens) = FALSE
    BY <1>4, <1>10
  <2> QED
    BY <1>4, <2>1, <2>2, <2>3 DEF LinkedAt, TrustedAt
<1> QED
  BY <1>9, <1>10 DEF Tracks, s

\* A snapshot is raised.
LEMMA RaisedTracks ==
  ASSUME NEW r \in Remotes, NEW C, Tracks(r, C), r.state = "open"
  PROVE  Tracks(Raised(r), C)
<1> DEFINE S == r.resets \cap r.listens
           ts == SetToSeq(S)
           l == Counted(r.listen, S, 1)
           Request(t, k) == IF k % 2 = 1 THEN Unwatches(t) ELSE Watches(t, l[t])
           y == [k \in 1..(2 * Len(ts)) |-> Request(ts[(k + 1) \div 2], k)]
           q == r.call.requests
           m == r.call.messages
           s == Raised(r)
<1>1. S \in SUBSET Targets /\ q \in Seq(Requests) /\ m \in Seq(Messages)
  BY CallTypes DEF Remotes
<1>2. l \in [Targets -> Nat] /\ \A t \in S : l[t] # 0
  <2>1. l \in [Targets -> Nat]
    BY <1>1, CountedType
  <2>2. \A t \in S : l[t] = r.listen[t] + 1 /\ r.listen[t] \in Nat
    BY <1>1 DEF Counted, Remotes
  <2> HIDE DEF l, S
  <2> QED
    BY <2>1, <2>2
<1>3. Lists(ts, S)
  BY <1>1, SetToSeqLists
<1>4. /\ s.call.requests = q \o y /\ s.call.messages = m /\ s.call.serving = r.call.serving
      /\ s.call.caughtUp = r.call.caughtUp
      /\ s.pending = Counted(r.pending, S, 2) /\ s.listen = l /\ s.listens = r.listens
  BY DEF Raised, Remotes, Calls
<1> HIDE DEF s, ts, l
<1>5. /\ DOMAIN y = 1..(2 * Len(ts))
      /\ \A k \in DOMAIN y : y[k] = IF k % 2 = 1 THEN Unwatches(ts[(k + 1) \div 2])
                                    ELSE Watches(ts[(k + 1) \div 2], l[ts[(k + 1) \div 2]])
  OBVIOUS
<1>6. y \in Seq(Requests)
  <2>1. \A k \in 1..(2 * Len(ts)) : (k + 1) \div 2 \in DOMAIN ts
    BY <1>3 DEF Lists
  <2>2. \A t \in S, k \in Nat : Request(t, k) \in Requests
    BY <1>1, <1>2 DEF Requests, Watches, Unwatches
  <2> HIDE DEF Request, S
  <2>3. \A k \in 1..(2 * Len(ts)) : Request(ts[(k + 1) \div 2], k) \in Requests
    BY <1>3, <2>1, <2>2 DEF Lists
  <2>4. 2 * Len(ts) \in Nat
    BY <1>3 DEF Lists
  <2> QED
    BY <2>3, <2>4
<1> HIDE DEF y, Request, S
<1>7. /\ \A k \in DOMAIN y : y[k].kind = "watch" => y[k].listen # 0
      /\ \A t \in S : /\ Final(y, Asks(t)) = {Watches(t, l[t])}
                      /\ Watches(t, l[t]) \in Asks(t)
                      /\ Count(y, Asks(t)) = 2
      /\ \A t \in Targets \ S : Free(y, Asks(t))
  BY <1>1, <1>2, <1>3, <1>5, RaisingAsks
<1> DEFINE w(t) == r.call.serving[t]
<1>8. \A t \in Targets : /\ Linked(q, m, w(t), r.listen[t], t)
                         /\ t \notin C => Trusted(q, m, w(t), t \in r.listens, r.pending[t], t)
                         /\ t \in s.call.caughtUp => w(t) # 0
  BY <1>4 DEF Tracks, LinkedAt, TrustedAt
<1> HIDE DEF q, m, w
<1>9. ASSUME NEW t \in Targets, t \in S
      PROVE  LinkedAt(s, t) /\ (t \notin C => TrustedAt(s, t))
  <2> DEFINE x == Watches(t, l[t])
  <2>1. x \in Asks(t) /\ Final(y, Asks(t)) = {x} /\ x.kind = "watch" /\ x.listen = l[t]
    BY <1>7, <1>9 DEF Watches
  <2> HIDE DEF x
  <2>2. /\ Linked(q \o y, m, w(t), l[t], t)
        /\ \A b, p : /\ b <=> x.kind = "watch"
                     /\ p = Count(q, Asks(t)) + Count(m, Answers(t)) + Count(y, Asks(t))
                     => Trusted(q \o y, m, w(t), b, p, t)
    BY <1>1, <1>6, <1>7, <1>8, <2>1, AskSome
  <2>3. s.pending[t] = r.pending[t] + 2 /\ t \in s.listens
    BY <1>4, <1>9 DEF Counted, S
  <2>4. t \notin C => s.pending[t] = Count(q, Asks(t)) + Count(m, Answers(t)) + Count(y, Asks(t))
    BY <1>7, <1>8, <1>9, <2>3 DEF Trusted
  <2> QED
    BY <1>4, <1>8, <2>1, <2>2, <2>3, <2>4 DEF LinkedAt, TrustedAt, w
<1>10. ASSUME NEW t \in Targets, t \notin S
       PROVE  LinkedAt(s, t) /\ (t \notin C => TrustedAt(s, t))
  <2>1. l[t] = r.listen[t] /\ s.pending[t] = r.pending[t]
    BY <1>4, <1>10 DEF Counted, l, S
  <2>2. /\ Linked(q, m, w(t), r.listen[t], t) => Linked(q \o y, m, w(t), r.listen[t], t)
        /\ \A b, p : Trusted(q, m, w(t), b, p, t) => Trusted(q \o y, m, w(t), b, p, t)
    BY <1>1, <1>6, <1>7, <1>10, AskNone
  <2> QED
    BY <1>4, <1>8, <2>1, <2>2 DEF LinkedAt, TrustedAt, w
<1> QED
  BY <1>9, <1>10 DEF Tracks, s

\* The backend says something that is no word about a target, and no data but of
\* what it serves.
LEMMA SaidTracks ==
  ASSUME NEW r \in Remotes, NEW C, Tracks(r, C), r.state = "open", NEW x \in Messages,
         \A t \in Targets : x \notin Words(t),
         \A t \in Targets : x \in DataOf(t) => x.listen = r.call.serving[t] /\ x.listen # 0,
         NEW s, s.call.requests = r.call.requests,
         s.call.messages = Append(r.call.messages, x), s.call.serving = r.call.serving,
         \A t \in s.call.caughtUp : s.call.serving[t] # 0,
         \A t \in Targets : SameAt(r, s, t)
  PROVE  Tracks(s, C)
<1> DEFINE q == r.call.requests
           m == r.call.messages
           w(t) == r.call.serving[t]
<1>1. q \in Seq(Requests) /\ m \in Seq(Messages) /\ \A t \in Targets : w(t) \in Nat
  BY CallTypes
<1>2. SUFFICES ASSUME NEW t \in Targets
               PROVE  LinkedAt(s, t) /\ (t \notin C => TrustedAt(s, t))
  BY DEF Tracks
<1>3. /\ Linked(q, m, w(t), r.listen[t], t)
      /\ t \notin C => Trusted(q, m, w(t), t \in r.listens, r.pending[t], t)
  BY DEF Tracks, LinkedAt, TrustedAt
<1>4. /\ x \notin Words(t) /\ (x \in DataOf(t) => x.listen = w(t) /\ w(t) # 0)
      /\ SameAt(r, s, t) /\ s.call.requests = q /\ s.call.messages = Append(m, x)
      /\ s.call.serving[t] = w(t)
  OBVIOUS
<1> HIDE DEF q, m, w
<1>5. /\ Linked(q, m, w(t), r.listen[t], t) => Linked(q, Append(m, x), w(t), r.listen[t], t)
      /\ \A b, p : Trusted(q, m, w(t), b, p, t) => Trusted(q, Append(m, x), w(t), b, p, t)
  BY <1>1, <1>4, SaysElse
<1>6. /\ s.listen[t] = r.listen[t] /\ s.pending[t] = r.pending[t]
      /\ (t \in s.listens) = (t \in r.listens)
  BY <1>4 DEF SameAt
<1> QED
  BY <1>3, <1>4, <1>5, <1>6 DEF LinkedAt, TrustedAt

\* The backend reads a request and answers it.
LEMMA AnsweredTracks ==
  ASSUME NEW r \in Remotes, NEW C, Tracks(r, C), r.state = "open", r.call.requests # <<>>,
         NEW t \in Targets, t = Head(r.call.requests).target,
         NEW x \in Messages, x \in Answers(t),
         Head(r.call.requests).kind = "watch" <=> x.kind # "removed",
         NEW z, z = (IF x.kind = "added" THEN Head(r.call.requests).listen ELSE 0),
         NEW s, s.call.requests = Tail(r.call.requests),
         s.call.messages = Append(r.call.messages, x),
         s.call.serving[t] = z,
         \A u \in Targets \ {t} : s.call.serving[u] = r.call.serving[u],
         \A u \in s.call.caughtUp : s.call.serving[u] # 0,
         \A u \in Targets : SameAt(r, s, u)
  PROVE  Tracks(s, C)
<1> DEFINE q == r.call.requests
           m == r.call.messages
           w(u) == r.call.serving[u]
<1>1. /\ q \in Seq(Requests) /\ q # <<>> /\ m \in Seq(Messages)
      /\ \A u \in Targets : w(u) \in Nat
  BY CallTypes
<1>2. \A u \in Targets :
        /\ Linked(q, m, w(u), r.listen[u], u)
        /\ u \notin C => Trusted(q, m, w(u), u \in r.listens, r.pending[u], u)
  BY DEF Tracks, LinkedAt, TrustedAt
<1>3. /\ s.call.requests = Tail(q) /\ s.call.messages = Append(m, x)
      /\ \A u \in Targets \ {t} : s.call.serving[u] = w(u)
      /\ Head(q).target = t /\ (Head(q).kind = "watch" <=> x.kind # "removed")
      /\ z = IF x.kind = "added" THEN Head(q).listen ELSE 0
  OBVIOUS
<1>4. \A u \in Targets : /\ s.listen[u] = r.listen[u] /\ s.pending[u] = r.pending[u]
                         /\ (u \in s.listens) = (u \in r.listens)
  BY DEF SameAt
<1> HIDE DEF q, m, w
<1>5. Head(q) \in Requests /\ Tail(q) \in Seq(Requests)
  BY <1>1, TailIs
<1>6. Head(q) \in Asks(t) /\ Head(q).listen \in Nat /\ z \in Nat
  BY <1>3, <1>5 DEF Asks, Requests
<1>7. LinkedAt(s, t) /\ (t \notin C => TrustedAt(s, t))
  <2>1. Linked(q, m, w(t), r.listen[t], t)
    BY <1>2
  <2>2. /\ Linked(Tail(q), Append(m, x), z, r.listen[t], t)
        /\ \A b, p : Trusted(q, m, w(t), b, p, t) => Trusted(Tail(q), Append(m, x), z, b, p, t)
    BY <1>1, <1>3, <1>6, <2>1, AnswersIt
  <2> QED
    BY <1>2, <1>3, <1>4, <2>2 DEF LinkedAt, TrustedAt
<1>8. ASSUME NEW u \in Targets, u # t
      PROVE  LinkedAt(s, u) /\ (u \notin C => TrustedAt(s, u))
  <2>1. Head(q) \notin Asks(u) /\ x \notin Words(u) /\ x \notin DataOf(u)
    BY <1>3, <1>8 DEF Asks, Answers, Words, DataOf
  <2>2. /\ Linked(q, m, w(u), r.listen[u], u) => Linked(Tail(q), m, w(u), r.listen[u], u)
        /\ \A b, p : Trusted(q, m, w(u), b, p, u) => Trusted(Tail(q), m, w(u), b, p, u)
    BY <1>1, <2>1, ReadsElse
  <2>3. /\ Linked(Tail(q), m, w(u), r.listen[u], u) =>
             Linked(Tail(q), Append(m, x), w(u), r.listen[u], u)
        /\ \A b, p : Trusted(Tail(q), m, w(u), b, p, u) =>
                       Trusted(Tail(q), Append(m, x), w(u), b, p, u)
    BY <1>1, <2>1, SaysElse
  <2>4. s.call.serving[u] = w(u)
    BY <1>3, <1>8
  <2> QED
    BY <1>2, <1>3, <1>4, <2>2, <2>3, <2>4 DEF LinkedAt, TrustedAt
<1> QED
  BY <1>7, <1>8 DEF Tracks

\* The backend expels a target.
LEMMA ExpelledTracks ==
  ASSUME NEW r \in Remotes, NEW C, Tracks(r, C), r.state = "open",
         NEW t \in Targets, r.call.serving[t] # 0,
         NEW x \in Messages, x \in Words(t) \ Answers(t),
         NEW s, s.call.requests = r.call.requests,
         s.call.messages = Append(r.call.messages, x),
         s.call.serving[t] = 0,
         \A u \in Targets \ {t} : s.call.serving[u] = r.call.serving[u],
         \A u \in s.call.caughtUp : s.call.serving[u] # 0,
         \A u \in Targets : SameAt(r, s, u)
  PROVE  Tracks(s, C)
<1> DEFINE q == r.call.requests
           m == r.call.messages
           w(u) == r.call.serving[u]
<1>1. /\ q \in Seq(Requests) /\ m \in Seq(Messages)
      /\ (\A u \in Targets : w(u) \in Nat) /\ w(t) # 0
  BY CallTypes
<1>2. \A u \in Targets :
        /\ Linked(q, m, w(u), r.listen[u], u)
        /\ u \notin C => Trusted(q, m, w(u), u \in r.listens, r.pending[u], u)
  BY DEF Tracks, LinkedAt, TrustedAt
<1>3. /\ s.call.requests = q /\ s.call.messages = Append(m, x)
      /\ \A u \in Targets \ {t} : s.call.serving[u] = w(u)
  OBVIOUS
<1>4. \A u \in Targets : /\ s.listen[u] = r.listen[u] /\ s.pending[u] = r.pending[u]
                         /\ (u \in s.listens) = (u \in r.listens)
  BY DEF SameAt
<1> HIDE DEF q, m, w
<1>5. LinkedAt(s, t) /\ (t \notin C => TrustedAt(s, t))
  <2>1. /\ Linked(q, m, w(t), r.listen[t], t) => Linked(q, Append(m, x), 0, r.listen[t], t)
        /\ \A b, p : Linked(q, m, w(t), r.listen[t], t) /\ Trusted(q, m, w(t), b, p, t) =>
                       Trusted(q, Append(m, x), 0, b, p, t)
    BY <1>1, Expelled
  <2> QED
    BY <1>2, <1>3, <1>4, <2>1 DEF LinkedAt, TrustedAt
<1>6. ASSUME NEW u \in Targets, u # t
      PROVE  LinkedAt(s, u) /\ (u \notin C => TrustedAt(s, u))
  <2>1. x \notin Words(u) /\ x \notin DataOf(u)
    BY <1>6 DEF Answers, Words, DataOf
  <2>2. /\ Linked(q, m, w(u), r.listen[u], u) => Linked(q, Append(m, x), w(u), r.listen[u], u)
        /\ \A b, p : Trusted(q, m, w(u), b, p, u) => Trusted(q, Append(m, x), w(u), b, p, u)
    BY <1>1, <2>1, SaysElse
  <2>3. s.call.serving[u] = w(u)
    BY <1>3, <1>6
  <2> QED
    BY <1>2, <1>3, <1>4, <2>2, <2>3 DEF LinkedAt, TrustedAt
<1> QED
  BY <1>5, <1>6 DEF Tracks

\* Whatever the backend does, the rest of the remote store stays.
LEMMA WithCall ==
  ASSUME NEW r \in Remotes, NEW c
  PROVE  LET s == [r EXCEPT !.call = c] IN
         s.call = c /\ s.state = r.state /\ \A t \in Targets : SameAt(r, s, t)
  BY DEF Remotes, SameAt

\* The fields of a call the backend has said something on, or dropped a target of.
LEMMA SaysIs ==
  ASSUME NEW c \in Calls, NEW x
  PROVE  /\ Says(c, x).requests = c.requests /\ Says(c, x).messages = Append(c.messages, x)
         /\ Says(c, x).serving = c.serving /\ Says(c, x).caughtUp = c.caughtUp
  BY DEF Says, Calls

\* The same of a call on which a target is dropped.
LEMMA DropsIs ==
  ASSUME NEW c \in Calls, NEW t \in Targets
  PROVE  /\ Drops(c, t).requests = c.requests /\ Drops(c, t).messages = c.messages
         /\ Drops(c, t).serving[t] = 0
         /\ \A u \in Targets \ {t} : Drops(c, t).serving[u] = c.serving[u]
         /\ Drops(c, t).caughtUp = c.caughtUp \ {t}
  BY DEF Drops, Calls

\* Every step of the backend.
LEMMA BackendTracks ==
  ASSUME Sound(remote), Tracks(remote, crossed), Backend
  PROVE  Tracks(remote', crossed)
<1>1. remote \in Remotes /\ remote.call \in Calls
  BY DEF Sound, Remotes
<1>a. remote.state = "open" => \A u \in remote.call.caughtUp : remote.call.serving[u] # 0
  BY <1>1 DEF Tracks, LinkedAt, Calls
<1>0. remote.call # NoCall => remote.state = "open"
  BY DEF Sound, Quiet
<1>2. CASE BackendAnswers
  <2> DEFINE q == Head(remote.call.requests)
             t == q.target
             k == [remote.call EXCEPT !.requests = Tail(@)]
             c == Drops(k, t)
             a == Message("added", t, q.listen)
             d == Message("removed", t, 0)
             n == Message("rejected", t, q.listen)
             e == Says(c, a)
             b == [e EXCEPT !.serving[t] = q.listen]
  <2>1. /\ remote.call.requests \in Seq(Requests) /\ remote.call.requests # <<>>
        /\ remote.call # NoCall
    <3>1. remote.call.requests # <<>>
      BY <1>2 DEF BackendAnswers
    <3>2. NoCall.requests = <<>>
      BY DEF NoCall
    <3>3. remote.call.requests \in Seq(Requests)
      BY <1>1 DEF Calls
    <3> QED
      BY <3>1, <3>2, <3>3
  <2>2. /\ q \in Requests /\ t \in Targets /\ q.listen \in Nat /\ q.kind \in {"watch", "unwatch"}
        /\ q = remote.call.requests[1] /\ 1 \in DOMAIN remote.call.requests
        /\ Tail(remote.call.requests) \in Seq(Requests)
    <3>1. /\ q \in Requests
          /\ q = remote.call.requests[1] /\ 1 \in DOMAIN remote.call.requests
          /\ Tail(remote.call.requests) \in Seq(Requests)
      BY <2>1
    <3> QED
      BY <3>1 DEF Requests
  <2>3. /\ k \in Calls /\ k.requests = Tail(remote.call.requests)
        /\ k.messages = remote.call.messages /\ k.serving = remote.call.serving
        /\ k.caughtUp = remote.call.caughtUp
    BY <1>1, <2>2 DEF Calls
  <2>4. \/ /\ q.kind = "unwatch"
           /\ remote' = [remote EXCEPT !.call = Says(c, d)]
        \/ /\ q.kind # "unwatch"
           /\ remote' = [remote EXCEPT !.call = b]
        \/ /\ q.kind # "unwatch"
           /\ remote' = [remote EXCEPT !.call = Says(c, n)]
    BY <1>2 DEF BackendAnswers
  <2>5. q.kind = "watch" => q.listen # 0
    <3>1. LinkedAt(remote, t)
      BY <1>0, <2>1, <2>2 DEF Tracks
    <3>2. q \in Asks(t)
      BY <2>2 DEF Asks
    <3> QED
      BY <2>2, <3>1, <3>2 DEF LinkedAt, Linked, Numbers
  <2>6. /\ d \in Answers(t) /\ d.kind = "removed" /\ a.kind = "added" /\ n.kind = "rejected"
        /\ a \in Answers(t) /\ (q.listen # 0 => n \in Answers(t))
        /\ d \in Messages /\ a \in Messages /\ n \in Messages
    BY <2>2 DEF Message, Answers, Words, Messages, Sayings
  <2> HIDE DEF k, a, d, n
  <2>7. c \in Calls
    BY <2>3, DropsType
  <2>8. /\ c.requests = Tail(remote.call.requests) /\ c.messages = remote.call.messages
        /\ c.serving[t] = 0
        /\ \A u \in Targets \ {t} : c.serving[u] = remote.call.serving[u]
        /\ c.caughtUp = remote.call.caughtUp \ {t}
    BY <2>2, <2>3, DropsIs
  <2>12. \A u \in c.caughtUp : u \in Targets /\ u # t /\ c.serving[u] # 0
    BY <1>0, <1>1, <1>a, <2>1, <2>8 DEF Calls
  <2> HIDE DEF c
  <2>9. CASE q.kind = "unwatch" /\ remote' = [remote EXCEPT !.call = Says(c, d)]
    <3> DEFINE f == Says(c, d)
               s == [remote EXCEPT !.call = f]
    <3>1. /\ f.requests = Tail(remote.call.requests)
          /\ f.messages = Append(remote.call.messages, d) /\ f.serving = c.serving
          /\ f.caughtUp = c.caughtUp
      BY <2>7, <2>8, SaysIs
    <3> HIDE DEF f
    <3>2. s.call = f /\ \A u \in Targets : SameAt(remote, s, u)
      BY <1>1, WithCall
    <3>3. remote' = s
      BY <2>9 DEF f
    <3> HIDE DEF s, q, t
    <3>4. /\ t = Head(remote.call.requests).target
          /\ Head(remote.call.requests).kind = "watch" <=> d.kind # "removed"
          /\ 0 = IF d.kind = "added" THEN Head(remote.call.requests).listen ELSE 0
      BY <2>6, <2>9 DEF q, t
    <3>5. /\ d \in Messages /\ d \in Answers(t) /\ t \in Targets
          /\ remote.call.requests # <<>> /\ remote.state = "open"
      BY <1>0, <2>1, <2>2, <2>6
    <3>7. /\ s.call.requests = Tail(remote.call.requests)
          /\ s.call.messages = Append(remote.call.messages, d) /\ s.call.serving[t] = 0
          /\ \A u \in Targets \ {t} : s.call.serving[u] = remote.call.serving[u]
          /\ \A u \in s.call.caughtUp : s.call.serving[u] # 0
      BY <2>8, <2>12, <3>1, <3>2
    <3>8. Tracks(s, crossed)
      BY <1>1, <3>2, <3>4, <3>5, <3>7, AnsweredTracks
    <3> QED
      BY <3>3, <3>8
  <2>10. CASE q.kind # "unwatch" /\ remote' = [remote EXCEPT !.call = b]
    <3> DEFINE s == [remote EXCEPT !.call = b]
    <3>0. /\ e \in Calls /\ e.requests = Tail(remote.call.requests)
          /\ e.messages = Append(remote.call.messages, a) /\ e.serving = c.serving
          /\ e.caughtUp = c.caughtUp
      BY <2>6, <2>7, <2>8, SaysIs, SaysType
    <3> HIDE DEF e
    <3>1. /\ b.requests = Tail(remote.call.requests)
          /\ b.messages = Append(remote.call.messages, a)
          /\ b.serving[t] = q.listen
          /\ \A u \in Targets \ {t} : b.serving[u] = remote.call.serving[u]
          /\ \A u \in b.caughtUp : b.serving[u] # 0
      BY <2>2, <2>8, <2>12, <3>0 DEF Calls
    <3> HIDE DEF b
    <3>2. s.call = b /\ \A u \in Targets : SameAt(remote, s, u)
      BY <1>1, WithCall
    <3>3. remote' = s
      BY <2>10
    <3> HIDE DEF s, q, t
    <3>4. /\ t = Head(remote.call.requests).target
          /\ Head(remote.call.requests).kind = "watch" <=> a.kind # "removed"
          /\ q.listen = IF a.kind = "added" THEN Head(remote.call.requests).listen ELSE 0
      BY <2>2, <2>6, <2>10 DEF q, t
    <3>5. /\ a \in Messages /\ a \in Answers(t) /\ t \in Targets
          /\ remote.call.requests # <<>> /\ remote.state = "open"
      BY <1>0, <2>1, <2>2, <2>6
    <3>7. /\ s.call.requests = Tail(remote.call.requests)
          /\ s.call.messages = Append(remote.call.messages, a) /\ s.call.serving[t] = q.listen
          /\ \A u \in Targets \ {t} : s.call.serving[u] = remote.call.serving[u]
          /\ \A u \in s.call.caughtUp : s.call.serving[u] # 0
      BY <3>1, <3>2
    <3>8. Tracks(s, crossed)
      BY <1>1, <3>2, <3>4, <3>5, <3>7, AnsweredTracks
    <3> QED
      BY <3>3, <3>8
  <2>11. CASE q.kind # "unwatch" /\ remote' = [remote EXCEPT !.call = Says(c, n)]
    <3> DEFINE f == Says(c, n)
               s == [remote EXCEPT !.call = f]
    <3>1. /\ f.requests = Tail(remote.call.requests)
          /\ f.messages = Append(remote.call.messages, n) /\ f.serving = c.serving
          /\ f.caughtUp = c.caughtUp
      BY <2>7, <2>8, SaysIs
    <3> HIDE DEF f
    <3>2. s.call = f /\ \A u \in Targets : SameAt(remote, s, u)
      BY <1>1, WithCall
    <3>3. remote' = s
      BY <2>11 DEF f
    <3>6. n \in Answers(t)
      BY <2>2, <2>5, <2>6, <2>11
    <3> HIDE DEF s, q, t
    <3>4. /\ t = Head(remote.call.requests).target
          /\ Head(remote.call.requests).kind = "watch" <=> n.kind # "removed"
          /\ 0 = IF n.kind = "added" THEN Head(remote.call.requests).listen ELSE 0
      BY <2>2, <2>6, <2>11 DEF q, t
    <3>5. n \in Messages /\ t \in Targets /\ remote.call.requests # <<>> /\ remote.state = "open"
      BY <1>0, <2>1, <2>2, <2>6
    <3>7. /\ s.call.requests = Tail(remote.call.requests)
          /\ s.call.messages = Append(remote.call.messages, n) /\ s.call.serving[t] = 0
          /\ \A u \in Targets \ {t} : s.call.serving[u] = remote.call.serving[u]
          /\ \A u \in s.call.caughtUp : s.call.serving[u] # 0
      BY <2>8, <2>12, <3>1, <3>2
    <3>8. Tracks(s, crossed)
      BY <1>1, <3>2, <3>4, <3>5, <3>6, <3>7, AnsweredTracks
    <3> QED
      BY <3>3, <3>8
  <2> QED
    BY <2>4, <2>9, <2>10, <2>11
<1>3. ASSUME NEW t \in Targets, BackendCatchesUp(t)
      PROVE  Tracks(remote', crossed)
  <2> DEFINE a == Message("current", t, remote.call.serving[t])
             e == Says(remote.call, a)
             b == [e EXCEPT !.caughtUp = @ \cup {t}, !.owes = TRUE]
             s == [remote EXCEPT !.call = b]
  <2>1. /\ a \in Messages /\ (\A u \in Targets : a \notin Words(u)) /\ a.listen = remote.call.serving[t]
        /\ \A u \in Targets : a \in DataOf(u) => u = t
    BY <1>1 DEF Message, Messages, Sayings, Data, Calls, Words, DataOf
  <2>2. remote.call # NoCall /\ remote.call.serving[t] # 0
    BY <1>3 DEF BackendCatchesUp, NoCall, Zero
  <2>3. remote' = s
    BY <1>3 DEF BackendCatchesUp
  <2> HIDE DEF a
  <2>4. /\ e \in Calls /\ e.requests = remote.call.requests
        /\ e.messages = Append(remote.call.messages, a) /\ e.serving = remote.call.serving
        /\ e.caughtUp = remote.call.caughtUp
    BY <1>1, <2>1, SaysIs, SaysType
  <2> HIDE DEF e
  <2>5. /\ b.requests = remote.call.requests
        /\ b.messages = Append(remote.call.messages, a) /\ b.serving = remote.call.serving
        /\ \A v \in b.caughtUp : b.serving[v] # 0
    BY <1>0, <1>a, <2>2, <2>4 DEF Calls
  <2> HIDE DEF b
  <2>6. s.call = b /\ \A u \in Targets : SameAt(remote, s, u)
    BY <1>1, WithCall
  <2> HIDE DEF s
  <2>7. Tracks(s, crossed)
    BY <1>0, <1>1, <2>1, <2>2, <2>5, <2>6, SaidTracks
  <2> QED
    BY <2>3, <2>7
<1>4. ASSUME NEW t \in Targets, NEW kind \in {"reset", "filter"}, BackendUpsets(t, kind)
      PROVE  Tracks(remote', crossed)
  <2> DEFINE a == Message(kind, t, remote.call.serving[t])
             e == Says(remote.call, a)
             u == IF kind = "reset" THEN e.caughtUp \ {t} ELSE e.caughtUp
             b == [e EXCEPT !.caughtUp = u, !.owes = TRUE]
             s == [remote EXCEPT !.call = b]
  <2>1. /\ a \in Messages /\ (\A v \in Targets : a \notin Words(v)) /\ a.listen = remote.call.serving[t]
        /\ \A v \in Targets : a \in DataOf(v) => v = t
    BY <1>1 DEF Message, Messages, Sayings, Data, Calls, Words, DataOf
  <2>2. remote.call # NoCall /\ remote.call.serving[t] # 0
    BY <1>0, <1>4, <1>a DEF BackendUpsets, NoCall
  <2>3. remote' = s
    BY <1>4 DEF BackendUpsets
  <2> HIDE DEF a
  <2>4. /\ e \in Calls /\ e.requests = remote.call.requests
        /\ e.messages = Append(remote.call.messages, a) /\ e.serving = remote.call.serving
        /\ e.caughtUp = remote.call.caughtUp
    BY <1>1, <2>1, SaysIs, SaysType
  <2> HIDE DEF e
  <2>5. /\ b.requests = remote.call.requests
        /\ b.messages = Append(remote.call.messages, a) /\ b.serving = remote.call.serving
        /\ \A v \in b.caughtUp : b.serving[v] # 0
    BY <1>0, <1>a, <2>2, <2>4 DEF Calls
  <2> HIDE DEF b
  <2>6. s.call = b /\ \A v \in Targets : SameAt(remote, s, v)
    BY <1>1, WithCall
  <2> HIDE DEF s
  <2>7. Tracks(s, crossed)
    BY <1>0, <1>1, <2>1, <2>2, <2>5, <2>6, SaidTracks
  <2> QED
    BY <2>3, <2>7
<1>5. ASSUME NEW t \in Targets, BackendExpels(t)
      PROVE  Tracks(remote', crossed)
  <2> DEFINE a == Message("rejected", t, 0)
             d == Drops(remote.call, t)
             e == Says(d, a)
             s == [remote EXCEPT !.call = e]
  <2>1. a \in Messages /\ a \in Words(t) \ Answers(t)
    BY DEF Message, Messages, Sayings, Words, Answers
  <2>2. remote.call # NoCall /\ remote.call.serving[t] # 0
    BY <1>5 DEF BackendExpels, NoCall, Zero
  <2>3. remote' = s
    BY <1>1, <1>5 DEF BackendExpels, Remotes
  <2> HIDE DEF a
  <2>4. /\ d \in Calls /\ d.requests = remote.call.requests
        /\ d.messages = remote.call.messages /\ d.serving[t] = 0
        /\ \A u \in Targets \ {t} : d.serving[u] = remote.call.serving[u]
        /\ d.caughtUp = remote.call.caughtUp \ {t}
    BY <1>1, DropsIs, DropsType
  <2> HIDE DEF d
  <2>5. /\ e.requests = remote.call.requests
        /\ e.messages = Append(remote.call.messages, a) /\ e.serving = d.serving
        /\ e.caughtUp = d.caughtUp
    BY <2>4, SaysIs
  <2> HIDE DEF e
  <2>6. s.call = e /\ \A u \in Targets : SameAt(remote, s, u)
    BY <1>1, WithCall
  <2>7. \A u \in e.caughtUp : e.serving[u] # 0
    BY <1>0, <1>1, <1>a, <2>2, <2>4, <2>5 DEF Calls
  <2> HIDE DEF s
  <2>8. Tracks(s, crossed)
    BY <1>0, <1>1, <2>1, <2>2, <2>4, <2>5, <2>6, <2>7, ExpelledTracks
  <2> QED
    BY <2>3, <2>8
<1>6. CASE BackendSnapshot
  <2> DEFINE a == GlobalSnapshot
             e == Says(remote.call, a)
             b == [e EXCEPT !.owes = FALSE]
             s == [remote EXCEPT !.call = b]
  <2>1. /\ a \in Messages /\ (\A v \in Targets : a \notin Words(v))
        /\ \A v \in Targets : a \notin DataOf(v)
    BY DEF Messages, GlobalSnapshot, Words, DataOf, Data
  <2>2. remote.call # NoCall
    BY <1>6 DEF BackendSnapshot, NoCall
  <2>3. remote' = s
    BY <1>1, <1>6 DEF BackendSnapshot, Remotes
  <2> HIDE DEF a
  <2>4. /\ e \in Calls /\ e.requests = remote.call.requests
        /\ e.messages = Append(remote.call.messages, a) /\ e.serving = remote.call.serving
        /\ e.caughtUp = remote.call.caughtUp
    BY <1>1, <2>1, SaysIs, SaysType
  <2> HIDE DEF e
  <2>5. /\ b.requests = remote.call.requests
        /\ b.messages = Append(remote.call.messages, a) /\ b.serving = remote.call.serving
        /\ \A v \in b.caughtUp : b.serving[v] # 0
    BY <1>0, <1>a, <2>2, <2>4 DEF Calls
  <2> HIDE DEF b
  <2>6. s.call = b /\ \A v \in Targets : SameAt(remote, s, v)
    BY <1>1, WithCall
  <2> HIDE DEF s
  <2>7. Tracks(s, crossed)
    BY <1>0, <1>1, <2>1, <2>2, <2>5, <2>6, SaidTracks
  <2> QED
    BY <2>3, <2>7
<1> QED
  BY <1>2, <1>3, <1>4, <1>5, <1>6 DEF Backend

-----------------------------------------------------------------------------
(* The client reads what is under way, and the invariant.                  *)

\* How many answers about a target are to come, counted in the model's way and in this.
LEMMA UnansweredIs ==
  ASSUME NEW c \in Calls, NEW t \in Targets
  PROVE  Unanswered(c, t) = Count(c.requests, Asks(t)) + Count(c.messages, Answers(t))
<1>1. c.requests \in Seq(Requests) /\ c.messages \in Seq(Messages)
  BY DEF Calls
<1>2. {k \in DOMAIN c.requests : c.requests[k].target = t} = Of(c.requests, Asks(t))
  BY <1>1 DEF Of, Asks
<1> DEFINE Answer(m) == /\ m.kind \in {"added", "removed"} \/ (m.kind = "rejected" /\ m.listen # 0)
                        /\ m.target = t
<1>3. \A m \in Messages : Answer(m) <=> m \in Answers(t)
  BY DEF Messages, Sayings, GlobalSnapshot, Answers, Words
<1>4. \A k \in DOMAIN c.messages : c.messages[k] \in Messages
  BY <1>1
<1> HIDE DEF Answer
<1>5. {k \in DOMAIN c.messages : Answer(c.messages[k])} = Of(c.messages, Answers(t))
  BY <1>3, <1>4 DEF Of
<1>6. Unanswered(c, t) = Cardinality({k \in DOMAIN c.requests : c.requests[k].target = t})
                         + Cardinality({k \in DOMAIN c.messages : Answer(c.messages[k])})
  BY DEF Unanswered, Answer
<1> QED
  BY <1>2, <1>5, <1>6 DEF Count

\* The fields of the state from which a target is forgotten.
LEMMA ForgetsIs ==
  ASSUME NEW r \in Remotes, NEW t \in Targets
  PROVE  LET s == Forgets(r, t) IN
         /\ s \in Remotes /\ s.call = r.call /\ s.listen = r.listen /\ s.listens = r.listens
         /\ s.pending[t] = 0 /\ \A u \in Targets \ {t} : s.pending[u] = r.pending[u]
         /\ s.state = r.state
<1> DEFINE p == [r.pending EXCEPT ![t] = 0]
<1>1. /\ p \in [Targets -> Int] /\ p[t] = 0
      /\ \A u \in Targets \ {t} : p[u] = r.pending[u]
  BY DEF Remotes
<1>2. Forgets(r, t) = [r EXCEPT !.pending = p, !.current = @ \ {t}]
  BY DEF Forgets
<1> HIDE DEF p
<1> QED
  BY <1>1, <1>2 DEF Remotes

\* The client reads a message.
LEMMA ReadTracks ==
  ASSUME Sound(remote), Tracks(remote, crossed), OnWatchStreamChange
  PROVE  Tracks(remote', crossed')
<1> DEFINE q == remote.call.requests
           m == remote.call.messages
           w(u) == remote.call.serving[u]
           h == Head(m)
           c == [remote.call EXCEPT !.messages = Tail(@), !.heard = TRUE]
           r == UpdateState([remote EXCEPT !.call = c], "online")
<1>1. /\ remote \in Remotes /\ remote.call \in Calls /\ q \in Seq(Requests)
      /\ m \in Seq(Messages) /\ m # <<>> /\ \A u \in Targets : w(u) \in Nat
  BY CallTypes DEF Sound, OnWatchStreamChange
<1>2. remote.state = "open"
  BY <1>1 DEF Sound, Quiet, NoCall
<1>3. h \in Messages /\ Tail(m) \in Seq(Messages)
  BY <1>1
<1>4. /\ c \in Calls /\ c.requests = q /\ c.messages = Tail(m)
      /\ c.serving = remote.call.serving /\ c.caughtUp = remote.call.caughtUp
  BY <1>1, <1>3 DEF Calls
<1>5. [remote EXCEPT !.call.messages = Tail(@), !.call.heard = TRUE] = [remote EXCEPT !.call = c]
  BY <1>1 DEF Remotes, Calls
<1>6. /\ remote' = CASE h.kind \in {"added", "removed"} -> Answered(r, h)
                     [] h.kind = "rejected" -> Rejected(r, h.target)
                     [] h.kind \in Data     -> Updated(r, h)
                     [] h.kind = "snapshot" -> Raised(r)
      /\ crossed' = IF h.kind = "rejected" /\ Unanswered(r.call, h.target) > 0
                      THEN crossed \cup {h.target} ELSE crossed
  BY <1>5 DEF OnWatchStreamChange
<1> HIDE DEF c
<1>7. /\ r \in Remotes /\ r.state = "open" /\ r.call = c /\ r.listens = remote.listens
      /\ r.pending = remote.pending /\ r.listen = remote.listen
  BY <1>1, <1>2, <1>4 DEF UpdateState, Remotes
<1> HIDE DEF r
<1>8. \A u \in Targets :
        /\ Linked(q, m, w(u), r.listen[u], u) /\ (u \in c.caughtUp => w(u) # 0)
        /\ u \notin crossed => Trusted(q, m, w(u), u \in r.listens, r.pending[u], u)
  BY <1>2, <1>4, <1>7 DEF Tracks, LinkedAt, TrustedAt
<1> HIDE DEF q, m, w, h
<1>9. \A u \in Targets : Linked(q, Tail(m), w(u), r.listen[u], u)
  BY <1>1, <1>8, ReadLinked
<1>10. \A u \in Targets \ crossed : h \notin Words(u) =>
         Trusted(q, Tail(m), w(u), u \in r.listens, r.pending[u], u)
  BY <1>1, <1>8, HearsElse DEF h
<1>11. \A s : s.call = c /\ s.listen = r.listen => \A u \in Targets : LinkedAt(s, u)
  BY <1>4, <1>8, <1>9 DEF LinkedAt, w
<1>12. \A s, u : /\ s.call = c /\ u \in Targets
                 /\ Trusted(q, Tail(m), w(u), u \in s.listens, s.pending[u], u)
                 => TrustedAt(s, u)
  BY <1>4 DEF TrustedAt, w
<1>13. h.kind \in {"added", "removed", "rejected", "snapshot"} \cup Data
  BY <1>3 DEF Messages, Sayings, GlobalSnapshot, Data
<1>14. h.kind # "snapshot" => h \in Sayings /\ h.target \in Targets
  BY <1>3 DEF Messages, Sayings, GlobalSnapshot
<1>15. CASE h.kind \in {"added", "removed"}
  <2> DEFINE t == h.target
             a == [r EXCEPT !.pending[t] = @ - 1]
             s == Answered(r, h)
  <2>1. remote' = s /\ crossed' = crossed
    BY <1>6, <1>15 DEF Data
  <2>2. t \in Targets /\ h \in Words(t) /\ \A u \in Targets \ {t} : h \notin Words(u)
    BY <1>14, <1>15 DEF Words
  <2>3. /\ a \in Remotes /\ a.call = c /\ a.listen = r.listen /\ a.listens = r.listens
        /\ a.pending[t] = r.pending[t] - 1
        /\ \A u \in Targets \ {t} : a.pending[u] = r.pending[u]
    BY <1>7, <2>2 DEF Remotes
  <2>4. s = IF h.kind = "removed" /\ a.pending[t] = 0 THEN Forgets(a, t) ELSE a
    BY DEF Answered
  <2> HIDE DEF a, s, t
  <2>5. /\ s.call = c /\ s.listen = r.listen /\ s.listens = r.listens
        /\ s.pending[t] = r.pending[t] - 1
        /\ \A u \in Targets \ {t} : s.pending[u] = r.pending[u]
    <3>1. CASE h.kind = "removed" /\ a.pending[t] = 0
      BY <2>2, <2>3, <2>4, <3>1, ForgetsIs
    <3>2. CASE ~(h.kind = "removed" /\ a.pending[t] = 0)
      BY <2>3, <2>4, <3>2
    <3> QED
      BY <3>1, <3>2
  <2>6. \A u \in Targets : LinkedAt(s, u)
    BY <1>11, <2>5
  <2>7. t \notin crossed => TrustedAt(s, t)
    <3> SUFFICES ASSUME t \notin crossed PROVE TrustedAt(s, t)
      OBVIOUS
    <3>1. Stops(m, w(t), t) /\ Trusted(q, m, w(t), t \in r.listens, r.pending[t], t)
      BY <1>8, <2>2 DEF Linked
    <3>2. Head(m) \in Words(t) /\ Head(m).kind # "rejected"
      BY <1>15, <2>2 DEF h
    <3>3. Trusted(q, Tail(m), w(t), t \in r.listens, r.pending[t] - 1, t)
      BY <1>1, <3>1, <3>2, HearsAnswer
    <3> QED
      BY <1>12, <2>2, <2>5, <3>3
  <2>8. \A u \in Targets \ {t} : u \notin crossed => TrustedAt(s, u)
    BY <1>10, <1>12, <2>2, <2>5
  <2> QED
    BY <2>1, <2>6, <2>7, <2>8 DEF Tracks
<1>16. CASE h.kind = "rejected"
  <2> DEFINE t == h.target
             f == Forgets(r, t)
             g == [f EXCEPT !.listens = @ \ {t}]
             s == Rejected(r, t)
  <2>1. /\ remote' = s
        /\ crossed' = IF Unanswered(r.call, t) > 0 THEN crossed \cup {t} ELSE crossed
    BY <1>6, <1>16 DEF Data
  <2>2. t \in Targets /\ h \in Words(t) /\ \A u \in Targets \ {t} : h \notin Words(u)
    BY <1>14, <1>16 DEF Words
  <2>3. s = IF t \notin r.listens THEN r ELSE g
    BY DEF Rejected
  <2>4. /\ f \in Remotes /\ f.call = c /\ f.listen = r.listen /\ f.listens = r.listens
        /\ f.pending[t] = 0 /\ \A u \in Targets \ {t} : f.pending[u] = r.pending[u]
    BY <1>7, <2>2, ForgetsIs
  <2> HIDE DEF f, s, t
  <2>5. /\ g.call = c /\ g.listen = r.listen /\ g.listens = r.listens \ {t}
        /\ g.pending = f.pending
    BY <2>4 DEF Remotes
  <2> HIDE DEF g
  <2>6. /\ s.call = c /\ s.listen = r.listen
        /\ \A u \in Targets \ {t} : /\ (u \in s.listens) = (u \in r.listens)
                                    /\ s.pending[u] = r.pending[u]
    BY <1>7, <2>3, <2>4, <2>5
  <2>7. \A u \in Targets : LinkedAt(s, u)
    BY <1>11, <2>6
  <2>8. t \notin crossed' => TrustedAt(s, t)
    <3> SUFFICES ASSUME t \notin crossed' PROVE TrustedAt(s, t)
      OBVIOUS
    <3>1. t \notin crossed /\ ~(Unanswered(c, t) > 0)
      BY <1>7, <2>1
    <3>2. Count(q, Asks(t)) + Count(Tail(m), Answers(t)) = 0
      <4>1. Unanswered(c, t) = Count(q, Asks(t)) + Count(Tail(m), Answers(t))
        BY <1>4, <2>2, UnansweredIs
      <4>2. Count(q, Asks(t)) \in Nat /\ Count(Tail(m), Answers(t)) \in Nat
        BY <1>1, <1>3, CountIs
      <4> QED
        BY <3>1, <4>1, <4>2
    <3>3. Stops(m, w(t), t) /\ Trusted(q, m, w(t), t \in r.listens, r.pending[t], t)
      BY <1>8, <2>2, <3>1 DEF Linked
    <3>4. Head(m) \in Words(t) /\ Head(m).kind = "rejected"
      BY <1>16, <2>2 DEF h
    <3>5. t \in r.listens /\ Trusted(q, Tail(m), w(t), FALSE, 0, t)
      BY <1>1, <3>2, <3>3, <3>4, HearsRejection
    <3>6. (t \in s.listens) = FALSE /\ s.pending[t] = 0 /\ s.call = c
      BY <2>3, <2>4, <2>5, <3>5
    <3> QED
      BY <1>12, <2>2, <3>5, <3>6
  <2>9. \A u \in Targets \ {t} : u \notin crossed => TrustedAt(s, u)
    BY <1>10, <1>12, <2>2, <2>6
  <2> QED
    BY <2>1, <2>7, <2>8, <2>9 DEF Tracks
<1>17. CASE h.kind \in Data
  <2> DEFINE s == Updated(r, h)
  <2>1. remote' = s /\ crossed' = crossed
    BY <1>6, <1>17 DEF Data
  <2>2. \A u \in Targets : h \notin Words(u)
    BY <1>17 DEF Words, Data
  <2>3. /\ s.call = c /\ s.listen = r.listen /\ s.listens = r.listens /\ s.pending = r.pending
    BY <1>7, <1>17 DEF Updated, Remotes, Data
  <2> HIDE DEF s
  <2>4. \A u \in Targets : LinkedAt(s, u)
    BY <1>11, <2>3
  <2>5. \A u \in Targets \ crossed : TrustedAt(s, u)
    BY <1>10, <1>12, <2>2, <2>3
  <2> QED
    BY <2>1, <2>4, <2>5 DEF Tracks
<1>18. CASE h.kind = "snapshot"
  <2>1. remote' = Raised(r) /\ crossed' = crossed
    BY <1>6, <1>18 DEF Data
  <2>2. \A u \in Targets : h \notin Words(u)
    BY <1>18 DEF Words
  <2>3. \A u \in Targets : LinkedAt(r, u)
    BY <1>7, <1>11
  <2>4. \A u \in Targets \ crossed : TrustedAt(r, u)
    BY <1>7, <1>10, <1>12, <2>2
  <2>5. Tracks(r, crossed)
    BY <2>3, <2>4 DEF Tracks
  <2> QED
    BY <1>7, <2>1, <2>5, RaisedTracks
<1> QED
  BY <1>13, <1>15, <1>16, <1>17, <1>18

\* A stream that breaks is not open, ...
LEMMA BrokenCloses ==
  ASSUME NEW r \in Remotes
  PROVE  Broken(r).state # "open"
<1> DEFINE e == [r EXCEPT !.state = "error", !.idle = FALSE, !.call = NoCall]
           s == NoAggregator(e)
           f == HandleWatchStreamFailure(s)
           u == UpdateState(s, "unknown")
<1>1. s \in Remotes /\ s.state = "error"
  <2>1. e \in Remotes /\ e.state = "error"
    BY NoCallType DEF Remotes
  <2> HIDE DEF e
  <2> QED
    BY <2>1, NoAggregatorType
<1>2. Broken(r) = IF ShouldStart(s) THEN StartWatch(f) ELSE u
  BY DEF Broken
<1> HIDE DEF s
<1>3. f \in Remotes
  BY <1>1 DEF HandleWatchStreamFailure, Remotes
<1>4. u.state = "error"
  BY <1>1 DEF UpdateState, Remotes
<1> HIDE DEF f, u
<1> QED
  BY <1>2, <1>3, <1>4, StartsClosed

\* ... and neither is one that is restarted.
LEMMA RestartCloses ==
  ASSUME NEW r \in Remotes, Sound(r)
  PROVE  Restart(r).state # "open"
<1> DEFINE g == Gracefully(r)
           a == NoAggregator(g)
           s == [UpdateState(a, "unknown") EXCEPT !.state = "initial"]
<1>1. a \in Remotes
  BY GracefullyStops, NoAggregatorType
<1>2. Restart(r) = IF ShouldStart(s) THEN StartWatch(s) ELSE s
  BY DEF Restart
<1> HIDE DEF a
<1>3. s \in Remotes /\ s.state = "initial"
  BY <1>1 DEF UpdateState, Remotes
<1> HIDE DEF s
<1> QED
  BY <1>2, <1>3, StartsClosed

\* Tracks, of the state there is.
TracksAll == Tracks(remote, crossed)

\* Every step keeps it.
LEMMA StepTracks == IInv /\ TracksAll /\ [Next]_vars => TracksAll'
<1> SUFFICES ASSUME Sound(remote), Tracks(remote, crossed), [Next]_vars
             PROVE  Tracks(remote', crossed')
  BY DEF IInv, TracksAll
<1>1. remote \in Remotes
  BY DEF Sound
<1>2. ASSUME NEW t \in Targets, Listen(t) PROVE Tracks(remote', crossed')
  BY <1>1, <1>2, ListenedTracks DEF Listen
<1>3. ASSUME NEW t \in Targets, StopListening(t) PROVE Tracks(remote', crossed')
  BY <1>1, <1>3, StoppedTracks DEF StopListening
<1>4. CASE OnStreamOpen
  BY <1>1, <1>4, OpenedTracks DEF OnStreamOpen
<1>5. CASE OnStreamClose
  <2>1. Broken(remote).state # "open"
    BY <1>1, BrokenCloses
  <2> QED
    BY <1>5, <2>1 DEF OnStreamClose, Tracks
<1>6. CASE RestartNetwork
  <2>1. Restart(remote).state # "open"
    BY <1>1, RestartCloses
  <2> QED
    BY <1>6, <2>1 DEF RestartNetwork, Tracks
<1>7. CASE OnWatchStreamChange
  BY <1>7, ReadTracks
<1>8. CASE BackoffElapses
  <2>1. remote'.state = "starting"
    BY <1>1, <1>8 DEF BackoffElapses, Remotes
  <2> QED
    BY <2>1 DEF Tracks
<1>9. CASE IdleElapses
  <2>1. remote'.state # "open"
    BY <1>1, <1>9, GracefullyStops DEF IdleElapses
  <2> QED
    BY <2>1 DEF Tracks
<1>10. CASE OnlineStateTimeout
  <2> DEFINE s == [remote EXCEPT !.timer = FALSE, !.online = "offline"]
  <2>1. /\ s.state = remote.state /\ s.listens = remote.listens /\ s.call = remote.call
        /\ s.pending = remote.pending /\ s.listen = remote.listen
    BY <1>1 DEF Remotes
  <2>2. remote' = s /\ crossed' = crossed
    BY <1>10 DEF OnlineStateTimeout
  <2> HIDE DEF s
  <2> QED
    BY <2>1, <2>2 DEF Tracks, LinkedAt, TrustedAt
<1>11. CASE Backend
  <2>1. crossed' = crossed
    BY <1>11 DEF Backend, BackendAnswers, BackendSnapshot, BackendCatchesUp, BackendExpels, BackendUpsets
  <2> QED
    BY <1>11, <2>1, BackendTracks
<1>12. CASE UNCHANGED vars
  BY <1>12 DEF vars
<1> QED
  BY <1>2, <1>3, <1>4, <1>5, <1>6, <1>7, <1>8, <1>9, <1>10, <1>11, <1>12
  DEF Next, App, Network, Timers

\* It holds at first, ...
LEMMA InitTracks == Init => TracksAll
<1> SUFFICES ASSUME Init PROVE TracksAll
  OBVIOUS
<1>1. remote.state = "initial"
  BY DEF Init, Stopped
<1> QED
  BY <1>1 DEF TracksAll, Tracks

\* ... and always.
LEMMA AlwaysTracks == Spec => [](IInv /\ TracksAll)
<1>1. Init => TracksAll
  BY InitTracks
<1>2. IInv /\ TracksAll /\ [Next]_vars => TracksAll'
  BY StepTracks
<1> QED
  BY <1>1, <1>2, AlwaysSound, PTL DEF Spec

\* What CountsRequests says of one target.
LEMMA CountAt ==
  ASSUME Sound(remote), Tracks(remote, crossed), NEW t \in Targets \ crossed
  PROVE  remote.pending[t] = Unanswered(remote.call, t)
<1>1. remote.call \in Calls
  BY DEF Sound, Remotes
<1>2. Unanswered(remote.call, t) = Count(remote.call.requests, Asks(t))
                                   + Count(remote.call.messages, Answers(t))
  BY <1>1, UnansweredIs
<1>3. CASE remote.state = "open"
  BY <1>2, <1>3 DEF Tracks, TrustedAt, Trusted
<1>4. CASE remote.state # "open"
  <2>1. /\ remote.pending[t] = 0
        /\ remote.call.requests = <<>> /\ remote.call.messages = <<>>
    BY <1>4 DEF Sound, Quiet, NoCall, Zero
  <2>2. Count(<<>>, Asks(t)) = 0 /\ Count(<<>>, Answers(t)) = 0
    BY CountNone
  <2> QED
    BY <1>2, <2>1, <2>2
<1> QED
  BY <1>3, <1>4

\* CountsRequests: the count of outstanding responses is the number of requests the
\* backend has not read and of answers the client has not, at every target of which
\* no rejection has crossed a request.
THEOREM CountKept == Spec => []CountsRequests
<1>1. IInv /\ TracksAll => CountsRequests
  BY CountAt DEF IInv, TracksAll, CountsRequests
<1> QED
  BY <1>1, AlwaysTracks, PTL

\* The last request for a target, as LastAsked picks it.
LEMMA LastAskIs ==
  ASSUME NEW q \in Seq(Requests), NEW t \in Targets
  PROVE  LET Asked == {k \in DOMAIN q : q[k].target = t}
         IN /\ Asked = {} <=> Free(q, Asks(t))
            /\ Asked # {} => q[Max(Asked)] \in Final(q, Asks(t))
<1> DEFINE Asked == Of(q, Asks(t))
<1>1. {k \in DOMAIN q : q[k].target = t} = Asked
  BY DEF Of, Asks
<1>2. Asked = {} <=> Free(q, Asks(t))
  BY DEF Of, Free
<1>3. ASSUME Asked # {} PROVE q[Max(Asked)] \in Final(q, Asks(t))
  <2>1. Asked \in SUBSET DOMAIN q /\ DOMAIN q \subseteq Nat
    BY DEF Of
  <2> HIDE DEF Asked
  <2>2. \E k \in Asked : \A j \in Asked : j <= k
    BY <1>3, <2>1, GreatestIs
  <2>3. \E k \in Asked : \A j \in Asked : k >= j
    BY <2>2
  <2>4. Max(Asked) \in Asked /\ \A j \in Asked : Max(Asked) >= j
    BY <2>3, Zenon DEF Max
  <2>5. \A j \in Asked : j <= Max(Asked)
    BY <2>1, <2>4
  <2> QED
    BY <2>4, <2>5 DEF Final, Asked
<1> HIDE DEF Asked
<1> QED
  BY <1>1, <1>2, <1>3

\* What ServesWhatIsListened says of one target.
LEMMA ServedAt ==
  ASSUME Sound(remote), Tracks(remote, crossed), remote.state = "open",
         NEW t \in Targets \ crossed, ~RejectionUnread(t)
  PROVE  t \in remote.listens <=> LastAsked(t)
<1> DEFINE q == remote.call.requests
           m == remote.call.messages
           w == remote.call.serving[t]
           b == t \in remote.listens
           Asked == {k \in DOMAIN q : q[k].target = t}
<1>1. q \in Seq(Requests) /\ m \in Seq(Messages)
  BY CallTypes DEF Sound
<1>2. Stops(m, w, t) /\ Told(q, m, w, b, t)
  BY DEF Tracks, LinkedAt, Linked, TrustedAt, Trusted
<1>3. LastAsked(t) <=> IF Asked = {} THEN w # 0 ELSE q[Max(Asked)].kind = "watch"
  BY DEF LastAsked
<1>4. \A x \in Final(m, Words(t)) : x.kind \in {"added", "removed"}
  BY <1>1 DEF Final, Of, Words, RejectionUnread
<1> HIDE DEF q, m, w, b
<1>5. /\ Asked = {} <=> Free(q, Asks(t))
      /\ Asked # {} => q[Max(Asked)] \in Final(q, Asks(t))
  BY <1>1, LastAskIs
<1> HIDE DEF Asked
<1>6. CASE Asked # {}
  BY <1>2, <1>3, <1>5, <1>6 DEF Told, b
<1>7. CASE Asked = {} /\ Free(m, Words(t))
  BY <1>2, <1>3, <1>5, <1>7 DEF Told, b
<1>8. CASE Asked = {} /\ ~Free(m, Words(t))
  <2>1. PICK x \in Final(m, Words(t)) : TRUE
    BY <1>1, <1>8, FinalIs
  <2>2. (b <=> x.kind # "removed") /\ (w # 0 <=> x.kind = "added")
    BY <1>2, <1>5, <1>8, <2>1 DEF Told, Stops
  <2>3. x.kind \in {"added", "removed"}
    BY <1>4, <2>1
  <2> QED
    BY <1>3, <1>8, <2>2, <2>3 DEF b
<1> QED
  BY <1>6, <1>7, <1>8

\* ServesWhatIsListened: with all requests read the backend serves exactly what the
\* client listens to, but for a rejection under way, however often targets have been
\* listened to, stopped, restarted, rejected and asked for again.
THEOREM ListensAreServed == Spec => []ServesWhatIsListened
<1>1. IInv /\ TracksAll => ServesWhatIsListened
  BY ServedAt DEF IInv, TracksAll, ServesWhatIsListened
<1> QED
  BY <1>1, AlwaysTracks, PTL

\* What DataIsOfThisListen says of the message that is read.
LEMMA DataAt ==
  ASSUME Sound(remote), Tracks(remote, crossed), remote.call.messages # <<>>,
         NEW h, h = Head(remote.call.messages), h.kind \in Data, h.target \notin crossed,
         remote.pending[h.target] = 0
  PROVE  h.listen = remote.listen[h.target]
<1> DEFINE q == remote.call.requests
           m == remote.call.messages
           t == h.target
<1>1. q \in Seq(Requests) /\ m \in Seq(Messages)
  BY CallTypes DEF Sound
<1>2. /\ h \in Messages /\ h = m[1] /\ 1 \in DOMAIN m
  <2> HIDE DEF m
  <2>1. m # <<>> /\ h = Head(m)
    BY DEF m
  <2> QED
    BY <1>1, <2>1
<1>3. h \in Sayings /\ t \in Targets /\ h \in DataOf(t)
  BY <1>2 DEF Messages, Sayings, GlobalSnapshot, Data, DataOf
<1>4. remote.state = "open"
  BY DEF Sound, Quiet, NoCall
<1>5. /\ Numbers(q, m, remote.call.serving[t], remote.listen[t], t)
      /\ 0 = Count(q, Asks(t)) + Count(m, Answers(t))
  BY <1>3, <1>4 DEF Tracks, LinkedAt, Linked, TrustedAt, Trusted
<1> HIDE DEF q, m
<1>6. /\ Count(q, Asks(t)) \in Nat /\ Count(m, Answers(t)) \in Nat
      /\ Count(q, Asks(t)) = 0 <=> Free(q, Asks(t))
      /\ Count(m, Answers(t)) = 0 <=> Free(m, Answers(t))
  BY <1>1, CountIs
<1>7. Free(q, Asks(t)) /\ Free(m, Answers(t))
  BY <1>5, <1>6
<1> QED
  BY <1>2, <1>3, <1>5, <1>7 DEF Numbers, Free

\* DataIsOfThisListen: no data of an earlier listen is taken for a target's, whatever
\* was under way when it was given up, asked for again or restarted for a mismatch.
THEOREM DataIsCurrent == Spec => []DataIsOfThisListen
<1>1. IInv /\ TracksAll => DataIsOfThisListen
  BY DataAt DEF IInv, TracksAll, DataIsOfThisListen, IsActive
<1> QED
  BY <1>1, AlwaysTracks, PTL
=============================================================================
