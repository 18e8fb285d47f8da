-------------------------- MODULE WriteStreamProofs --------------------------
(***************************************************************************)
(* What holds of WriteStream for any users, any bounds and any number of    *)
(* writes, changes of user and failures.                                   *)
(***************************************************************************)
EXTENDS WriteStream, TLAPS, FiniteSetTheorems, SequenceTheorems

-----------------------------------------------------------------------------
(* Types.                                                                  *)

Fetches   == [closes : Nat, counter : Nat, of : Anyone \cup {Unread}]
Blocks    == [kind : {"notify", "token", "error"}, user : Anyone, closes : Nat, counter : Nat]
Tasks     == [kind : {"change", "token", "error", "write"}, user : Anyone, closes : Nat]
Calls     == [token : Anyone, sent : Seq(Batch), replies : Seq(Batch), ended : BOOLEAN]
Pipelines == {p \in Seq(Batch) : Len(p) <= MaxPending}

Remotes ==
  [state : {"initial", "starting", "open", "backoff", "error"}, closes : Nat,
   handshake : BOOLEAN, idle : BOOLEAN, call : Calls, pipeline : Pipelines, asks : BOOLEAN]

-----------------------------------------------------------------------------
(* Sequences of batches.                                                   *)

LEMMA BatchesOfJoin ==
  ASSUME NEW S, NEW p \in Seq(S), NEW q \in Seq(S)
  PROVE  Batches(p \o q) = Batches(p) \cup Batches(q)
<1>1. Batches(p \o q) \subseteq Batches(p) \cup Batches(q)
  <2> SUFFICES ASSUME NEW k \in DOMAIN (p \o q)
               PROVE  (p \o q)[k] \in Batches(p) \cup Batches(q)
    BY DEF Batches
  <2>1. CASE k <= Len(p)
    BY <2>1 DEF Batches
  <2>2. CASE ~(k <= Len(p))
    <3>1. k - Len(p) \in DOMAIN q /\ (p \o q)[k] = q[k - Len(p)]
      BY <2>2
    <3> QED
      BY <3>1 DEF Batches
  <2> QED
    BY <2>1, <2>2
<1>2. ASSUME NEW k \in DOMAIN p PROVE p[k] \in Batches(p \o q)
  <2>1. k \in DOMAIN (p \o q) /\ (p \o q)[k] = p[k]
    OBVIOUS
  <2> QED
    BY <2>1 DEF Batches
<1>3. ASSUME NEW k \in DOMAIN q PROVE q[k] \in Batches(p \o q)
  <2>1. Len(p) + k \in DOMAIN (p \o q) /\ (p \o q)[Len(p) + k] = q[k]
    OBVIOUS
  <2> QED
    BY <2>1 DEF Batches
<1> QED
  BY <1>1, <1>2, <1>3 DEF Batches

LEMMA BatchesOfTail ==
  ASSUME NEW S, NEW p \in Seq(S), p # <<>>
  PROVE  /\ Tail(p) \in Seq(S) /\ Batches(Tail(p)) \subseteq Batches(p)
         /\ Head(p) \in Batches(p) /\ Len(Tail(p)) = Len(p) - 1
<1>1. ASSUME NEW k \in DOMAIN Tail(p) PROVE Tail(p)[k] \in Batches(p)
  <2>1. k + 1 \in DOMAIN p /\ Tail(p)[k] = p[k + 1]
    OBVIOUS
  <2> QED
    BY <2>1 DEF Batches
<1>2. Head(p) \in Batches(p)
  <2>1. 1 \in DOMAIN p /\ Head(p) = p[1]
    OBVIOUS
  <2> QED
    BY <2>1 DEF Batches
<1> QED
  BY <1>1, <1>2 DEF Batches

LEMMA BatchesOfAppend ==
  ASSUME NEW S, NEW p \in Seq(S), NEW b \in S
  PROVE  Append(p, b) \in Seq(S) /\ Batches(Append(p, b)) = Batches(p) \cup {b}
<1>1. \A k \in DOMAIN p : k \in DOMAIN Append(p, b) /\ Append(p, b)[k] = p[k]
  OBVIOUS
<1>2. Len(p) + 1 \in DOMAIN Append(p, b) /\ Append(p, b)[Len(p) + 1] = b
  OBVIOUS
<1>3. \A k \in DOMAIN Append(p, b) : k \in DOMAIN p \/ k = Len(p) + 1
  OBVIOUS
<1> QED
  BY <1>1, <1>2, <1>3 DEF Batches

\* A batch that leaves a queue takes no other with it.
LEMMA BatchesOfWithout ==
  ASSUME NEW S, NEW q \in Seq(S), NEW b
  PROVE  Without(q, b) \in Seq(S) /\ Batches(Without(q, b)) \subseteq Batches(q)
<1>1. CASE \E k \in DOMAIN q : q[k] = b
  <2> DEFINE j == CHOOSE k \in DOMAIN q : q[k] = b
             t == RemoveAt(q, j)
  <2>1. j \in 1..Len(q)
    BY <1>1
  <2>2. Without(q, b) = t
    BY <1>1 DEF Without
  <2> HIDE DEF j
  <2>3. t = SubSeq(q, 1, j - 1) \o SubSeq(q, j + 1, Len(q))
    BY DEF RemoveAt
  <2>4. /\ SubSeq(q, 1, j - 1) \in Seq(S)
        /\ \A k \in DOMAIN SubSeq(q, 1, j - 1) : k \in DOMAIN q /\ SubSeq(q, 1, j - 1)[k] = q[k]
    BY <2>1
  <2>5. /\ SubSeq(q, j + 1, Len(q)) \in Seq(S)
        /\ \A k \in DOMAIN SubSeq(q, j + 1, Len(q)) :
             k + j \in DOMAIN q /\ SubSeq(q, j + 1, Len(q))[k] = q[k + j]
    BY <2>1
  <2>6. Batches(SubSeq(q, 1, j - 1)) \subseteq Batches(q)
    BY <2>4 DEF Batches
  <2>7. Batches(SubSeq(q, j + 1, Len(q))) \subseteq Batches(q)
    BY <2>5 DEF Batches
  <2>8. Batches(t) = Batches(SubSeq(q, 1, j - 1)) \cup Batches(SubSeq(q, j + 1, Len(q)))
    BY <2>3, <2>4, <2>5, BatchesOfJoin
  <2>9. t \in Seq(S)
    BY <2>3, <2>4, <2>5
  <2> QED
    BY <2>2, <2>6, <2>7, <2>8, <2>9
<1>2. CASE ~ \E k \in DOMAIN q : q[k] = b
  BY <1>2 DEF Without
<1> QED
  BY <1>1, <1>2

\* What fills the pipeline up comes from the queue, and there is room for it.
LEMMA FollowingFits ==
  ASSUME NEW p \in Pipelines, NEW q \in Seq(Batch)
  PROVE  LET more == Following(p, q) IN
         more \in Seq(Batch) /\ Batches(more) \subseteq Batches(q) /\ p \o more \in Pipelines
<1> DEFINE K == {k \in DOMAIN q : q[k].id <= Last(p).id}
           known == IF p = <<>> THEN 0 ELSE Cardinality(K)
           room == MaxPending - Len(p)
           n == Min({Len(q), known + room})
           more == SubSeq(q, known + 1, n)
<1>1. Following(p, q) = more
  BY DEF Following
<1>2. room \in Nat /\ p \in Seq(Batch) /\ Len(p) <= MaxPending /\ MaxPending \in Nat
  BY WriteStreamAssumption DEF WriteStreamAssumption, Pipelines
<1>3. known \in Nat
  <2>1. IsFiniteSet(1..Len(q))
    BY FS_Interval
  <2>2. IsFiniteSet(K)
    BY <2>1, FS_Subset
  <2> QED
    BY <2>2, FS_CardinalityType
<1> HIDE DEF known, room
<1>4. n \in Int /\ n <= Len(q) /\ n <= known + room
  <2>1. \E x \in {Len(q), known + room} : \A y \in {Len(q), known + room} : x <= y
    BY <1>2, <1>3
  <2>2. n \in {Len(q), known + room} /\ \A y \in {Len(q), known + room} : n <= y
    BY <2>1 DEF Min
  <2> QED
    BY <1>2, <1>3, <2>2
<1> HIDE DEF n
<1>5. /\ more \in Seq(Batch) /\ Len(more) <= room
      /\ \A k \in DOMAIN more : known + k \in DOMAIN q /\ more[k] = q[known + k]
  BY <1>2, <1>3, <1>4
<1> HIDE DEF more
<1>6. Batches(more) \subseteq Batches(q)
  BY <1>5 DEF Batches
<1>7. p \o more \in Pipelines
  BY <1>2, <1>5 DEF Pipelines, room
<1> QED
  BY <1>1, <1>5, <1>6, <1>7

-----------------------------------------------------------------------------
(* The invariant.                                                          *)

Typed ==
  /\ auth \in Anyone /\ user \in Anyone /\ running \in BOOLEAN
  /\ fetches \subseteq Fetches
  /\ main \in Seq(Blocks) /\ worker \in Seq(Tasks)
  /\ provider \in [user : Anyone, counter : Nat]
  /\ queues \in [Anyone -> Seq(Batch)]
  /\ remote \in Remotes /\ ~remote.asks
  /\ late \subseteq [token : Anyone, sent : Seq(Batch)]
  /\ log \in Seq([as : Anyone, batch : Batch])
  /\ written \subseteq Batch /\ IsFiniteSet(written)

\* A stream r that works for u sends and holds only what u has written.
Owned(B, u, W) == \A b \in B : b \in W /\ b.user = u

\* While it is ready it has one verdict to come, or to be read, for every batch it
\* holds.
Unanswered(r) == Len(r.call.replies) + Len(r.call.sent) + (IF r.call.ended THEN 1 ELSE 0)

Carries(r, u, W) ==
  /\ Owned(Batches(r.pipeline), u, W)
  /\ r.state # "open" => r.call = NoCall /\ ~r.handshake
  /\ r.state = "open" => r.call.token = u
  /\ r.state = "open" /\ ~r.handshake =>
       /\ Len(r.call.sent) + Len(r.call.replies) = 1 /\ ~r.call.ended
       /\ Batches(r.call.sent) \subseteq {Handshake}
  /\ r.handshake => Owned(Batches(r.call.sent), u, W) /\ Unanswered(r) = Len(r.pipeline)

\* So do the queues, what is late, and the backend's verdicts.
Books ==
  /\ \A u \in Anyone : Owned(Batches(queues[u]), u, written)
  /\ \A o \in late : o.sent # <<>> /\ Owned(Batches(o.sent), o.token, written)
  /\ \A k \in DOMAIN log : log[k].batch \in written
  /\ \A b \in refusals : b \in written /\ (b.user = None \/ b.id \in Refusable)

\* A request for a token, or its answer, that is for the call with n calls closed
\* before it; that there is one on a queue; and that there is at most one.
Tok(b, n)    == b.kind \in {"token", "error"} /\ b.closes = n
OnQueue(s, n) == \E k \in DOMAIN s : Tok(s[k], n)
Once(s, n)   == \A j, k \in DOMAIN s : Tok(s[j], n) /\ Tok(s[k], n) => j = k
Fetching(fs, n) == \E f \in fs : f.closes = n

\* None is from the future; at most one is for the current call; and there is one
\* exactly while the stream is starting.
Past(fs, m, w, n) ==
  /\ \A f \in fs : f.closes <= n
  /\ \A b \in Batches(m) : b.kind # "notify" => b.closes <= n
  /\ \A b \in Batches(w) : b.kind \in {"token", "error"} => b.closes <= n

AtMostOne(fs, m, w, n) ==
  /\ \A f, g \in fs : f.closes = n /\ g.closes = n => f = g
  /\ Once(m, n) /\ Once(w, n)
  /\ ~(Fetching(fs, n) /\ OnQueue(m, n))
  /\ ~(Fetching(fs, n) /\ OnQueue(w, n))
  /\ ~(OnQueue(m, n) /\ OnQueue(w, n))

AnyFor(fs, m, w, n) == Fetching(fs, n) \/ OnQueue(m, n) \/ OnQueue(w, n)

TokensWait(fs, m, w, r) ==
  /\ Past(fs, m, w, r.closes) /\ AtMostOne(fs, m, w, r.closes)
  /\ r.state = "starting" <=> AnyFor(fs, m, w, r.closes)

\* From Auth to the provider: the last notification on the main thread, or the
\* provider itself, knows Auth's user; and a token that the provider is going to
\* let through is the provider's user's, unless a notification overtakes it.
Quiet(m, k) == \A j \in DOMAIN m : j < k => m[j].kind # "notify"
Notifies(m) == \E j \in DOMAIN m : m[j].kind = "notify"

ProviderFollows(a, fs, m, p) ==
  /\ ~Notifies(m) => p.user = a
  /\ \A k \in DOMAIN m :
       m[k].kind = "notify" /\ (\A j \in DOMAIN m : j > k => m[j].kind # "notify") =>
         m[k].user = a
  /\ \A f \in fs : /\ f.counter <= p.counter
                   /\ f.of # Unread /\ f.counter = p.counter /\ ~Notifies(m) => f.of = p.user
  /\ \A k \in DOMAIN m : m[k].kind # "notify" =>
       /\ m[k].counter <= p.counter
       /\ m[k].counter = p.counter /\ Quiet(m, k) => m[k].user = p.user

\* From the provider to the stream: the last change on the worker, or the worker's
\* user, is the provider's; and a token for the current call is the worker's
\* user's, unless a change overtakes it.
Changes(w) == \E j \in DOMAIN w : w[j].kind = "change"

WorkerFollows(pu, w, u, r) ==
  /\ ~Changes(w) => u = pu
  /\ \A k \in DOMAIN w :
       w[k].kind = "change" /\ (\A j \in DOMAIN w : j > k => w[j].kind # "change") =>
         w[k].user = pu
  /\ \A k \in DOMAIN w :
       /\ w[k].kind \in {"token", "error"} /\ w[k].closes = r.closes
       /\ \A j \in DOMAIN w : j < k => w[j].kind # "change"
       => w[k].user = u

Follows ==
  IF running
    THEN /\ TokensWait(fetches, main, worker, remote)
         /\ ProviderFollows(auth, fetches, main, provider)
         /\ WorkerFollows(provider.user, worker, user, remote)
    ELSE fetches = {} /\ main = <<>> /\ worker = <<>> /\ remote = Stopped

IInv == Typed /\ Carries(remote, user, written) /\ Books /\ Follows

-----------------------------------------------------------------------------
(* The operators of the stream.                                            *)

LEMMA NoCallType == NoCall \in Calls /\ NoCall.sent = <<>>
  BY DEF NoCall, Calls, Anyone

LEMMA NoBatches == Batches(<<>>) = {}
  BY DEF Batches

LEMMA PipelineType ==
  ASSUME NEW r \in Remotes
  PROVE  r.pipeline \in Pipelines /\ r.pipeline \in Seq(Batch) /\ r.call \in Calls
  BY DEF Remotes, Pipelines

\* What all of them do to the count of calls and to requests for tokens.
Progresses(r, s) ==
  /\ s.closes >= r.closes
  /\ s.asks => s.state = "starting" /\ (s.closes = r.closes => r.state # "starting")
  /\ ~s.asks => (s.state = "starting" <=> r.state = "starting" /\ s.closes = r.closes)

LEMMA StartIfNeededType ==
  ASSUME NEW r \in Remotes, ~r.asks
  PROVE  LET s == StartIfNeeded(r) IN
         /\ s \in Remotes
         /\ s.closes = r.closes /\ s.handshake = r.handshake /\ s.idle = r.idle
         /\ s.call = r.call /\ s.pipeline = r.pipeline
         /\ IsStarted(r) => s = r
         /\ ~IsStarted(r) => s.state # "open" /\ (s.asks <=> s.state = "starting")
         /\ IsStarted(r) \/ r.state = "error" => ~s.asks
<1> DEFINE s == StartIfNeeded(r)
<1>1. CASE IsStarted(r) \/ r.pipeline = <<>>
  <2>1. s = r
    BY <1>1 DEF StartIfNeeded
  <2> HIDE DEF s
  <2> QED
    BY <2>1 DEF IsStarted, s
<1>2. CASE ~(IsStarted(r) \/ r.pipeline = <<>>) /\ r.state = "error"
  <2>1. s = [r EXCEPT !.state = "backoff"]
    BY <1>2 DEF StartIfNeeded, Start
  <2> HIDE DEF s
  <2> QED
    BY <1>2, <2>1 DEF Remotes, IsStarted, s
<1>3. CASE ~(IsStarted(r) \/ r.pipeline = <<>>) /\ r.state # "error"
  <2>1. s = [r EXCEPT !.state = "starting", !.asks = TRUE]
    BY <1>3 DEF StartIfNeeded, Start
  <2> HIDE DEF s
  <2> QED
    BY <1>3, <2>1 DEF Remotes, IsStarted, s
<1> QED
  BY <1>1, <1>2, <1>3

LEMMA SendType ==
  ASSUME NEW r \in Remotes, NEW ms \in Seq(Batch)
  PROVE  LET s == Send(r, ms) IN
         /\ s \in Remotes
         /\ s.state = r.state /\ s.closes = r.closes /\ s.handshake = r.handshake
         /\ s.pipeline = r.pipeline /\ s.asks = r.asks
         /\ s.call.token = r.call.token /\ s.call.replies = r.call.replies
         /\ s.call.ended = r.call.ended /\ Len(s.call.sent) = Len(r.call.sent) + Len(ms)
         /\ Batches(s.call.sent) \subseteq Batches(r.call.sent) \cup Batches(ms)
<1> DEFINE s == Send(r, ms)
           x == r.call.sent \o ms
           c == [r.call EXCEPT !.sent = x]
<1>0. r.call \in Calls /\ r.call.sent \in Seq(Batch)
  BY DEF Remotes, Calls
<1>1. CASE ms = <<>>
  <2>1. s = r
    BY <1>1 DEF Send
  <2>2. Len(r.call.sent) = Len(r.call.sent) + Len(ms)
    BY <1>0, <1>1
  <2> HIDE DEF s
  <2> QED
    BY <2>1, <2>2 DEF s
<1>2. CASE ms # <<>>
  <2>1. s = [r EXCEPT !.idle = FALSE, !.call = c]
    BY <1>2 DEF Send, Remotes, Calls
  <2>3. /\ x \in Seq(Batch) /\ Batches(x) = Batches(r.call.sent) \cup Batches(ms)
        /\ Len(x) = Len(r.call.sent) + Len(ms)
    BY <1>0, BatchesOfJoin
  <2> HIDE DEF x
  <2>4. /\ c \in Calls /\ c.token = r.call.token /\ c.replies = r.call.replies
        /\ c.ended = r.call.ended /\ c.sent = x
    BY <1>0, <2>3 DEF Calls
  <2> HIDE DEF c, s
  <2>5. /\ s \in Remotes /\ s.state = r.state /\ s.closes = r.closes
        /\ s.handshake = r.handshake /\ s.pipeline = r.pipeline /\ s.asks = r.asks
        /\ s.call = c
    BY <2>1, <2>4 DEF Remotes
  <2> QED
    BY <2>3, <2>4, <2>5 DEF s
<1> QED
  BY <1>1, <1>2

LEMMA FillType ==
  ASSUME NEW r \in Remotes, ~r.asks, NEW q \in Seq(Batch)
  PROVE  LET s == Fill(r, q) IN
         /\ s \in Remotes
         /\ s.closes = r.closes /\ s.handshake = r.handshake
         /\ s.call.token = r.call.token /\ s.call.replies = r.call.replies
         /\ s.call.ended = r.call.ended
         /\ Batches(s.pipeline) \subseteq Batches(r.pipeline) \cup Batches(q)
         /\ Batches(s.call.sent) \subseteq Batches(r.call.sent) \cup Batches(q)
         /\ r.state = "open" /\ r.handshake =>
              Len(s.call.sent) + Len(r.pipeline) = Len(r.call.sent) + Len(s.pipeline)
         /\ ~(r.state = "open" /\ r.handshake) => s.call = r.call
         /\ IsStarted(r) => s.state = r.state
         /\ ~IsStarted(r) => s.state # "open" /\ (s.asks <=> s.state = "starting")
         /\ IsStarted(r) => ~s.asks
<1> DEFINE more == Following(r.pipeline, q)
           full == [r EXCEPT !.pipeline = @ \o more]
           ready == r.state = "open" /\ r.handshake
           sent == Send(full, more)
           i == full.idle \/ (r.state = "open" /\ full.pipeline = <<>>)
           g == IF ready
                  THEN IF full.pipeline = <<>> THEN [full EXCEPT !.idle = TRUE] ELSE sent
                  ELSE [full EXCEPT !.idle = i]
           s == StartIfNeeded(g)
<1>1. Fill(r, q) = s
  BY DEF Fill
<1>2. /\ more \in Seq(Batch) /\ Batches(more) \subseteq Batches(q)
      /\ r.pipeline \o more \in Pipelines
      /\ Batches(r.pipeline \o more) = Batches(r.pipeline) \cup Batches(more)
      /\ Len(r.pipeline \o more) = Len(r.pipeline) + Len(more)
      /\ Len(more) \in Nat /\ Len(r.pipeline) \in Nat /\ Len(r.call.sent) \in Nat
  <2>1. r.call.sent \in Seq(Batch)
    BY PipelineType DEF Calls
  <2> QED
    BY <2>1, PipelineType, FollowingFits, BatchesOfJoin
<1> HIDE DEF more
<1>3. /\ full \in Remotes /\ ~full.asks /\ full.state = r.state /\ full.closes = r.closes
      /\ full.handshake = r.handshake /\ full.call = r.call
      /\ Batches(full.pipeline) \subseteq Batches(r.pipeline) \cup Batches(q)
      /\ Len(full.pipeline) = Len(r.pipeline) + Len(more)
      /\ full.pipeline = <<>> => Len(more) = 0
  <2> DEFINE p == r.pipeline \o more
  <2>1. /\ p \in Pipelines /\ Len(p) = Len(r.pipeline) + Len(more)
        /\ Batches(p) \subseteq Batches(r.pipeline) \cup Batches(q)
    BY <1>2
  <2>2. p = <<>> => Len(p) = 0
    OBVIOUS
  <2> HIDE DEF p
  <2>3. full = [r EXCEPT !.pipeline = p]
    BY DEF p
  <2> HIDE DEF full
  <2>4. /\ full \in Remotes /\ ~full.asks /\ full.state = r.state
        /\ full.closes = r.closes /\ full.handshake = r.handshake /\ full.call = r.call
        /\ full.pipeline = p
    BY <2>1, <2>3 DEF Remotes
  <2> QED
    BY <1>2, <2>1, <2>2, <2>4
<1> HIDE DEF full
<1>4. /\ g \in Remotes /\ ~g.asks /\ g.state = r.state /\ g.closes = r.closes
      /\ g.handshake = r.handshake
      /\ g.call.token = r.call.token /\ g.call.replies = r.call.replies
      /\ g.call.ended = r.call.ended
      /\ Batches(g.pipeline) \subseteq Batches(r.pipeline) \cup Batches(q)
      /\ Batches(g.call.sent) \subseteq Batches(r.call.sent) \cup Batches(q)
      /\ ready => Len(g.call.sent) + Len(r.pipeline) = Len(r.call.sent) + Len(g.pipeline)
      /\ ~ready => g.call = r.call
  <2>1. CASE ready /\ full.pipeline = <<>>
    <3>1. g = [full EXCEPT !.idle = TRUE]
      BY <2>1
    <3>2. full.call.sent = r.call.sent /\ Len(full.pipeline) = Len(r.pipeline)
      BY <1>2, <1>3, <2>1
    <3> HIDE DEF g
    <3> QED
      BY <1>2, <1>3, <2>1, <3>1, <3>2 DEF Remotes
  <2>2. CASE ready /\ full.pipeline # <<>>
    <3>1. g = sent
      BY <2>2
    <3>2. /\ sent \in Remotes /\ sent.state = r.state /\ sent.closes = r.closes
          /\ sent.handshake = r.handshake /\ sent.pipeline = full.pipeline /\ ~sent.asks
          /\ sent.call.token = r.call.token /\ sent.call.replies = r.call.replies
          /\ sent.call.ended = r.call.ended
          /\ Len(sent.call.sent) = Len(r.call.sent) + Len(more)
          /\ Batches(sent.call.sent) \subseteq Batches(r.call.sent) \cup Batches(more)
      <4>1. full \in Remotes /\ more \in Seq(Batch)
        BY <1>2, <1>3
      <4>2. /\ sent \in Remotes
            /\ sent.state = full.state /\ sent.closes = full.closes
            /\ sent.handshake = full.handshake
            /\ sent.pipeline = full.pipeline /\ sent.asks = full.asks
            /\ sent.call.token = full.call.token /\ sent.call.replies = full.call.replies
            /\ sent.call.ended = full.call.ended
            /\ Len(sent.call.sent) = Len(full.call.sent) + Len(more)
            /\ Batches(sent.call.sent) \subseteq Batches(full.call.sent) \cup Batches(more)
        BY <4>1, SendType
      <4> HIDE DEF sent
      <4> QED
        BY <1>3, <4>2
    <3> HIDE DEF g, sent
    <3>3. ready => Len(g.call.sent) + Len(r.pipeline) = Len(r.call.sent) + Len(g.pipeline)
      <4> DEFINE gs == Len(g.call.sent)  rs == Len(r.call.sent)
                 gp == Len(g.pipeline)   rp == Len(r.pipeline)   l == Len(more)
      <4>1. gs = rs + l
        BY <3>1, <3>2
      <4>2. gp = rp + l
        BY <1>3, <3>1, <3>2
      <4>3. rs \in Nat /\ rp \in Nat /\ l \in Nat
        BY <1>2
      <4> HIDE DEF gs, rs, gp, rp, l
      <4>4. gs + rp = rs + gp
        BY <4>1, <4>2, <4>3
      <4> QED
        BY <4>4 DEF gs, rs, gp, rp
    <3>4. Batches(g.call.sent) \subseteq Batches(r.call.sent) \cup Batches(q)
      BY <1>2, <3>1, <3>2
    <3> QED
      BY <1>3, <2>2, <3>1, <3>2, <3>3, <3>4
  <2>3. CASE ~ready
    <3>1. g = [full EXCEPT !.idle = i]
      BY <2>3
    <3>2. i \in BOOLEAN
      BY <1>3 DEF Remotes
    <3> HIDE DEF g, i
    <3> QED
      BY <1>3, <2>3, <3>1, <3>2 DEF Remotes
  <2> QED
    BY <2>1, <2>2, <2>3
<1> HIDE DEF g
<1>5. IsStarted(g) <=> IsStarted(r)
  BY <1>4 DEF IsStarted
<1>6. /\ s \in Remotes
      /\ s.closes = g.closes /\ s.handshake = g.handshake /\ s.idle = g.idle
      /\ s.call = g.call /\ s.pipeline = g.pipeline
      /\ IsStarted(g) => s = g
      /\ ~IsStarted(g) => s.state # "open" /\ (s.asks <=> s.state = "starting")
      /\ IsStarted(g) => ~s.asks
  BY <1>4, StartIfNeededType
<1> HIDE DEF s
<1> QED
  BY <1>1, <1>4, <1>5, <1>6

\* A batch of u's queue, added to a stream that works for u.
LEMMA FillCarries ==
  ASSUME NEW r \in Remotes, ~r.asks, NEW q \in Seq(Batch), NEW u, NEW W,
         Carries(r, u, W), Owned(Batches(q), u, W)
  PROVE  /\ Fill(r, q) \in Remotes /\ Carries(Fill(r, q), u, W)
         /\ Progresses(r, Fill(r, q))
         /\ Fill(r, q).closes = r.closes
<1> DEFINE s == Fill(r, q)
<1>1. /\ s \in Remotes
      /\ s.closes = r.closes /\ s.handshake = r.handshake
      /\ s.call.token = r.call.token /\ s.call.replies = r.call.replies
      /\ s.call.ended = r.call.ended
      /\ Batches(s.pipeline) \subseteq Batches(r.pipeline) \cup Batches(q)
      /\ Batches(s.call.sent) \subseteq Batches(r.call.sent) \cup Batches(q)
      /\ r.state = "open" /\ r.handshake =>
           Len(s.call.sent) + Len(r.pipeline) = Len(r.call.sent) + Len(s.pipeline)
      /\ ~(r.state = "open" /\ r.handshake) => s.call = r.call
      /\ IsStarted(r) => s.state = r.state
      /\ ~IsStarted(r) => s.state # "open" /\ (s.asks <=> s.state = "starting")
      /\ IsStarted(r) => ~s.asks
  BY FillType
<1> HIDE DEF s
<1>2. s.state = "open" <=> r.state = "open"
  BY <1>1 DEF IsStarted
<1>3. ASSUME s.handshake PROVE Unanswered(s) = Len(s.pipeline)
  <2>1. r.handshake /\ r.state = "open" /\ Unanswered(r) = Len(r.pipeline)
    BY <1>1, <1>3 DEF Carries
  <2>2. /\ Len(r.pipeline) \in Nat /\ Len(r.call.sent) \in Nat /\ Len(r.call.replies) \in Nat
        /\ Len(s.pipeline) \in Nat /\ Len(s.call.sent) \in Nat
    BY <1>1 DEF Remotes, Calls, Pipelines
  <2> DEFINE e == IF r.call.ended THEN 1 ELSE 0
             ss == Len(s.call.sent)   rs == Len(r.call.sent)
             sp == Len(s.pipeline)    rp == Len(r.pipeline)    l == Len(r.call.replies)
  <2>3. /\ e \in Nat /\ l \in Nat /\ rp \in Nat /\ rs \in Nat /\ sp \in Nat /\ ss \in Nat
        /\ ss + rp = rs + sp
    BY <1>1, <2>1, <2>2
  <2>4. Unanswered(s) = l + ss + e /\ l + rs + e = rp
    BY <1>1, <2>1 DEF Unanswered
  <2> HIDE DEF e, ss, rs, sp, rp, l
  <2>5. l + ss + e = sp
    BY <2>3, <2>4
  <2> QED
    BY <2>4, <2>5 DEF sp
<1>4. Owned(Batches(s.pipeline), u, W) /\ (s.handshake => Owned(Batches(s.call.sent), u, W))
  BY <1>1 DEF Carries, Owned
<1>5. Carries(s, u, W)
  BY <1>1, <1>2, <1>3, <1>4 DEF Carries
<1>6. Progresses(r, s)
  BY <1>1 DEF Progresses, IsStarted, Remotes
<1> QED
  BY <1>1, <1>5, <1>6 DEF s

\* A stream whose call is over, after its close callback.
LEMMA AfterCloseCarries ==
  ASSUME NEW s \in Remotes, s.state # "open", s.call = NoCall, NEW u, NEW W,
         Owned(Batches(s.pipeline), u, W)
  PROVE  LET c == AfterClose(s) IN
         /\ c \in Remotes /\ Carries(c, u, W)
         /\ c.state = s.state /\ c.closes = s.closes /\ c.asks = s.asks
         /\ c.pipeline = s.pipeline /\ c.call = NoCall /\ ~c.handshake
<1> DEFINE c == AfterClose(s)
<1>1. /\ c \in Remotes
      /\ c.state = s.state /\ c.closes = s.closes /\ c.asks = s.asks
      /\ c.pipeline = s.pipeline /\ c.call = s.call /\ ~c.handshake
  BY DEF AfterClose, Remotes
<1> HIDE DEF c
<1>2. Carries(c, u, W)
  BY <1>1 DEF Carries
<1> QED
  BY <1>1, <1>2 DEF c

LEMMA ClosedType ==
  ASSUME NEW r \in Remotes, NEW to \in {"initial", "error"}
  PROVE  LET c == Closed(r, to) IN
         /\ c \in Remotes /\ c.state = to /\ c.closes = r.closes + 1 /\ c.call = NoCall
         /\ c.pipeline = r.pipeline /\ c.asks = r.asks
<1> DEFINE c == Closed(r, to)
<1>1. c = [r EXCEPT !.state = to, !.closes = r.closes + 1, !.idle = FALSE, !.call = NoCall]
  BY DEF Closed
<1>2. r.closes + 1 \in Nat /\ NoCall \in Calls
  BY NoCallType DEF Remotes
<1> HIDE DEF c
<1> QED
  BY <1>1, <1>2 DEF Remotes, c

LEMMA BrokenCarries ==
  ASSUME NEW r \in Remotes, ~r.asks, NEW u, NEW W, Carries(r, u, W)
  PROVE  /\ Broken(r) \in Remotes /\ Carries(Broken(r), u, W)
         /\ Progresses(r, Broken(r))
         /\ Broken(r).closes > r.closes /\ ~Broken(r).asks /\ Broken(r).state # "starting"
<1> DEFINE c == Closed(r, "error")
           s == StartIfNeeded(c)
           b == AfterClose(s)
<1>1. Broken(r) = b
  BY DEF Broken
<1>2. /\ c \in Remotes /\ c.state = "error" /\ c.closes = r.closes + 1 /\ c.call = NoCall
      /\ c.pipeline = r.pipeline /\ ~c.asks
  BY ClosedType
<1> HIDE DEF c
<1>3. /\ s \in Remotes /\ s.closes = r.closes + 1 /\ s.call = NoCall
      /\ s.pipeline = r.pipeline /\ s.state # "open" /\ (s.asks <=> s.state = "starting")
      /\ ~s.asks
  BY <1>2, StartIfNeededType DEF IsStarted
<1> HIDE DEF s
<1>4. Owned(Batches(s.pipeline), u, W)
  BY <1>3 DEF Carries
<1>5. /\ b \in Remotes /\ Carries(b, u, W) /\ b.state = s.state /\ b.closes = s.closes
      /\ b.asks = s.asks
  BY <1>3, <1>4, AfterCloseCarries
<1> HIDE DEF b
<1>6. Progresses(r, b)
  BY <1>3, <1>5 DEF Progresses, Remotes
<1>7. b.closes > r.closes /\ ~b.asks /\ b.state # "starting"
  BY <1>3, <1>5 DEF Remotes
<1> QED
  BY <1>1, <1>5, <1>6, <1>7

LEMMA RejectedCarries ==
  ASSUME NEW r \in Remotes, ~r.asks, r.pipeline # <<>>, NEW q \in Seq(Batch), NEW u, NEW W,
         Carries(r, u, W), Owned(Batches(q), u, W)
  PROVE  /\ Rejected(r, q) \in Remotes /\ Carries(Rejected(r, q), u, W)
         /\ Progresses(r, Rejected(r, q))
<1> DEFINE c == Closed(r, "initial")
           d == [c EXCEPT !.pipeline = Tail(@)]
           s == Fill(d, q)
           b == AfterClose(s)
<1>1. Rejected(r, q) = b
  BY DEF Rejected
<1>2. /\ c \in Remotes /\ c.state = "initial" /\ c.closes = r.closes + 1 /\ c.call = NoCall
      /\ c.pipeline = r.pipeline /\ ~c.asks
  BY ClosedType
<1> HIDE DEF c
<1>3. /\ Tail(r.pipeline) \in Pipelines
      /\ Batches(Tail(r.pipeline)) \subseteq Batches(r.pipeline)
  <2>1. r.pipeline \in Seq(Batch) /\ Len(r.pipeline) <= MaxPending /\ MaxPending \in Nat
    BY PipelineType, WriteStreamAssumption DEF Pipelines, WriteStreamAssumption
  <2>2. /\ Tail(r.pipeline) \in Seq(Batch) /\ Len(Tail(r.pipeline)) = Len(r.pipeline) - 1
        /\ Batches(Tail(r.pipeline)) \subseteq Batches(r.pipeline)
    BY <2>1, BatchesOfTail
  <2> QED
    BY <2>1, <2>2 DEF Pipelines
<1>4. /\ d \in Remotes /\ d.state = "initial" /\ d.closes = r.closes + 1 /\ d.call = NoCall
      /\ ~d.asks /\ Batches(d.pipeline) \subseteq Batches(r.pipeline)
  BY <1>2, <1>3 DEF Remotes
<1> HIDE DEF d
<1>5. /\ s \in Remotes /\ s.closes = r.closes + 1 /\ s.call = NoCall /\ s.state # "open"
      /\ Batches(s.pipeline) \subseteq Batches(r.pipeline) \cup Batches(q)
      /\ (s.asks <=> s.state = "starting")
  BY <1>4, FillType DEF IsStarted
<1> HIDE DEF s
<1>6. Owned(Batches(s.pipeline), u, W)
  BY <1>5 DEF Carries, Owned
<1>7. /\ b \in Remotes /\ Carries(b, u, W) /\ b.state = s.state /\ b.closes = s.closes
      /\ b.asks = s.asks
  BY <1>5, <1>6, AfterCloseCarries
<1> HIDE DEF b
<1>8. Progresses(r, b)
  BY <1>5, <1>7 DEF Progresses, Remotes
<1> QED
  BY <1>1, <1>7, <1>8

\* A graceful stop ends the call, if there is one.
LEMMA GracefullyCarries ==
  ASSUME NEW r \in Remotes, ~r.asks, NEW u, NEW W, Carries(r, u, W)
  PROVE  LET g == Gracefully(r) IN
         /\ g \in Remotes /\ Carries(g, u, W) /\ ~g.asks /\ ~IsStarted(g)
         /\ g.call = NoCall /\ ~g.handshake
         /\ IF IsStarted(r) THEN g.closes = r.closes + 1 ELSE g.closes = r.closes
<1> DEFINE c == Closed(r, "initial")
           a == AfterClose(c)
           g == Gracefully(r)
<1>1. CASE IsStarted(r)
  <2>1. g = a
    BY <1>1 DEF Gracefully
  <2>2. /\ c \in Remotes /\ c.state = "initial" /\ c.closes = r.closes + 1 /\ c.call = NoCall
        /\ c.pipeline = r.pipeline /\ ~c.asks
    BY ClosedType
  <2> HIDE DEF c
  <2>3. Owned(Batches(c.pipeline), u, W)
    BY <2>2 DEF Carries
  <2>4. /\ a \in Remotes /\ Carries(a, u, W) /\ a.state = "initial"
        /\ a.closes = r.closes + 1 /\ ~a.asks /\ a.call = NoCall /\ ~a.handshake
    BY <2>2, <2>3, AfterCloseCarries
  <2> HIDE DEF a, g
  <2> QED
    BY <1>1, <2>1, <2>4 DEF IsStarted, g
<1>2. CASE ~IsStarted(r)
  <2>1. g = r
    BY <1>2 DEF Gracefully
  <2>2. r.call = NoCall /\ ~r.handshake
    BY <1>2 DEF Carries, IsStarted
  <2> HIDE DEF g
  <2> QED
    BY <1>2, <2>1, <2>2 DEF g
<1> QED
  BY <1>1, <1>2

\* A restart may be on behalf of another user v, with whose queue it fills up.
LEMMA RestartCarries ==
  ASSUME NEW r \in Remotes, ~r.asks, NEW q \in Seq(Batch), NEW u, NEW v, NEW W,
         Carries(r, u, W), Owned(Batches(q), v, W)
  PROVE  LET s == Restart(r, q) IN
         /\ s \in Remotes /\ Carries(s, v, W) /\ s.state # "open"
         /\ Progresses(r, s)
         /\ IF IsStarted(r) THEN s.closes = r.closes + 1 ELSE s.closes = r.closes
<1> DEFINE g == Gracefully(r)
           e == [g EXCEPT !.pipeline = <<>>, !.state = "initial"]
           s == Restart(r, q)
<1>1. /\ g \in Remotes /\ ~g.asks /\ g.call = NoCall /\ ~g.handshake
      /\ IF IsStarted(r) THEN g.closes = r.closes + 1 ELSE g.closes = r.closes
  BY GracefullyCarries
<1>2. s = Fill(e, q)
  BY DEF Restart
<1> HIDE DEF g
<1>3. <<>> \in Pipelines
  BY WriteStreamAssumption DEF WriteStreamAssumption, Pipelines
<1>4. /\ e \in Remotes /\ ~e.asks /\ e.call = NoCall /\ ~e.handshake /\ e.state = "initial"
      /\ e.pipeline = <<>> /\ e.closes = g.closes
  BY <1>1, <1>3 DEF Remotes
<1> HIDE DEF e
<1>5. /\ s \in Remotes /\ s.closes = g.closes /\ ~s.handshake /\ s.call = NoCall
      /\ s.state # "open" /\ Batches(s.pipeline) \subseteq Batches(q)
      /\ (s.asks <=> s.state = "starting")
  <2> DEFINE f == Fill(e, q)
  <2>1. /\ f \in Remotes /\ f.closes = e.closes /\ f.handshake = e.handshake
        /\ Batches(f.pipeline) \subseteq Batches(e.pipeline) \cup Batches(q)
        /\ ~(e.state = "open" /\ e.handshake) => f.call = e.call
        /\ ~IsStarted(e) => f.state # "open" /\ (f.asks <=> f.state = "starting")
    BY <1>4, FillType
  <2> HIDE DEF f, s
  <2>2. ~IsStarted(e) /\ Batches(e.pipeline) = {}
    BY <1>4, NoBatches DEF IsStarted
  <2>3. s = f
    BY <1>2 DEF f, s
  <2> QED
    BY <1>4, <2>1, <2>2, <2>3
<1> HIDE DEF s
<1>6. Carries(s, v, W)
  BY <1>5 DEF Carries, Owned
<1>7. Progresses(r, s)
  BY <1>1, <1>5 DEF Progresses, Remotes, IsStarted
<1> QED
  BY <1>1, <1>5, <1>6, <1>7 DEF s

-----------------------------------------------------------------------------
(* The queues between Auth, the provider and the worker.                   *)

LEMMA OnQueueAppend ==
  ASSUME NEW S, NEW m \in Seq(S), NEW b \in S, NEW n
  PROVE  /\ OnQueue(Append(m, b), n) <=> OnQueue(m, n) \/ Tok(b, n)
         /\ Once(m, n) /\ ~(OnQueue(m, n) /\ Tok(b, n)) => Once(Append(m, b), n)
<1>1. \A k \in DOMAIN m : k \in DOMAIN Append(m, b) /\ Append(m, b)[k] = m[k]
  OBVIOUS
<1>2. Len(m) + 1 \in DOMAIN Append(m, b) /\ Append(m, b)[Len(m) + 1] = b
  OBVIOUS
<1>3. \A k \in DOMAIN Append(m, b) : k \in DOMAIN m \/ k = Len(m) + 1
  OBVIOUS
<1>4. OnQueue(Append(m, b), n) <=> OnQueue(m, n) \/ Tok(b, n)
  BY <1>1, <1>2, <1>3 DEF OnQueue
<1>5. ASSUME Once(m, n), ~(OnQueue(m, n) /\ Tok(b, n)) PROVE Once(Append(m, b), n)
  <2> SUFFICES ASSUME NEW j \in DOMAIN Append(m, b), NEW k \in DOMAIN Append(m, b),
                      Tok(Append(m, b)[j], n), Tok(Append(m, b)[k], n)
               PROVE  j = k
    BY DEF Once
  <2>1. CASE j \in DOMAIN m /\ k \in DOMAIN m
    BY <1>1, <1>5, <2>1 DEF Once
  <2>2. CASE j \in DOMAIN m /\ k = Len(m) + 1
    BY <1>1, <1>2, <1>5, <2>2 DEF OnQueue
  <2>3. CASE j = Len(m) + 1 /\ k \in DOMAIN m
    BY <1>1, <1>2, <1>5, <2>3 DEF OnQueue
  <2> QED
    BY <1>3, <2>1, <2>2, <2>3
<1> QED
  BY <1>4, <1>5

LEMMA OnQueueTail ==
  ASSUME NEW S, NEW m \in Seq(S), m # <<>>, NEW n
  PROVE  /\ OnQueue(m, n) <=> Tok(Head(m), n) \/ OnQueue(Tail(m), n)
         /\ Once(m, n) => Once(Tail(m), n)
         /\ Once(m, n) /\ Tok(Head(m), n) => ~OnQueue(Tail(m), n)
<1>1. \A k \in DOMAIN Tail(m) : k + 1 \in DOMAIN m /\ Tail(m)[k] = m[k + 1] /\ k \in Nat /\ k # 0
  OBVIOUS
<1>2. 1 \in DOMAIN m /\ Head(m) = m[1]
  OBVIOUS
<1>3. \A k \in DOMAIN m : k = 1 \/ (k - 1 \in DOMAIN Tail(m) /\ Tail(m)[k - 1] = m[k])
  OBVIOUS
<1>4. OnQueue(m, n) <=> Tok(Head(m), n) \/ OnQueue(Tail(m), n)
  <2>1. ASSUME OnQueue(m, n), ~Tok(Head(m), n) PROVE OnQueue(Tail(m), n)
    BY <1>2, <1>3, <2>1 DEF OnQueue
  <2>2. Tok(Head(m), n) => OnQueue(m, n)
    BY <1>2 DEF OnQueue
  <2>3. OnQueue(Tail(m), n) => OnQueue(m, n)
    BY <1>1 DEF OnQueue
  <2> QED
    BY <2>1, <2>2, <2>3
<1>5. ASSUME Once(m, n) PROVE Once(Tail(m), n)
  <2> SUFFICES ASSUME NEW j \in DOMAIN Tail(m), NEW k \in DOMAIN Tail(m),
                      Tok(Tail(m)[j], n), Tok(Tail(m)[k], n)
               PROVE  j = k
    BY DEF Once
  <2>1. j + 1 = k + 1
    BY <1>1, <1>5 DEF Once
  <2> QED
    BY <1>1, <2>1
<1>6. ASSUME Once(m, n), Tok(Head(m), n), OnQueue(Tail(m), n) PROVE FALSE
  <2>1. PICK k \in DOMAIN Tail(m) : Tok(Tail(m)[k], n)
    BY <1>6 DEF OnQueue
  <2>2. k + 1 = 1
    BY <1>1, <1>2, <1>6, <2>1 DEF Once
  <2> QED
    BY <1>1, <2>2
<1> QED
  BY <1>4, <1>5, <1>6

\* The remote store makes a step; Auth is asked for a token if it says so.
Asked(fs, s, c) == IF s.asks THEN fs \cup {Fetch(s.closes, c)} ELSE fs

LEMMA PastHasNone ==
  ASSUME NEW fs \in SUBSET Fetches, NEW m \in Seq(Blocks), NEW w \in Seq(Tasks),
         NEW n \in Nat, NEW l \in Nat, l > n, Past(fs, m, w, n)
  PROVE  Past(fs, m, w, l) /\ AtMostOne(fs, m, w, l) /\ ~AnyFor(fs, m, w, l)
<1>1. \A f \in fs : f.closes \in Nat
  BY DEF Fetches
<1>2. \A k \in DOMAIN m : m[k].closes \in Nat /\ m[k] \in Batches(m)
  <2>1. \A k \in DOMAIN m : m[k] \in Blocks
    OBVIOUS
  <2>2. \A b \in Blocks : b.closes \in Nat
    BY DEF Blocks
  <2> QED
    BY <2>1, <2>2 DEF Batches
<1>3. \A k \in DOMAIN w : w[k].closes \in Nat /\ w[k] \in Batches(w)
  <2>1. \A k \in DOMAIN w : w[k] \in Tasks
    OBVIOUS
  <2>2. \A b \in Tasks : b.closes \in Nat
    BY DEF Tasks
  <2> QED
    BY <2>1, <2>2 DEF Batches
<1>4. ~Fetching(fs, l)
  BY <1>1 DEF Fetching, Past
<1>5. ~OnQueue(m, l)
  BY <1>2 DEF OnQueue, Tok, Past
<1>6. ~OnQueue(w, l)
  BY <1>3 DEF OnQueue, Tok, Past
<1>7. Past(fs, m, w, l)
  <2>1. \A b \in Batches(m) : b.closes \in Nat
    BY <1>2 DEF Batches
  <2>2. \A b \in Batches(w) : b.closes \in Nat
    BY <1>3 DEF Batches
  <2> QED
    BY <1>1, <2>1, <2>2 DEF Past
<1>8. AtMostOne(fs, m, w, l)
  BY <1>4, <1>5, <1>6 DEF AtMostOne, Fetching, OnQueue, Once
<1> QED
  BY <1>4, <1>5, <1>6, <1>7, <1>8 DEF AnyFor

LEMMA TokensAsked ==
  ASSUME NEW fs \in SUBSET Fetches, NEW m \in Seq(Blocks), NEW w \in Seq(Tasks),
         NEW r \in Remotes, NEW s \in Remotes, NEW c \in Nat,
         TokensWait(fs, m, w, r), Progresses(r, s)
  PROVE  TokensWait(Asked(fs, s, c), m, w, [s EXCEPT !.asks = FALSE])
<1> DEFINE n == s.closes
           x == [s EXCEPT !.asks = FALSE]
<1>1. n \in Nat /\ r.closes \in Nat /\ x.closes = n /\ x.state = s.state
  BY DEF Remotes
<1> HIDE DEF x
<1>2. /\ Past(fs, m, w, n) /\ AtMostOne(fs, m, w, n)
      /\ AnyFor(fs, m, w, n) <=> r.state = "starting" /\ n = r.closes
  <2>1. CASE n = r.closes
    BY <2>1 DEF TokensWait
  <2>2. CASE n > r.closes
    BY <1>1, <2>2, PastHasNone DEF TokensWait
  <2> QED
    BY <1>1, <2>1, <2>2 DEF Progresses
<1>3. CASE ~s.asks
  BY <1>1, <1>2, <1>3 DEF TokensWait, Progresses, Asked, x
<1>4. CASE s.asks
  <2> DEFINE f == Fetch(n, c)
             gs == fs \cup {f}
  <2>1. Asked(fs, s, c) = gs
    BY <1>4 DEF Asked
  <2>2. f.closes = n
    BY DEF Fetch
  <2>3. s.state = "starting" /\ ~AnyFor(fs, m, w, n)
    BY <1>2, <1>4 DEF Progresses
  <2> HIDE DEF f
  <2>4. Fetching(gs, n) /\ \A g \in fs : g.closes # n
    BY <2>2, <2>3 DEF Fetching, AnyFor
  <2>5. AtMostOne(gs, m, w, n)
    BY <1>2, <2>3, <2>4 DEF AtMostOne, AnyFor
  <2>6. Past(gs, m, w, n)
    BY <1>1, <1>2, <2>2 DEF Past
  <2> QED
    BY <1>1, <2>1, <2>3, <2>4, <2>5, <2>6 DEF TokensWait, AnyFor, x
<1> QED
  BY <1>3, <1>4

\* A token is read, answered, passed on, asked for again, and used.
LEMMA TokenRead ==
  ASSUME NEW fs, NEW m, NEW w, NEW r, TokensWait(fs, m, w, r),
         NEW f \in fs, NEW g, g.closes = f.closes
  PROVE  TokensWait((fs \ {f}) \cup {g}, m, w, r)
<1> DEFINE gs == (fs \ {f}) \cup {g}
           n == r.closes
<1>1. Fetching(gs, n) <=> Fetching(fs, n)
  BY DEF Fetching
<1>2. \A h \in gs : h.closes <= n
  BY DEF TokensWait, Past
<1>3. \A h, k \in gs : h.closes = n /\ k.closes = n => h = k
  BY DEF TokensWait, AtMostOne
<1> HIDE DEF gs, n
<1>4. TokensWait(gs, m, w, r)
  BY <1>1, <1>2, <1>3 DEF TokensWait, Past, AtMostOne, AnyFor, n
<1> QED
  BY <1>4 DEF gs

LEMMA TokenAnswered ==
  ASSUME NEW fs, NEW m \in Seq(Blocks), NEW w, NEW r, TokensWait(fs, m, w, r),
         NEW f \in fs, NEW b \in Blocks, Tok(b, f.closes)
  PROVE  TokensWait(fs \ {f}, Append(m, b), w, r)
<1> DEFINE gs == fs \ {f}
           n == r.closes
           o == Append(m, b)
<1>1. /\ Past(fs, m, w, n) /\ AtMostOne(fs, m, w, n)
      /\ r.state = "starting" <=> AnyFor(fs, m, w, n)
  BY DEF TokensWait
<1>2. Tok(b, n) <=> f.closes = n
  BY DEF Tok
<1>3. /\ OnQueue(o, n) <=> OnQueue(m, n) \/ Tok(b, n)
      /\ Once(m, n) /\ ~(OnQueue(m, n) /\ Tok(b, n)) => Once(o, n)
      /\ Batches(o) = Batches(m) \cup {b}
  BY OnQueueAppend, BatchesOfAppend
<1>4. Fetching(fs, n) <=> Fetching(gs, n) \/ f.closes = n
  BY DEF Fetching
<1>5. ~(Fetching(gs, n) /\ f.closes = n)
  BY <1>1 DEF Fetching, AtMostOne
<1>6. Past(gs, o, w, n)
  BY <1>1, <1>3 DEF Past, Tok
<1> HIDE DEF o, n
<1>7. AtMostOne(gs, o, w, n)
  BY <1>1, <1>2, <1>3, <1>4, <1>5 DEF AtMostOne
<1>8. AnyFor(gs, o, w, n) <=> AnyFor(fs, m, w, n)
  BY <1>2, <1>3, <1>4 DEF AnyFor
<1> QED
  BY <1>1, <1>6, <1>7, <1>8 DEF TokensWait, n, o

LEMMA NotifyQueued ==
  ASSUME NEW fs, NEW m \in Seq(Blocks), NEW w, NEW r, TokensWait(fs, m, w, r),
         NEW b \in Blocks, b.kind = "notify"
  PROVE  TokensWait(fs, Append(m, b), w, r)
<1>1. ~Tok(b, r.closes)
  BY DEF Tok
<1>2. /\ OnQueue(Append(m, b), r.closes) <=> OnQueue(m, r.closes)
      /\ Once(m, r.closes) => Once(Append(m, b), r.closes)
      /\ Batches(Append(m, b)) = Batches(m) \cup {b}
  BY <1>1, OnQueueAppend, BatchesOfAppend
<1> QED
  BY <1>2 DEF TokensWait, Past, AtMostOne, AnyFor

LEMMA TaskQueued ==
  ASSUME NEW fs, NEW m, NEW w \in Seq(Tasks), NEW r, TokensWait(fs, m, w, r),
         NEW t \in Tasks, t.kind \in {"change", "write"}
  PROVE  TokensWait(fs, m, Append(w, t), r)
<1>1. ~Tok(t, r.closes)
  BY DEF Tok
<1>2. /\ OnQueue(Append(w, t), r.closes) <=> OnQueue(w, r.closes)
      /\ Once(w, r.closes) => Once(Append(w, t), r.closes)
      /\ Batches(Append(w, t)) = Batches(w) \cup {t}
  BY <1>1, OnQueueAppend, BatchesOfAppend
<1> QED
  BY <1>2 DEF TokensWait, Past, AtMostOne, AnyFor

LEMMA NotifyTaken ==
  ASSUME NEW fs, NEW m \in Seq(Blocks), NEW w, NEW r, TokensWait(fs, m, w, r),
         m # <<>>, Head(m).kind = "notify"
  PROVE  TokensWait(fs, Tail(m), w, r)
<1>1. ~Tok(Head(m), r.closes)
  BY DEF Tok
<1>2. /\ OnQueue(Tail(m), r.closes) <=> OnQueue(m, r.closes)
      /\ Once(m, r.closes) => Once(Tail(m), r.closes)
      /\ Batches(Tail(m)) \subseteq Batches(m)
  BY <1>1, OnQueueTail, BatchesOfTail
<1> QED
  BY <1>2 DEF TokensWait, Past, AtMostOne, AnyFor

LEMMA TaskTaken ==
  ASSUME NEW fs, NEW m, NEW w \in Seq(Tasks), NEW r, TokensWait(fs, m, w, r),
         w # <<>>, ~Tok(Head(w), r.closes)
  PROVE  TokensWait(fs, m, Tail(w), r)
<1>1. /\ OnQueue(Tail(w), r.closes) <=> OnQueue(w, r.closes)
      /\ Once(w, r.closes) => Once(Tail(w), r.closes)
      /\ Batches(Tail(w)) \subseteq Batches(w)
  BY OnQueueTail, BatchesOfTail
<1> QED
  BY <1>1 DEF TokensWait, Past, AtMostOne, AnyFor

LEMMA TokenPassed ==
  ASSUME NEW fs, NEW m \in Seq(Blocks), NEW w \in Seq(Tasks), NEW r,
         TokensWait(fs, m, w, r), m # <<>>, Head(m).kind \in {"token", "error"},
         NEW t \in Tasks, Tok(t, Head(m).closes)
  PROVE  TokensWait(fs, Tail(m), Append(w, t), r)
<1> DEFINE n == r.closes
           o == Tail(m)
           v == Append(w, t)
<1>1. /\ Past(fs, m, w, n) /\ AtMostOne(fs, m, w, n)
      /\ r.state = "starting" <=> AnyFor(fs, m, w, n)
  BY DEF TokensWait
<1>2. /\ Tok(t, n) <=> Tok(Head(m), n)
      /\ t.closes = Head(m).closes /\ Head(m).kind # "notify"
  BY DEF Tok
<1>3. /\ OnQueue(m, n) <=> Tok(Head(m), n) \/ OnQueue(o, n)
      /\ Once(m, n) => Once(o, n)
      /\ Once(m, n) /\ Tok(Head(m), n) => ~OnQueue(o, n)
      /\ Batches(o) \subseteq Batches(m) /\ Head(m) \in Batches(m)
  BY OnQueueTail, BatchesOfTail
<1>4. /\ OnQueue(v, n) <=> OnQueue(w, n) \/ Tok(t, n)
      /\ Once(w, n) /\ ~(OnQueue(w, n) /\ Tok(t, n)) => Once(v, n)
      /\ Batches(v) = Batches(w) \cup {t}
  BY OnQueueAppend, BatchesOfAppend
<1> HIDE DEF o, n, v
<1>5. Past(fs, o, v, n)
  BY <1>1, <1>2, <1>3, <1>4 DEF Past
<1>6. AtMostOne(fs, o, v, n)
  BY <1>1, <1>2, <1>3, <1>4 DEF AtMostOne
<1>7. AnyFor(fs, o, v, n) <=> AnyFor(fs, m, w, n)
  BY <1>2, <1>3, <1>4 DEF AnyFor
<1> QED
  BY <1>1, <1>5, <1>6, <1>7 DEF TokensWait, n, o, v

LEMMA TokenAgain ==
  ASSUME NEW fs, NEW m \in Seq(Blocks), NEW w, NEW r,
         TokensWait(fs, m, w, r), m # <<>>, Head(m).kind \in {"token", "error"},
         NEW f, f.closes = Head(m).closes
  PROVE  TokensWait(fs \cup {f}, Tail(m), w, r)
<1> DEFINE n == r.closes
           o == Tail(m)
           gs == fs \cup {f}
<1>1. /\ Past(fs, m, w, n) /\ AtMostOne(fs, m, w, n)
      /\ r.state = "starting" <=> AnyFor(fs, m, w, n)
  BY DEF TokensWait
<1>2. (Tok(Head(m), n) <=> f.closes = n) /\ Head(m).kind # "notify"
  BY DEF Tok
<1>3. /\ OnQueue(m, n) <=> Tok(Head(m), n) \/ OnQueue(o, n)
      /\ Once(m, n) => Once(o, n)
      /\ Once(m, n) /\ Tok(Head(m), n) => ~OnQueue(o, n)
      /\ Batches(o) \subseteq Batches(m) /\ Head(m) \in Batches(m)
  BY OnQueueTail, BatchesOfTail
<1>4. /\ Fetching(gs, n) <=> Fetching(fs, n) \/ f.closes = n
      /\ f.closes = n => ~Fetching(fs, n)
  BY <1>1, <1>2, <1>3 DEF Fetching, AtMostOne
<1>5. \A g, h \in gs : g.closes = n /\ h.closes = n => g = h
  BY <1>1, <1>4 DEF AtMostOne, Fetching
<1>6. Past(gs, o, w, n)
  BY <1>1, <1>2, <1>3 DEF Past
<1> HIDE DEF o, n, gs
<1>7. AtMostOne(gs, o, w, n)
  BY <1>1, <1>2, <1>3, <1>4, <1>5 DEF AtMostOne
<1>8. AnyFor(gs, o, w, n) <=> AnyFor(fs, m, w, n)
  BY <1>2, <1>3, <1>4 DEF AnyFor
<1> QED
  BY <1>1, <1>6, <1>7, <1>8 DEF TokensWait, n, o, gs

LEMMA TokenUsed ==
  ASSUME NEW fs, NEW m, NEW w \in Seq(Tasks), NEW r,
         TokensWait(fs, m, w, r), w # <<>>, Tok(Head(w), r.closes)
  PROVE  /\ Past(fs, m, Tail(w), r.closes) /\ AtMostOne(fs, m, Tail(w), r.closes)
         /\ ~AnyFor(fs, m, Tail(w), r.closes)
<1>1. /\ OnQueue(w, r.closes) /\ ~OnQueue(Tail(w), r.closes)
      /\ Once(w, r.closes) => Once(Tail(w), r.closes)
      /\ Batches(Tail(w)) \subseteq Batches(w)
  BY OnQueueTail, BatchesOfTail DEF TokensWait, AtMostOne
<1> QED
  BY <1>1 DEF TokensWait, Past, AtMostOne, AnyFor

\* The provider follows Auth.
LEMMA NotifiesAppend ==
  ASSUME NEW m \in Seq(Blocks), NEW b \in Blocks
  PROVE  /\ Notifies(Append(m, b)) <=> Notifies(m) \/ b.kind = "notify"
         /\ \A k \in DOMAIN m : Quiet(Append(m, b), k) <=> Quiet(m, k)
         /\ Quiet(Append(m, b), Len(m) + 1) <=> ~Notifies(m)
<1>1. \A k \in DOMAIN m : /\ k \in DOMAIN Append(m, b) /\ Append(m, b)[k] = m[k]
                          /\ k < Len(m) + 1 /\ k \in Nat
  OBVIOUS
<1>2. Len(m) + 1 \in DOMAIN Append(m, b) /\ Append(m, b)[Len(m) + 1] = b
  OBVIOUS
<1>3. \A k \in DOMAIN Append(m, b) : k \in DOMAIN m \/ k = Len(m) + 1
  OBVIOUS
<1>4. \A k \in DOMAIN m : ~(Len(m) + 1 < k) /\ ~(Len(m) + 1 < Len(m) + 1)
  OBVIOUS
<1> QED
  BY <1>1, <1>2, <1>3, <1>4 DEF Notifies, Quiet

LEMMA FollowsChange ==
  ASSUME NEW m \in Seq(Blocks), NEW b \in Blocks, NEW a, NEW fs, NEW p,
         b.kind = "notify", b.user = a, NEW old, ProviderFollows(old, fs, m, p)
  PROVE  ProviderFollows(a, fs, Append(m, b), p)
<1> DEFINE o == Append(m, b)
<1>1. \A k \in DOMAIN m : k \in DOMAIN o /\ o[k] = m[k] /\ k < Len(m) + 1
  OBVIOUS
<1>2. Len(m) + 1 \in DOMAIN o /\ o[Len(m) + 1] = b
  OBVIOUS
<1>3. \A k \in DOMAIN o : k \in DOMAIN m \/ k = Len(m) + 1
  OBVIOUS
<1>4. Notifies(o) /\ \A k \in DOMAIN m : Quiet(o, k) <=> Quiet(m, k)
  BY NotifiesAppend
<1> HIDE DEF o
<1>5. ASSUME NEW k \in DOMAIN o, o[k].kind = "notify", \A j \in DOMAIN o : j > k => o[j].kind # "notify"
      PROVE  o[k].user = a
  BY <1>1, <1>2, <1>3, <1>5
<1>6. ASSUME NEW f \in fs PROVE f.counter <= p.counter
  BY DEF ProviderFollows
<1>7. ASSUME NEW k \in DOMAIN o, o[k].kind # "notify"
      PROVE  /\ o[k].counter <= p.counter
             /\ o[k].counter = p.counter /\ Quiet(o, k) => o[k].user = p.user
  <2>1. k \in DOMAIN m /\ o[k] = m[k]
    BY <1>1, <1>2, <1>3, <1>7
  <2> QED
    BY <1>4, <1>7, <2>1 DEF ProviderFollows
<1>8. ProviderFollows(a, fs, o, p)
  BY <1>4, <1>5, <1>6, <1>7 DEF ProviderFollows
<1> QED
  BY <1>8 DEF o

LEMMA FollowsAnswer ==
  ASSUME NEW m \in Seq(Blocks), NEW b \in Blocks, NEW a, NEW fs, NEW gs, NEW p,
         b.kind # "notify", b.counter <= p.counter,
         b.counter = p.counter /\ ~Notifies(m) => b.user = p.user,
         gs \subseteq fs, ProviderFollows(a, fs, m, p)
  PROVE  ProviderFollows(a, gs, Append(m, b), p)
<1> DEFINE o == Append(m, b)
<1>1. \A k \in DOMAIN m : k \in DOMAIN o /\ o[k] = m[k]
  OBVIOUS
<1>2. Len(m) + 1 \in DOMAIN o /\ o[Len(m) + 1] = b
  OBVIOUS
<1>3. \A k \in DOMAIN o : k \in DOMAIN m \/ k = Len(m) + 1
  OBVIOUS
<1>4. /\ Notifies(o) <=> Notifies(m)
      /\ \A k \in DOMAIN m : Quiet(o, k) <=> Quiet(m, k)
      /\ Quiet(o, Len(m) + 1) <=> ~Notifies(m)
  BY NotifiesAppend
<1> HIDE DEF o
<1>5. ASSUME NEW k \in DOMAIN o, o[k].kind = "notify", \A j \in DOMAIN o : j > k => o[j].kind # "notify"
      PROVE  o[k].user = a
  <2>1. k # Len(m) + 1
    BY <1>2, <1>5
  <2>3. k \in DOMAIN m /\ o[k] = m[k]
    BY <1>1, <1>3, <2>1
  <2>2. \A j \in DOMAIN m : j > k => m[j].kind # "notify"
    BY <1>1, <1>5
  <2> QED
    BY <1>5, <2>2, <2>3 DEF ProviderFollows
<1>6. ASSUME NEW f \in gs
      PROVE  f.counter <= p.counter /\ (f.of # Unread /\ f.counter = p.counter /\ ~Notifies(o) => f.of = p.user)
  BY <1>4, <1>6 DEF ProviderFollows
<1>7. ASSUME NEW k \in DOMAIN o, o[k].kind # "notify"
      PROVE  /\ o[k].counter <= p.counter
             /\ o[k].counter = p.counter /\ Quiet(o, k) => o[k].user = p.user
  <2>1. CASE k \in DOMAIN m
    BY <1>1, <1>4, <1>7, <2>1 DEF ProviderFollows
  <2>2. CASE k = Len(m) + 1
    BY <1>2, <1>4, <2>2
  <2> QED
    BY <1>3, <2>1, <2>2
<1>8. ~Notifies(o) => p.user = a
  BY <1>4 DEF ProviderFollows
<1>9. ProviderFollows(a, gs, o, p)
  BY <1>5, <1>6, <1>7, <1>8 DEF ProviderFollows
<1> QED
  BY <1>9 DEF o

LEMMA FollowsFetch ==
  ASSUME NEW m, NEW a, NEW fs, NEW gs, NEW p, ProviderFollows(a, fs, m, p),
         \A f \in gs : \/ f \in fs
                      \/ /\ f.counter <= p.counter
                         /\ f.of # Unread /\ f.counter = p.counter /\ ~Notifies(m) => f.of = p.user
  PROVE  ProviderFollows(a, gs, m, p)
  BY DEF ProviderFollows

LEMMA NotifiesTail ==
  ASSUME NEW m \in Seq(Blocks), m # <<>>
  PROVE  /\ Notifies(m) <=> Head(m).kind = "notify" \/ Notifies(Tail(m))
         /\ Head(m).kind # "notify" =>
              \A k \in DOMAIN Tail(m) : Quiet(Tail(m), k) => Quiet(m, k + 1)
<1>1. \A k \in DOMAIN Tail(m) : k + 1 \in DOMAIN m /\ Tail(m)[k] = m[k + 1] /\ k \in Nat
  OBVIOUS
<1>2. 1 \in DOMAIN m /\ Head(m) = m[1]
  OBVIOUS
<1>3. \A k \in DOMAIN m : k = 1 \/ (k - 1 \in DOMAIN Tail(m) /\ Tail(m)[k - 1] = m[k])
  OBVIOUS
<1>4. \A j \in DOMAIN m : j \in Nat /\ \A k \in DOMAIN Tail(m) : j < k + 1 => j - 1 < k
  OBVIOUS
<1>5. Notifies(m) <=> Head(m).kind = "notify" \/ Notifies(Tail(m))
  BY <1>1, <1>2, <1>3 DEF Notifies
<1>6. ASSUME Head(m).kind # "notify", NEW k \in DOMAIN Tail(m), Quiet(Tail(m), k)
      PROVE  Quiet(m, k + 1)
  BY <1>2, <1>3, <1>4, <1>6 DEF Quiet
<1> QED
  BY <1>5, <1>6

LEMMA FollowsNotified ==
  ASSUME NEW m \in Seq(Blocks), m # <<>>, NEW a, NEW fs \in SUBSET Fetches,
         NEW p \in [user : Anyone, counter : Nat],
         Head(m).kind = "notify", ProviderFollows(a, fs, m, p),
         NEW q, q.user = Head(m).user, q.counter = p.counter + 1
  PROVE  ProviderFollows(a, fs, Tail(m), q)
<1>1. \A k \in DOMAIN Tail(m) : k + 1 \in DOMAIN m /\ Tail(m)[k] = m[k + 1] /\ k \in Nat
  OBVIOUS
<1>2. 1 \in DOMAIN m /\ Head(m) = m[1]
  OBVIOUS
<1>3. \A k \in DOMAIN m : k \in Nat /\ (k = 1 \/ (k - 1 \in DOMAIN Tail(m) /\ Tail(m)[k - 1] = m[k]))
  OBVIOUS
<1>4. p.counter \in Nat
  OBVIOUS
<1>9. \A f \in fs : f.counter \in Nat
  BY DEF Fetches
<1>10. ASSUME NEW k \in DOMAIN m PROVE m[k].counter \in Nat
  <2>1. \A b \in Blocks : b.counter \in Nat
    BY DEF Blocks
  <2>2. m[k] \in Blocks
    OBVIOUS
  <2> QED
    BY <2>1, <2>2
<1>5. ASSUME ~Notifies(Tail(m)) PROVE q.user = a
  <2>1. ASSUME NEW j \in DOMAIN m, j > 1 PROVE m[j].kind # "notify"
    <3>1. j - 1 \in DOMAIN Tail(m) /\ Tail(m)[j - 1] = m[j]
      BY <1>3, <2>1
    <3> QED
      BY <1>5, <3>1 DEF Notifies
  <2> QED
    BY <1>2, <2>1 DEF ProviderFollows
<1>6. ASSUME NEW k \in DOMAIN Tail(m), Tail(m)[k].kind = "notify",
             \A j \in DOMAIN Tail(m) : j > k => Tail(m)[j].kind # "notify"
      PROVE  Tail(m)[k].user = a
  <2>1. ASSUME NEW j \in DOMAIN m, j > k + 1 PROVE m[j].kind # "notify"
    <3>1. j - 1 \in DOMAIN Tail(m) /\ Tail(m)[j - 1] = m[j] /\ j - 1 > k
      BY <1>1, <1>3, <2>1
    <3> QED
      BY <1>6, <3>1
  <2> QED
    BY <1>1, <1>6, <2>1 DEF ProviderFollows
<1>7. \A f \in fs : f.counter <= q.counter /\ f.counter # q.counter
  BY <1>4, <1>9 DEF ProviderFollows
<1>8. ASSUME NEW k \in DOMAIN Tail(m), Tail(m)[k].kind # "notify"
      PROVE  Tail(m)[k].counter <= q.counter /\ Tail(m)[k].counter # q.counter
  <2>1. m[k + 1].counter <= p.counter /\ m[k + 1].counter \in Nat
    BY <1>1, <1>8, <1>10 DEF ProviderFollows
  <2> QED
    BY <1>1, <1>4, <2>1
<1> QED
  BY <1>5, <1>6, <1>7, <1>8 DEF ProviderFollows

LEMMA FollowsPassed ==
  ASSUME NEW m \in Seq(Blocks), m # <<>>, NEW a, NEW fs, NEW p,
         Head(m).kind # "notify", ProviderFollows(a, fs, m, p)
  PROVE  /\ ProviderFollows(a, fs, Tail(m), p)
         /\ Head(m).counter = p.counter => Head(m).user = p.user
<1>1. \A k \in DOMAIN Tail(m) : k + 1 \in DOMAIN m /\ Tail(m)[k] = m[k + 1] /\ k \in Nat
  OBVIOUS
<1>2. 1 \in DOMAIN m /\ Head(m) = m[1] /\ \A k \in DOMAIN m : ~(k < 1)
  OBVIOUS
<1>3. \A k \in DOMAIN m : k \in Nat /\ (k = 1 \/ (k - 1 \in DOMAIN Tail(m) /\ Tail(m)[k - 1] = m[k]))
  OBVIOUS
<1>4. /\ Notifies(m) <=> Notifies(Tail(m))
      /\ \A k \in DOMAIN Tail(m) : Quiet(Tail(m), k) => Quiet(m, k + 1)
  BY NotifiesTail
<1>5. ASSUME NEW k \in DOMAIN Tail(m), Tail(m)[k].kind = "notify",
             \A j \in DOMAIN Tail(m) : j > k => Tail(m)[j].kind # "notify"
      PROVE  Tail(m)[k].user = a
  <2>1. ASSUME NEW j \in DOMAIN m, j > k + 1 PROVE m[j].kind # "notify"
    <3>1. j - 1 \in DOMAIN Tail(m) /\ Tail(m)[j - 1] = m[j] /\ j - 1 > k
      BY <1>1, <1>3, <2>1
    <3> QED
      BY <1>5, <3>1
  <2> QED
    BY <1>1, <1>5, <2>1 DEF ProviderFollows
<1>6. ASSUME NEW k \in DOMAIN Tail(m), Tail(m)[k].kind # "notify"
      PROVE  /\ Tail(m)[k].counter <= p.counter
             /\ Tail(m)[k].counter = p.counter /\ Quiet(Tail(m), k) => Tail(m)[k].user = p.user
  BY <1>1, <1>4, <1>6 DEF ProviderFollows
<1>7. ProviderFollows(a, fs, Tail(m), p)
  BY <1>4, <1>5, <1>6 DEF ProviderFollows
<1>8. Quiet(m, 1)
  BY <1>2 DEF Quiet
<1> QED
  BY <1>2, <1>7, <1>8 DEF ProviderFollows

\* The worker follows the provider.
LEMMA WorkerQueued ==
  ASSUME NEW w \in Seq(Tasks), NEW t \in Tasks, t.kind # "change", NEW pu, NEW u, NEW r,
         WorkerFollows(pu, w, u, r), Tok(t, r.closes) => t.user = pu
  PROVE  WorkerFollows(pu, Append(w, t), u, r)
<1> DEFINE v == Append(w, t)
<1>1. \A k \in DOMAIN w : k \in DOMAIN v /\ v[k] = w[k] /\ k < Len(w) + 1
  OBVIOUS
<1>2. Len(w) + 1 \in DOMAIN v /\ v[Len(w) + 1] = t
  OBVIOUS
<1>3. \A k \in DOMAIN v : k \in DOMAIN w \/ k = Len(w) + 1
  OBVIOUS
<1> HIDE DEF v
<1>4. Changes(v) <=> Changes(w)
  BY <1>1, <1>2, <1>3 DEF Changes
<1>5. ASSUME NEW k \in DOMAIN v, v[k].kind = "change", \A j \in DOMAIN v : j > k => v[j].kind # "change"
      PROVE  v[k].user = pu
  <2>1. k \in DOMAIN w /\ v[k] = w[k] /\ \A j \in DOMAIN w : j > k => w[j].kind # "change"
    BY <1>1, <1>2, <1>3, <1>5
  <2> QED
    BY <1>5, <2>1 DEF WorkerFollows
<1>6. ASSUME NEW k \in DOMAIN v, v[k].kind \in {"token", "error"}, v[k].closes = r.closes,
             \A j \in DOMAIN v : j < k => v[j].kind # "change"
      PROVE  v[k].user = u
  <2>1. \A j \in DOMAIN w : j < k => w[j].kind # "change"
    BY <1>1, <1>6
  <2>2. CASE k \in DOMAIN w
    BY <1>1, <1>6, <2>1, <2>2 DEF WorkerFollows
  <2>3. CASE k = Len(w) + 1
    <3>1. ~Changes(w)
      BY <1>1, <2>1, <2>3 DEF Changes
    <3> QED
      BY <1>2, <1>6, <2>3, <3>1 DEF WorkerFollows, Tok
  <2> QED
    BY <1>3, <2>2, <2>3
<1>7. WorkerFollows(pu, v, u, r)
  BY <1>4, <1>5, <1>6 DEF WorkerFollows
<1> QED
  BY <1>7 DEF v

LEMMA WorkerChanging ==
  ASSUME NEW w \in Seq(Tasks), NEW t \in Tasks, t.kind = "change", NEW old, NEW u, NEW r,
         WorkerFollows(old, w, u, r)
  PROVE  WorkerFollows(t.user, Append(w, t), u, r)
<1> DEFINE v == Append(w, t)
<1>1. \A k \in DOMAIN w : k \in DOMAIN v /\ v[k] = w[k] /\ k < Len(w) + 1
  OBVIOUS
<1>2. Len(w) + 1 \in DOMAIN v /\ v[Len(w) + 1] = t
  OBVIOUS
<1>3. \A k \in DOMAIN v : k \in DOMAIN w \/ k = Len(w) + 1
  OBVIOUS
<1> HIDE DEF v
<1>4. Changes(v)
  BY <1>2 DEF Changes
<1>5. ASSUME NEW k \in DOMAIN v, v[k].kind = "change", \A j \in DOMAIN v : j > k => v[j].kind # "change"
      PROVE  v[k].user = t.user
  BY <1>1, <1>2, <1>3, <1>5
<1>6. ASSUME NEW k \in DOMAIN v, v[k].kind \in {"token", "error"}, v[k].closes = r.closes,
             \A j \in DOMAIN v : j < k => v[j].kind # "change"
      PROVE  v[k].user = u
  <2>1. k \in DOMAIN w /\ v[k] = w[k] /\ \A j \in DOMAIN w : j < k => w[j].kind # "change"
    BY <1>1, <1>2, <1>3, <1>6
  <2> QED
    BY <1>6, <2>1 DEF WorkerFollows
<1>7. WorkerFollows(t.user, v, u, r)
  BY <1>4, <1>5, <1>6 DEF WorkerFollows
<1> QED
  BY <1>7 DEF v

LEMMA WorkerTail ==
  ASSUME NEW w \in Seq(Tasks), w # <<>>, NEW pu, NEW u, NEW r, WorkerFollows(pu, w, u, r)
  PROVE  /\ Head(w).kind # "change" => WorkerFollows(pu, Tail(w), u, r)
         /\ Tok(Head(w), r.closes) => Head(w).user = u
         /\ Head(w).kind = "change" =>
              /\ ~Changes(Tail(w)) => Head(w).user = pu
              /\ \A k \in DOMAIN Tail(w) :
                   Tail(w)[k].kind = "change"
                     /\ (\A j \in DOMAIN Tail(w) : j > k => Tail(w)[j].kind # "change") =>
                   Tail(w)[k].user = pu
<1>1. \A k \in DOMAIN Tail(w) : k + 1 \in DOMAIN w /\ Tail(w)[k] = w[k + 1] /\ k \in Nat
  OBVIOUS
<1>2. 1 \in DOMAIN w /\ Head(w) = w[1] /\ \A k \in DOMAIN w : ~(k < 1)
  OBVIOUS
<1>3. \A k \in DOMAIN w : k \in Nat /\ (k = 1 \/ (k - 1 \in DOMAIN Tail(w) /\ Tail(w)[k - 1] = w[k]))
  OBVIOUS
<1>4. ASSUME NEW k \in DOMAIN Tail(w), Tail(w)[k].kind = "change",
             \A j \in DOMAIN Tail(w) : j > k => Tail(w)[j].kind # "change"
      PROVE  Tail(w)[k].user = pu
  <2>1. ASSUME NEW j \in DOMAIN w, j > k + 1 PROVE w[j].kind # "change"
    <3>1. j - 1 \in DOMAIN Tail(w) /\ Tail(w)[j - 1] = w[j] /\ j - 1 > k
      BY <1>1, <1>3, <2>1
    <3> QED
      BY <1>4, <3>1
  <2> QED
    BY <1>1, <1>4, <2>1 DEF WorkerFollows
<1>5. ASSUME Head(w).kind = "change", ~Changes(Tail(w)) PROVE Head(w).user = pu
  <2>1. \A j \in DOMAIN w : j > 1 => w[j].kind # "change"
    BY <1>3, <1>5 DEF Changes
  <2> QED
    BY <1>2, <1>5, <2>1 DEF WorkerFollows
<1>6. ASSUME Tok(Head(w), r.closes) PROVE Head(w).user = u
  BY <1>2, <1>6 DEF WorkerFollows, Tok
<1>7. ASSUME Head(w).kind # "change" PROVE WorkerFollows(pu, Tail(w), u, r)
  <2>1. Changes(Tail(w)) <=> Changes(w)
    BY <1>1, <1>2, <1>3, <1>7 DEF Changes
  <2>2. ASSUME NEW k \in DOMAIN Tail(w), Tail(w)[k].kind \in {"token", "error"},
               Tail(w)[k].closes = r.closes,
               \A j \in DOMAIN Tail(w) : j < k => Tail(w)[j].kind # "change"
        PROVE  Tail(w)[k].user = u
    <3>1. ASSUME NEW j \in DOMAIN w, j < k + 1 PROVE w[j].kind # "change"
      <4>1. CASE j = 1
        BY <1>2, <1>7, <4>1
      <4>2. CASE j # 1
        <5>1. j - 1 \in DOMAIN Tail(w) /\ Tail(w)[j - 1] = w[j] /\ j - 1 < k
          BY <1>1, <1>3, <3>1, <4>2
        <5> QED
          BY <2>2, <5>1
      <4> QED
        BY <4>1, <4>2
    <3> QED
      BY <1>1, <2>2, <3>1 DEF WorkerFollows
  <2>3. ~Changes(Tail(w)) => u = pu
    BY <2>1 DEF WorkerFollows
  <2> QED
    BY <1>4, <2>2, <2>3 DEF WorkerFollows
<1> QED
  BY <1>4, <1>5, <1>6, <1>7

\* A step of the stream leaves no token on the worker that the user could be wrong of.
LEMMA WorkerStep ==
  ASSUME NEW w \in Seq(Tasks), NEW pu, NEW u, NEW r \in Remotes, NEW s \in Remotes,
         NEW fs, NEW m, Past(fs, m, w, r.closes), s.closes >= r.closes,
         WorkerFollows(pu, w, u, r)
  PROVE  WorkerFollows(pu, w, u, s)
<1>1. r.closes \in Nat /\ s.closes \in Nat
  BY DEF Remotes
<1>2. \A k \in DOMAIN w : w[k] \in Batches(w)
  BY DEF Batches
<1>3. \A k \in DOMAIN w : w[k].kind \in {"token", "error"} /\ w[k].closes = s.closes =>
        w[k].closes = r.closes
  BY <1>1, <1>2 DEF Past
<1> QED
  BY <1>3 DEF WorkerFollows

-----------------------------------------------------------------------------
(* The steps of Auth and of the main thread.                               *)

LEMMA InitHolds == Init => IInv
<1> SUFFICES ASSUME Init PROVE IInv
  OBVIOUS
<1>1. Stopped \in Remotes /\ ~Stopped.asks
  <2>1. <<>> \in Pipelines
    BY WriteStreamAssumption DEF WriteStreamAssumption, Pipelines
  <2> QED
    BY <2>1, NoCallType DEF Stopped, Remotes
<1>2. Carries(Stopped, user, written)
  BY NoBatches DEF Stopped, Carries, Owned
<1>3. IsFiniteSet(written) /\ fetches \subseteq Fetches /\ refusals = {}
  BY FS_EmptySet DEF Init
<1>4. Typed
  <2>1. auth \in Anyone /\ user \in Anyone /\ running \in BOOLEAN
    BY DEF Init, Anyone
  <2>5. main \in Seq(Blocks) /\ worker \in Seq(Tasks) /\ log \in Seq([as : Anyone, batch : Batch])
    BY DEF Init
  <2>6. late \subseteq [token : Anyone, sent : Seq(Batch)] /\ written \subseteq Batch
    BY DEF Init
  <2>2. provider \in [user : Anyone, counter : Nat]
    BY DEF Init, Anyone
  <2>3. queues \in [Anyone -> Seq(Batch)]
    BY DEF Init
  <2>4. remote \in Remotes /\ ~remote.asks
    BY <1>1 DEF Init
  <2> QED
    BY <1>3, <2>1, <2>2, <2>3, <2>4, <2>5, <2>6 DEF Typed
<1>5. Books
  BY NoBatches DEF Init, Books, Owned
<1>6. Follows
  BY DEF Init, Follows
<1> QED
  BY <1>1, <1>2, <1>4, <1>5, <1>6 DEF IInv, Init

\* A process that has a request, a block or a task runs.
LEMMA Running ==
  ASSUME IInv, fetches # {} \/ main # <<>> \/ worker # <<>> \/ remote # Stopped
  PROVE  /\ running
         /\ TokensWait(fetches, main, worker, remote)
         /\ ProviderFollows(auth, fetches, main, provider)
         /\ WorkerFollows(provider.user, worker, user, remote)
  BY DEF IInv, Follows, Typed

\* The part of the invariant that is not about Auth and the two queues.
LEMMA RestKept ==
  ASSUME IInv, UNCHANGED <<user, queues, remote, late, log, refusals, written>>
  PROVE  Carries(remote, user, written)' /\ Books'
  BY DEF IInv, Books

LEMMA AuthChangesKeeps ==
  ASSUME IInv, NEW u \in Anyone, AuthChanges(u)
  PROVE  IInv'
<1>1. /\ running /\ auth' = u /\ main' = Append(main, Notify(u))
      /\ UNCHANGED <<fetches, provider, running, worker, user, queues, remote, late, log,
                     refusals, written>>
  BY DEF AuthChanges, client, backend
<1>2. Notify(u) \in Blocks /\ Notify(u).kind = "notify" /\ Notify(u).user = u
  BY DEF Notify, Blocks
<1>3. /\ TokensWait(fetches, main, worker, remote)
      /\ ProviderFollows(auth, fetches, main, provider)
      /\ WorkerFollows(provider.user, worker, user, remote)
      /\ main \in Seq(Blocks)
  BY <1>1 DEF IInv, Follows, Typed
<1>4. TokensWait(fetches, Append(main, Notify(u)), worker, remote)
  BY <1>2, <1>3, NotifyQueued
<1>5. ProviderFollows(u, fetches, Append(main, Notify(u)), provider)
  BY <1>2, <1>3, FollowsChange
<1>6. Append(main, Notify(u)) \in Seq(Blocks)
  BY <1>2, <1>3
<1>7. Typed'
  BY <1>1, <1>6 DEF IInv, Typed
<1>8. Follows'
  BY <1>1, <1>3, <1>4, <1>5 DEF Follows
<1> QED
  BY <1>1, <1>7, <1>8, RestKept DEF IInv

LEMMA ReadType ==
  ASSUME Typed, NEW f \in fetches
  PROVE  /\ Read(f) \in Fetches /\ Read(f).closes = f.closes
         /\ Read(f).counter = f.counter /\ Read(f).of = auth
         /\ f \in Fetches
<1>1. f \in Fetches /\ auth \in Anyone
  BY DEF Typed
<1> QED
  BY <1>1 DEF Read, Fetches

LEMMA AnswerType ==
  ASSUME NEW f \in Fetches, f.of \in Anyone
  PROVE  /\ Answer(f) \in Blocks /\ Answer(f).user = f.of /\ Answer(f).counter = f.counter
         /\ Tok(Answer(f), f.closes) /\ Answer(f).kind # "notify"
         /\ Failure(f) \in Blocks /\ Failure(f).user = f.of /\ Failure(f).counter = f.counter
         /\ Tok(Failure(f), f.closes) /\ Failure(f).kind # "notify"
<1>1. f.closes \in Nat /\ f.counter \in Nat
  BY DEF Fetches
<1> QED
  BY <1>1 DEF Answer, Failure, Blocks, Tok

\* An answer b to the request f, which leaves the set of requests.
LEMMA Answered ==
  ASSUME IInv, NEW f \in fetches, NEW b \in Blocks, Tok(b, f.closes),
         b.counter = f.counter,
         b.counter = provider.counter /\ ~Notifies(main) => b.user = provider.user,
         fetches' = fetches \ {f}, main' = Append(main, b),
         UNCHANGED <<auth, provider, running, worker, user, queues, remote, late, log,
                     refusals, written>>
  PROVE  IInv'
<1>1. /\ running
      /\ TokensWait(fetches, main, worker, remote)
      /\ ProviderFollows(auth, fetches, main, provider)
      /\ WorkerFollows(provider.user, worker, user, remote)
  BY Running
<1>2. main \in Seq(Blocks)
  BY DEF IInv, Typed
<1>3. TokensWait(fetches \ {f}, Append(main, b), worker, remote)
  BY <1>1, <1>2, TokenAnswered
<1>4. b.kind # "notify" /\ b.counter <= provider.counter
  BY <1>1 DEF Tok, ProviderFollows
<1>5. ProviderFollows(auth, fetches \ {f}, Append(main, b), provider)
  <2>1. fetches \ {f} \subseteq fetches
    OBVIOUS
  <2> QED
    BY <1>1, <1>2, <1>4, <2>1, FollowsAnswer
<1>6. Append(main, b) \in Seq(Blocks) /\ fetches \ {f} \subseteq Fetches
  BY <1>2 DEF IInv, Typed
<1>7. Typed'
  BY <1>6 DEF IInv, Typed
<1>8. Follows'
  BY <1>1, <1>3, <1>5 DEF Follows
<1> QED
  BY <1>7, <1>8, RestKept DEF IInv

LEMMA AuthReadsKeeps ==
  ASSUME IInv, NEW f \in fetches, AuthReads(f)
  PROVE  IInv'
<1>1. /\ Read(f) \in Fetches /\ Read(f).closes = f.closes
      /\ Read(f).counter = f.counter /\ Read(f).of = auth
  BY ReadType DEF IInv
<1>2. /\ running
      /\ TokensWait(fetches, main, worker, remote)
      /\ ProviderFollows(auth, fetches, main, provider)
      /\ WorkerFollows(provider.user, worker, user, remote)
  BY Running
<1>3. ~Notifies(main) => auth = provider.user
  BY <1>2 DEF ProviderFollows
<1>4. /\ auth \in Anyone
      /\ UNCHANGED <<auth, provider, running, worker, user, queues, remote, late, log,
                     refusals, written>>
  BY DEF AuthReads, client, backend, IInv, Typed
<1>5. CASE auth = None
  <2>1. fetches' = fetches \ {f} /\ main' = Append(main, Answer(Read(f)))
    BY <1>5 DEF AuthReads
  <2>2. /\ Answer(Read(f)) \in Blocks /\ Answer(Read(f)).user = auth
        /\ Answer(Read(f)).counter = f.counter /\ Tok(Answer(Read(f)), f.closes)
    BY <1>1, <1>4, AnswerType
  <2> QED
    BY <1>3, <1>4, <2>1, <2>2, Answered
<1>6. CASE auth # None
  <2> DEFINE gs == (fetches \ {f}) \cup {Read(f)}
  <2>1. fetches' = gs /\ main' = main
    BY <1>6 DEF AuthReads
  <2>2. TokensWait(gs, main, worker, remote)
    BY <1>1, <1>2, TokenRead
  <2>3. ProviderFollows(auth, gs, main, provider)
    <3>1. f.counter <= provider.counter
      BY <1>2 DEF ProviderFollows
    <3>2. \A g \in gs : \/ g \in fetches
                       \/ /\ g.counter <= provider.counter
                          /\ g.of # Unread /\ g.counter = provider.counter /\ ~Notifies(main) =>
                               g.of = provider.user
      BY <1>1, <1>3, <3>1
    <3> HIDE DEF gs
    <3> QED
      BY <1>2, <3>2, FollowsFetch
  <2>4. gs \subseteq Fetches
    BY <1>1 DEF IInv, Typed
  <2> HIDE DEF gs
  <2>5. Typed'
    BY <1>4, <2>1, <2>4 DEF IInv, Typed
  <2>6. Follows'
    BY <1>2, <1>4, <2>1, <2>2, <2>3 DEF Follows
  <2> QED
    BY <1>4, <2>5, <2>6, RestKept DEF IInv
<1> QED
  BY <1>5, <1>6

LEMMA AuthAnswersKeeps ==
  ASSUME IInv, NEW f \in fetches, AuthAnswers(f) \/ AuthFails(f)
  PROVE  IInv'
<1>1. f \in Fetches /\ f.of # Unread
  BY DEF AuthAnswers, AuthFails, IInv, Typed
<1>2. f.of \in Anyone
  BY <1>1 DEF Fetches
<1>3. /\ Answer(f) \in Blocks /\ Answer(f).user = f.of /\ Answer(f).counter = f.counter
      /\ Tok(Answer(f), f.closes)
      /\ Failure(f) \in Blocks /\ Failure(f).user = f.of /\ Failure(f).counter = f.counter
      /\ Tok(Failure(f), f.closes)
  BY <1>1, <1>2, AnswerType
<1>4. f.counter = provider.counter /\ ~Notifies(main) => f.of = provider.user
  BY <1>1, Running DEF ProviderFollows
<1>5. /\ fetches' = fetches \ {f}
      /\ UNCHANGED <<auth, provider, running, worker, user, queues, remote, late, log,
                     refusals, written>>
  BY DEF AuthAnswers, AuthFails, client, backend
<1>6. CASE AuthAnswers(f)
  <2>1. main' = Append(main, Answer(f))
    BY <1>6 DEF AuthAnswers
  <2> QED
    BY <1>3, <1>4, <1>5, <2>1, Answered
<1>7. CASE AuthFails(f)
  <2>1. main' = Append(main, Failure(f))
    BY <1>7 DEF AuthFails
  <2> QED
    BY <1>3, <1>4, <1>5, <2>1, Answered
<1> QED
  BY <1>6, <1>7

LEMMA DeliverNotifyKeeps ==
  ASSUME IInv, DeliverNotify
  PROVE  IInv'
<1> DEFINE h == Head(main)
           t == Change(h.user)
<1>1. /\ main # <<>> /\ h.kind = "notify"
      /\ provider' = [user |-> h.user, counter |-> provider.counter + 1]
      /\ worker' = Append(worker, t) /\ main' = Tail(main)
      /\ UNCHANGED <<auth, fetches, running, user, queues, remote, late, log, refusals, written>>
  BY DEF DeliverNotify, backend
<1>2. /\ running
      /\ TokensWait(fetches, main, worker, remote)
      /\ ProviderFollows(auth, fetches, main, provider)
      /\ WorkerFollows(provider.user, worker, user, remote)
  BY <1>1, Running
<1>3. /\ main \in Seq(Blocks) /\ worker \in Seq(Tasks) /\ fetches \in SUBSET Fetches
      /\ provider \in [user : Anyone, counter : Nat]
  BY DEF IInv, Typed
<1>4. h.user \in Anyone
  <2>1. h \in Blocks
    BY <1>1, <1>3
  <2> QED
    BY <2>1 DEF Blocks
<1>5. t \in Tasks /\ t.kind = "change" /\ t.user = h.user
  BY <1>4 DEF Change, Tasks
<1>6. provider' \in [user : Anyone, counter : Nat] /\ provider'.user = h.user
      /\ provider'.counter = provider.counter + 1
  BY <1>1, <1>3, <1>4
<1> HIDE DEF t
<1>7. TokensWait(fetches, Tail(main), Append(worker, t), remote)
  <2>1. TokensWait(fetches, Tail(main), worker, remote)
    BY <1>1, <1>2, <1>3, NotifyTaken
  <2> QED
    BY <1>3, <1>5, <2>1, TaskQueued
<1>8. ProviderFollows(auth, fetches, Tail(main), provider')
  BY <1>1, <1>2, <1>3, <1>6, FollowsNotified
<1>9. WorkerFollows(h.user, Append(worker, t), user, remote)
  BY <1>2, <1>3, <1>5, WorkerChanging
<1>10. Tail(main) \in Seq(Blocks) /\ Append(worker, t) \in Seq(Tasks)
  BY <1>1, <1>3, <1>5
<1>11. Typed'
  BY <1>1, <1>6, <1>10 DEF IInv, Typed
<1>12. Follows'
  BY <1>1, <1>2, <1>6, <1>7, <1>8, <1>9 DEF Follows
<1> QED
  BY <1>1, <1>11, <1>12, RestKept DEF IInv

LEMMA DeliverTokenKeeps ==
  ASSUME IInv, DeliverToken
  PROVE  IInv'
<1> DEFINE h == Head(main)
           t == Resume(h)
           f == Fetch(h.closes, provider.counter)
<1>1. /\ main # <<>> /\ h.kind \in {"token", "error"} /\ main' = Tail(main)
      /\ IF Outdated(h) THEN fetches' = Again(h) /\ worker' = worker
                        ELSE worker' = Append(worker, t) /\ fetches' = fetches
      /\ UNCHANGED <<auth, provider, running, user, queues, remote, late, log, refusals, written>>
  BY DEF DeliverToken, backend
<1>2. /\ running
      /\ TokensWait(fetches, main, worker, remote)
      /\ ProviderFollows(auth, fetches, main, provider)
      /\ WorkerFollows(provider.user, worker, user, remote)
  BY <1>1, Running
<1>3. /\ main \in Seq(Blocks) /\ worker \in Seq(Tasks) /\ fetches \in SUBSET Fetches
      /\ provider.counter \in Nat
  BY DEF IInv, Typed
<1>4. /\ h.user \in Anyone /\ h.closes \in Nat
  <2>1. h \in Blocks
    BY <1>1, <1>3
  <2> QED
    BY <2>1 DEF Blocks
<1>5. /\ ProviderFollows(auth, fetches, Tail(main), provider)
      /\ h.counter = provider.counter => h.user = provider.user
  BY <1>1, <1>2, <1>3, FollowsPassed
<1>6. Tail(main) \in Seq(Blocks)
  BY <1>1, <1>3
<1>7. CASE Outdated(h)
  <2>1. fetches' = fetches \cup {f} /\ worker' = worker
    BY <1>1, <1>7 DEF Again
  <2>2. /\ f \in Fetches /\ f.closes = h.closes /\ f.counter = provider.counter
        /\ f.of = Unread
    BY <1>3, <1>4 DEF Fetch, Fetches
  <2> HIDE DEF f, h
  <2>3. TokensWait(fetches \cup {f}, Tail(main), worker, remote)
    BY <1>1, <1>2, <1>3, <2>2, TokenAgain DEF h
  <2>4. ProviderFollows(auth, fetches \cup {f}, Tail(main), provider)
    <3>1. f.counter <= provider.counter
      BY <1>3, <2>2
    <3> QED
      BY <1>5, <2>2, <3>1, FollowsFetch
  <2>5. Typed'
    BY <1>1, <1>6, <2>1, <2>2 DEF IInv, Typed
  <2>6. Follows'
    BY <1>1, <1>2, <2>1, <2>3, <2>4 DEF Follows
  <2> QED
    BY <1>1, <2>5, <2>6, RestKept DEF IInv
<1>8. CASE ~Outdated(h)
  <2>1. worker' = Append(worker, t) /\ fetches' = fetches
    BY <1>1, <1>8
  <2>2. h.user = provider.user
    BY <1>5, <1>8 DEF Outdated
  <2>3. /\ t \in Tasks /\ t.kind # "change" /\ t.user = h.user /\ Tok(t, h.closes)
    BY <1>1, <1>4 DEF Resume, Tasks, Tok
  <2> HIDE DEF t, h
  <2>4. TokensWait(fetches, Tail(main), Append(worker, t), remote)
    BY <1>1, <1>2, <1>3, <2>3, TokenPassed DEF h
  <2>5. WorkerFollows(provider.user, Append(worker, t), user, remote)
    BY <1>2, <1>3, <2>2, <2>3, WorkerQueued
  <2>6. Append(worker, t) \in Seq(Tasks)
    BY <1>3, <2>3
  <2>7. Typed'
    BY <1>1, <1>6, <2>1, <2>6 DEF IInv, Typed
  <2>8. Follows'
    BY <1>1, <1>2, <1>5, <2>1, <2>4, <2>5 DEF Follows
  <2> QED
    BY <1>1, <2>7, <2>8, RestKept DEF IInv
<1> QED
  BY <1>7, <1>8

LEMMA AppWritesKeeps ==
  ASSUME IInv, AppWrites
  PROVE  IInv'
<1>1. /\ running /\ worker' = Append(worker, WriteTask)
      /\ UNCHANGED <<auth, fetches, main, provider, running, user, queues, remote, late, log,
                     refusals, written>>
  BY DEF AppWrites, backend
<1>2. WriteTask \in Tasks /\ WriteTask.kind = "write"
  BY DEF WriteTask, Tasks, Anyone
<1>3. /\ TokensWait(fetches, main, worker, remote)
      /\ ProviderFollows(auth, fetches, main, provider)
      /\ WorkerFollows(provider.user, worker, user, remote)
      /\ worker \in Seq(Tasks)
  BY <1>1 DEF IInv, Follows, Typed
<1>4. TokensWait(fetches, main, Append(worker, WriteTask), remote)
  BY <1>2, <1>3, TaskQueued
<1>5. WorkerFollows(provider.user, Append(worker, WriteTask), user, remote)
  BY <1>2, <1>3, WorkerQueued DEF Tok
<1>6. Append(worker, WriteTask) \in Seq(Tasks)
  BY <1>2, <1>3
<1>7. Typed'
  BY <1>1, <1>6 DEF IInv, Typed
<1>8. Follows'
  BY <1>1, <1>3, <1>4, <1>5 DEF Follows
<1> QED
  BY <1>1, <1>7, <1>8, RestKept DEF IInv

-----------------------------------------------------------------------------
(* The steps of the worker and of the stream.                              *)

\* The remote store becomes s, on behalf of u, and the worker is left with w.
LEMMA StreamSteps ==
  ASSUME IInv, running,
         NEW s \in Remotes, NEW w \in Seq(Tasks), NEW u \in Anyone,
         TokensWait(Asked(fetches, s, provider.counter), main, w, [s EXCEPT !.asks = FALSE]),
         WorkerFollows(provider.user, w, u, s), Carries(s, u, written'),
         Becomes(s), worker' = w, user' = u, UNCHANGED <<auth, main, provider, running>>
  PROVE  Carries(remote', user', written') /\ Follows' /\ remote' \in Remotes /\ ~remote'.asks
         /\ fetches' \subseteq Fetches
<1> DEFINE x == [s EXCEPT !.asks = FALSE]
           fs == Asked(fetches, s, provider.counter)
<1>1. remote' = x /\ fetches' = fs
  BY DEF Becomes, Asked
<1>2. /\ x \in Remotes /\ ~x.asks /\ x.state = s.state /\ x.closes = s.closes
      /\ x.handshake = s.handshake /\ x.call = s.call /\ x.pipeline = s.pipeline
  BY DEF Remotes
<1>3. s.closes \in Nat /\ provider.counter \in Nat
  BY DEF Remotes, IInv, Typed
<1>4. fs \subseteq Fetches
  <2>1. Fetch(s.closes, provider.counter) \in Fetches
    BY <1>3 DEF Fetch, Fetches
  <2> QED
    BY <2>1 DEF Asked, IInv, Typed
<1>5. ProviderFollows(auth, fs, main, provider)
  <2>1. /\ Fetch(s.closes, provider.counter).counter = provider.counter
        /\ Fetch(s.closes, provider.counter).of = Unread
    BY DEF Fetch
  <2>2. ProviderFollows(auth, fetches, main, provider)
    BY DEF IInv, Follows
  <2>3. \A f \in fs : f \in fetches \/ (f.counter <= provider.counter /\ f.of = Unread)
    BY <1>3, <2>1 DEF Asked
  <2> HIDE DEF fs
  <2> QED
    BY <2>2, <2>3, FollowsFetch
<1> HIDE DEF x, fs
<1>6. TokensWait(fs, main, w, x)
  BY DEF x, fs
<1>7. Carries(x, u, written')
  BY <1>2 DEF Carries, Unanswered
<1>8. WorkerFollows(provider.user, w, u, x)
  BY <1>2 DEF WorkerFollows
<1>9. Follows'
  BY <1>1, <1>5, <1>6, <1>8 DEF Follows
<1> QED
  BY <1>1, <1>2, <1>4, <1>7, <1>9

\* The common case: nothing happens to the worker's queue, nor to its user.
LEMMA StreamMoves ==
  ASSUME IInv, remote # Stopped \/ running, NEW s \in Remotes, Progresses(remote, s),
         Carries(s, user, written'), Becomes(s),
         UNCHANGED <<auth, main, provider, running, worker, user>>
  PROVE  Carries(remote', user', written') /\ Follows' /\ remote' \in Remotes /\ ~remote'.asks
         /\ fetches' \subseteq Fetches
<1>1. /\ running
      /\ TokensWait(fetches, main, worker, remote)
      /\ WorkerFollows(provider.user, worker, user, remote)
  BY Running DEF IInv, Follows
<1>2. /\ main \in Seq(Blocks) /\ worker \in Seq(Tasks) /\ fetches \in SUBSET Fetches
      /\ remote \in Remotes /\ provider.counter \in Nat /\ user \in Anyone
  BY DEF IInv, Typed
<1>3. TokensWait(Asked(fetches, s, provider.counter), main, worker, [s EXCEPT !.asks = FALSE])
  BY <1>1, <1>2, TokensAsked
<1>4. WorkerFollows(provider.user, worker, user, s)
  BY <1>1, <1>2, WorkerStep DEF TokensWait, Progresses
<1> QED
  BY <1>1, <1>2, <1>3, <1>4, StreamSteps

\* What a closed call had sent is of the user it was opened for.
LEMMA LateIsOwned ==
  ASSUME IInv, Leaves(remote)
  PROVE  /\ late' \subseteq [token : Anyone, sent : Seq(Batch)]
         /\ \A o \in late' : o.sent # <<>> /\ Owned(Batches(o.sent), o.token, written)
<1> DEFINE o == [token |-> remote.call.token, sent |-> remote.call.sent]
<1>1. /\ late \subseteq [token : Anyone, sent : Seq(Batch)]
      /\ \A x \in late : x.sent # <<>> /\ Owned(Batches(x.sent), x.token, written)
  BY DEF IInv, Typed, Books
<1>2. CASE remote.call.sent = <<>> \/ remote.call.ended \/ ~remote.handshake
  BY <1>1, <1>2 DEF Leaves
<1>3. CASE ~(remote.call.sent = <<>> \/ remote.call.ended \/ ~remote.handshake)
  <2>1. late' = late \cup {o}
    BY <1>3 DEF Leaves
  <2>2. remote.call.token = user /\ Owned(Batches(remote.call.sent), user, written)
    BY <1>3 DEF IInv, Carries
  <2>3. o \in [token : Anyone, sent : Seq(Batch)]
    <3>1. remote.call \in Calls
      BY DEF IInv, Typed, Remotes
    <3> QED
      BY <3>1 DEF Calls
  <2>4. o.sent # <<>> /\ Owned(Batches(o.sent), o.token, written)
    BY <1>3, <2>2
  <2> QED
    BY <1>1, <2>1, <2>3, <2>4
<1> QED
  BY <1>2, <1>3

\* What every step of the stream starts from.
LEMMA StreamFacts ==
  ASSUME IInv
  PROVE  /\ remote \in Remotes /\ ~remote.asks /\ Carries(remote, user, written)
         /\ user \in Anyone
         /\ \A u \in Anyone : queues[u] \in Seq(Batch) /\ Owned(Batches(queues[u]), u, written)
  BY DEF IInv, Typed, Books

LEMMA RunWriteKeeps ==
  ASSUME IInv, RunWrite
  PROVE  IInv'
<1> DEFINE b == [user |-> user, id |-> Cardinality(written) + 1]
           q == Append(queues[user], b)
           s == Fill(remote, q)
<1>1. /\ worker # <<>> /\ Head(worker).kind = "write" /\ worker' = Tail(worker)
      /\ written' = written \cup {b} /\ queues' = [queues EXCEPT ![user] = q]
      /\ Becomes(s)
      /\ UNCHANGED <<auth, main, provider, running, user, late, log, refusals>>
  BY DEF RunWrite, Task, backend
<1>2. /\ running
      /\ TokensWait(fetches, main, worker, remote)
      /\ WorkerFollows(provider.user, worker, user, remote)
  BY <1>1, Running
<1>3. /\ main \in Seq(Blocks) /\ worker \in Seq(Tasks) /\ fetches \in SUBSET Fetches
      /\ provider.counter \in Nat /\ queues \in [Anyone -> Seq(Batch)]
      /\ written \subseteq Batch /\ IsFiniteSet(written)
  BY DEF IInv, Typed
<1>4. b \in Batch
  <2>1. Cardinality(written) \in Nat
    BY <1>3, FS_CardinalityType
  <2> QED
    BY <2>1, StreamFacts DEF Batch
<1>5. q \in Seq(Batch) /\ Batches(q) = Batches(queues[user]) \cup {b}
  BY <1>4, StreamFacts, BatchesOfAppend
<1>6. b.user = user /\ b \in written'
  BY <1>1
<1> HIDE DEF b, q
<1>7. Owned(Batches(q), user, written') /\ Carries(remote, user, written')
  BY <1>1, <1>5, <1>6, StreamFacts DEF Owned, Carries
<1>8. s \in Remotes /\ Carries(s, user, written') /\ Progresses(remote, s) /\ s.closes = remote.closes
  BY <1>5, <1>7, StreamFacts, FillCarries
<1> HIDE DEF s
<1>9. Tail(worker) \in Seq(Tasks) /\ ~Tok(Head(worker), remote.closes)
  BY <1>1, <1>3 DEF Tok
<1>10. TokensWait(Asked(fetches, s, provider.counter), main, Tail(worker), [s EXCEPT !.asks = FALSE])
  <2>1. TokensWait(fetches, main, Tail(worker), remote)
    BY <1>1, <1>2, <1>3, <1>9, TaskTaken
  <2> QED
    BY <1>3, <1>8, <1>9, <2>1, StreamFacts, TokensAsked
<1>11. WorkerFollows(provider.user, Tail(worker), user, s)
  <2>1. WorkerFollows(provider.user, Tail(worker), user, remote)
    BY <1>1, <1>2, <1>3, WorkerTail
  <2> QED
    BY <1>8, <2>1 DEF WorkerFollows
<1>12. Carries(remote', user', written') /\ Follows' /\ remote' \in Remotes /\ ~remote'.asks
       /\ fetches' \subseteq Fetches
  BY <1>1, <1>2, <1>8, <1>9, <1>10, <1>11, StreamFacts, StreamSteps
<1>13. queues' \in [Anyone -> Seq(Batch)] /\ written' \subseteq Batch /\ IsFiniteSet(written')
  <2>1. IsFiniteSet(written')
    BY <1>1, <1>3, FS_AddElement
  <2> QED
    BY <1>1, <1>3, <1>4, <1>5, <2>1
<1>14. Typed'
  BY <1>1, <1>9, <1>12, <1>13 DEF IInv, Typed
<1>15. Books'
  <2>1. \A u \in Anyone : Owned(Batches(queues'[u]), u, written')
    BY <1>1, <1>3, <1>7, StreamFacts DEF Owned
  <2> QED
    BY <1>1, <2>1 DEF IInv, Books, Owned
<1> QED
  BY <1>12, <1>14, <1>15 DEF IInv

LEMMA RunChangeKeeps ==
  ASSUME IInv, RunChange
  PROVE  IInv'
<1> DEFINE v == Head(worker).user
           s == Restart(remote, queues[v])
<1>1. /\ worker # <<>> /\ Head(worker).kind = "change" /\ worker' = Tail(worker)
      /\ user' = v /\ Leaves(remote) /\ Becomes(s)
      /\ UNCHANGED <<auth, main, provider, running, queues, log, refusals, written>>
  BY DEF RunChange, Task, backend
<1>2. /\ running
      /\ TokensWait(fetches, main, worker, remote)
      /\ WorkerFollows(provider.user, worker, user, remote)
  BY <1>1, Running
<1>3. /\ main \in Seq(Blocks) /\ worker \in Seq(Tasks) /\ fetches \in SUBSET Fetches
      /\ provider.counter \in Nat
  BY DEF IInv, Typed
<1>4. v \in Anyone
  <2>1. Head(worker) \in Tasks
    BY <1>1, <1>3
  <2> QED
    BY <2>1 DEF Tasks
<1>5. /\ s \in Remotes /\ Carries(s, v, written) /\ Progresses(remote, s)
      /\ IF IsStarted(remote) THEN s.closes = remote.closes + 1 ELSE s.closes = remote.closes
  BY <1>4, StreamFacts, RestartCarries
<1> HIDE DEF s
<1>6. Tail(worker) \in Seq(Tasks) /\ ~Tok(Head(worker), remote.closes)
  BY <1>1, <1>3 DEF Tok
<1>7. TokensWait(fetches, main, Tail(worker), remote)
  BY <1>1, <1>2, <1>3, <1>6, TaskTaken
<1>8. TokensWait(Asked(fetches, s, provider.counter), main, Tail(worker), [s EXCEPT !.asks = FALSE])
  BY <1>3, <1>5, <1>6, <1>7, StreamFacts, TokensAsked
<1>9. ~OnQueue(Tail(worker), s.closes)
  <2>1. CASE IsStarted(remote)
    <3>1. s.closes > remote.closes /\ s.closes \in Nat /\ remote.closes \in Nat
      BY <1>5, <2>1, StreamFacts DEF Remotes
    <3> QED
      BY <1>3, <1>6, <1>7, <3>1, PastHasNone DEF TokensWait, AnyFor
  <2>2. CASE ~IsStarted(remote)
    BY <1>5, <1>7, <2>2 DEF TokensWait, AnyFor, IsStarted
  <2> QED
    BY <2>1, <2>2
<1>10. WorkerFollows(provider.user, Tail(worker), v, s)
  <2>1. /\ ~Changes(Tail(worker)) => v = provider.user
        /\ \A k \in DOMAIN Tail(worker) :
             Tail(worker)[k].kind = "change"
               /\ (\A j \in DOMAIN Tail(worker) : j > k => Tail(worker)[j].kind # "change") =>
             Tail(worker)[k].user = provider.user
    BY <1>1, <1>2, <1>3, WorkerTail
  <2>2. \A k \in DOMAIN Tail(worker) : ~(Tail(worker)[k].kind \in {"token", "error"}
                                         /\ Tail(worker)[k].closes = s.closes)
    BY <1>9 DEF OnQueue, Tok
  <2> QED
    BY <2>1, <2>2 DEF WorkerFollows
<1>11. Carries(remote', user', written') /\ Follows' /\ remote' \in Remotes /\ ~remote'.asks
       /\ fetches' \subseteq Fetches
  BY <1>1, <1>2, <1>4, <1>5, <1>6, <1>8, <1>10, StreamSteps
<1>12. /\ late' \subseteq [token : Anyone, sent : Seq(Batch)]
       /\ \A o \in late' : o.sent # <<>> /\ Owned(Batches(o.sent), o.token, written)
  BY <1>1, LateIsOwned
<1>13. Typed'
  BY <1>1, <1>4, <1>6, <1>11, <1>12 DEF IInv, Typed
<1>14. Books'
  BY <1>1, <1>12 DEF IInv, Books
<1> QED
  BY <1>11, <1>13, <1>14 DEF IInv

LEMMA OpenedCarries ==
  ASSUME NEW r \in Remotes, ~r.asks, r.state = "starting", NEW u \in Anyone, NEW W,
         Carries(r, u, W)
  PROVE  LET s == Opened(r, u) IN
         /\ s \in Remotes /\ Carries(s, u, W) /\ s.state = "open" /\ s.closes = r.closes
         /\ ~s.asks
<1> DEFINE c == [NoCall EXCEPT !.token = u, !.sent = <<Handshake>>]
           s == Opened(r, u)
<1>1. s = [r EXCEPT !.state = "open", !.call = c]
  BY DEF Opened
<1>2. /\ Handshake \in Batch
      /\ <<Handshake>> \in Seq(Batch) /\ Batches(<<Handshake>>) = {Handshake}
  <2>1. Handshake \in Batch
    BY DEF Handshake, Batch, Anyone
  <2>2. Batches(<<Handshake>>) = {Handshake}
    BY DEF Batches
  <2> QED
    BY <2>1, <2>2
<1>3. /\ c \in Calls /\ c.token = u /\ c.sent = <<Handshake>> /\ c.replies = <<>> /\ ~c.ended
  <2>1. NoCall.replies = <<>> /\ ~NoCall.ended
    BY DEF NoCall
  <2> QED
    BY <1>2, <2>1, NoCallType DEF NoCall, Calls
<1> HIDE DEF c, s
<1>4. /\ s \in Remotes /\ s.state = "open" /\ s.closes = r.closes /\ ~s.asks
      /\ s.handshake = r.handshake /\ s.pipeline = r.pipeline /\ s.call = c
  BY <1>1, <1>3 DEF Remotes
<1>5. ~r.handshake
  BY DEF Carries
<1>6. Len(s.call.sent) + Len(s.call.replies) = 1 /\ Batches(s.call.sent) = {Handshake}
  <2>1. s.call.sent = <<Handshake>> /\ s.call.replies = <<>>
    BY <1>3, <1>4
  <2>2. Len(<<Handshake>>) + Len(<<>>) = 1
    OBVIOUS
  <2>3. Batches(s.call.sent) = {Handshake}
    BY <1>2, <2>1
  <2> QED
    BY <2>1, <2>2, <2>3
<1>7. Carries(s, u, W)
  BY <1>3, <1>4, <1>5, <1>6 DEF Carries
<1> QED
  BY <1>4, <1>7 DEF s

LEMMA RunResumeKeeps ==
  ASSUME IInv, RunResume
  PROVE  IInv'
<1> DEFINE t == Head(worker)
           s == IF Stale(t) THEN remote
                ELSE IF t.kind = "token" THEN Opened(remote, t.user) ELSE Broken(remote)
<1>1. /\ worker # <<>> /\ t.kind \in {"token", "error"} /\ worker' = Tail(worker)
      /\ Becomes(s)
      /\ UNCHANGED <<auth, main, provider, running, user, queues, late, log, refusals, written>>
  BY DEF RunResume, Task, backend
<1>2. /\ running
      /\ TokensWait(fetches, main, worker, remote)
      /\ WorkerFollows(provider.user, worker, user, remote)
  BY <1>1, Running
<1>3. /\ main \in Seq(Blocks) /\ worker \in Seq(Tasks) /\ fetches \in SUBSET Fetches
      /\ provider.counter \in Nat /\ remote.closes \in Nat
      /\ Tail(worker) \in Seq(Tasks)
  BY <1>1 DEF IInv, Typed, Remotes
<1>4. /\ WorkerFollows(provider.user, Tail(worker), user, remote)
      /\ Tok(t, remote.closes) => t.user = user
  BY <1>1, <1>2, <1>3, WorkerTail
<1>5. /\ s \in Remotes /\ Carries(s, user, written) /\ s.closes >= remote.closes
      /\ TokensWait(Asked(fetches, s, provider.counter), main, Tail(worker), [s EXCEPT !.asks = FALSE])
  <2>1. CASE Stale(t)
    <3>1. s = remote
      BY <2>1
    <3>2. ~Tok(t, remote.closes)
      BY <2>1 DEF Stale, Tok
    <3>3. TokensWait(fetches, main, Tail(worker), remote)
      BY <1>1, <1>2, <1>3, <3>2, TaskTaken
    <3>4. Progresses(remote, remote)
      BY <1>3, StreamFacts DEF Progresses
    <3> HIDE DEF s, t
    <3>5. remote \in Remotes /\ Carries(remote, user, written)
      BY StreamFacts
    <3>6. TokensWait(Asked(fetches, remote, provider.counter), main, Tail(worker),
                     [remote EXCEPT !.asks = FALSE])
      BY <1>3, <3>3, <3>4, <3>5, TokensAsked
    <3>7. remote.closes >= remote.closes
      BY <1>3
    <3> QED
      BY <3>1, <3>5, <3>6, <3>7
  <2>2. CASE ~Stale(t)
    <3>1. Tok(t, remote.closes)
      BY <1>1, <2>2 DEF Stale, Tok
    <3>2. /\ Past(fetches, main, Tail(worker), remote.closes)
          /\ AtMostOne(fetches, main, Tail(worker), remote.closes)
          /\ ~AnyFor(fetches, main, Tail(worker), remote.closes)
      BY <1>1, <1>2, <1>3, <3>1, TokenUsed
    <3>3. remote.state = "starting"
      <4>1. OnQueue(worker, remote.closes)
        BY <1>1, <1>3, <3>1, OnQueueTail
      <4> QED
        BY <1>2, <4>1 DEF TokensWait, AnyFor
    <3>4. CASE t.kind = "token"
      <4>1. s = Opened(remote, user)
        BY <1>4, <2>2, <3>1, <3>4
      <4> HIDE DEF s, t
      <4>2. s \in Remotes /\ Carries(s, user, written) /\ s.state = "open"
            /\ s.closes = remote.closes /\ ~s.asks
        BY <3>3, <4>1, StreamFacts, OpenedCarries
      <4>3. Asked(fetches, s, provider.counter) = fetches
            /\ [s EXCEPT !.asks = FALSE].state = "open"
            /\ [s EXCEPT !.asks = FALSE].closes = remote.closes
        BY <4>2 DEF Asked, Remotes
      <4> QED
        BY <1>3, <3>2, <4>2, <4>3 DEF TokensWait
    <3>5. CASE t.kind # "token"
      <4>1. s = Broken(remote)
        BY <2>2, <3>5
      <4> HIDE DEF s, t
      <4>2. s \in Remotes /\ Carries(s, user, written) /\ s.closes > remote.closes
            /\ ~s.asks /\ s.state # "starting"
        BY <4>1, StreamFacts, BrokenCarries
      <4>3. /\ Past(fetches, main, Tail(worker), s.closes)
            /\ AtMostOne(fetches, main, Tail(worker), s.closes)
            /\ ~AnyFor(fetches, main, Tail(worker), s.closes)
        <5>1. s.closes \in Nat
          BY <4>2 DEF Remotes
        <5> QED
          BY <1>3, <3>2, <4>2, <5>1, PastHasNone
      <4>4. Asked(fetches, s, provider.counter) = fetches
            /\ [s EXCEPT !.asks = FALSE].state = s.state
            /\ [s EXCEPT !.asks = FALSE].closes = s.closes
        BY <4>2 DEF Asked, Remotes
      <4>5. s.closes >= remote.closes
        BY <1>3, <4>2 DEF Remotes
      <4> QED
        BY <4>2, <4>3, <4>4, <4>5 DEF TokensWait
    <3> QED
      BY <3>4, <3>5
  <2> QED
    BY <2>1, <2>2
<1> HIDE DEF s
<1>6. WorkerFollows(provider.user, Tail(worker), user, s)
  <2>1. Past(fetches, main, Tail(worker), remote.closes)
    BY <1>1, <1>2, <1>3, BatchesOfTail DEF TokensWait, Past
  <2> QED
    BY <1>3, <1>4, <1>5, <2>1, StreamFacts, WorkerStep
<1>7. Carries(remote', user', written') /\ Follows' /\ remote' \in Remotes /\ ~remote'.asks
      /\ fetches' \subseteq Fetches
  BY <1>1, <1>2, <1>3, <1>5, <1>6, StreamFacts, StreamSteps
<1>8. Typed'
  BY <1>1, <1>3, <1>7 DEF IInv, Typed
<1>9. Books'
  BY <1>1 DEF IInv, Books
<1> QED
  BY <1>7, <1>8, <1>9 DEF IInv

\* The remaining steps of the stream leave the two queues alone; those of them that
\* close a call may leave something late.
LEMMA StreamKeeps ==
  ASSUME IInv, remote # Stopped \/ running, NEW s \in Remotes, Progresses(remote, s),
         Carries(s, user, written), Becomes(s), Leaves(remote) \/ late' = late,
         queues' \in [Anyone -> Seq(Batch)],
         \A u \in Anyone : Batches(queues'[u]) \subseteq Batches(queues[u]),
         UNCHANGED <<auth, main, provider, running, worker, user, log, refusals, written>>
  PROVE  IInv'
<1>1. Carries(remote', user', written') /\ Follows' /\ remote' \in Remotes /\ ~remote'.asks
      /\ fetches' \subseteq Fetches
  BY StreamMoves
<1>2. /\ late' \subseteq [token : Anyone, sent : Seq(Batch)]
      /\ \A o \in late' : o.sent # <<>> /\ Owned(Batches(o.sent), o.token, written)
  BY LateIsOwned DEF IInv, Typed, Books
<1>3. Typed'
  BY <1>1, <1>2 DEF IInv, Typed
<1>4. Books'
  <2>1. \A u \in Anyone : Owned(Batches(queues'[u]), u, written)
    BY StreamFacts DEF Owned
  <2> QED
    BY <1>2, <2>1 DEF IInv, Books
<1> QED
  BY <1>1, <1>3, <1>4 DEF IInv

LEMMA BackoffElapsesKeeps ==
  ASSUME IInv, BackoffElapses
  PROVE  IInv'
<1> DEFINE r == [remote EXCEPT !.state = "initial"]
           s == Start(r)
<1>1. /\ remote.state = "backoff" /\ Becomes(s)
      /\ UNCHANGED <<auth, main, provider, running, worker, user, queues, late, log, refusals,
                     written>>
  BY DEF BackoffElapses, backend
<1>2. remote \in Remotes /\ Carries(remote, user, written) /\ ~remote.asks
  BY StreamFacts
<1>3. s = [remote EXCEPT !.state = "starting", !.asks = TRUE]
  BY <1>2 DEF Start, Remotes
<1> HIDE DEF s
<1>4. /\ s \in Remotes /\ s.state = "starting" /\ s.asks /\ s.closes = remote.closes
      /\ s.handshake = remote.handshake /\ s.call = remote.call /\ s.pipeline = remote.pipeline
  BY <1>2, <1>3 DEF Remotes
<1>5. Carries(s, user, written)
  BY <1>1, <1>2, <1>4 DEF Carries
<1>6. Progresses(remote, s)
  BY <1>1, <1>2, <1>4 DEF Progresses, Remotes
<1>7. remote # Stopped
  BY <1>1 DEF Stopped
<1>8. queues' \in [Anyone -> Seq(Batch)]
  BY <1>1 DEF IInv, Typed
<1> QED
  BY <1>1, <1>4, <1>5, <1>6, <1>7, <1>8, StreamKeeps

LEMMA IdleElapsesKeeps ==
  ASSUME IInv, IdleElapses
  PROVE  IInv'
<1> DEFINE s == Gracefully(remote)
<1>1. /\ remote.idle /\ Becomes(s) /\ Leaves(remote)
      /\ UNCHANGED <<auth, main, provider, running, worker, user, queues, log, refusals, written>>
  BY DEF IdleElapses, backend
<1>2. /\ s \in Remotes /\ Carries(s, user, written) /\ ~s.asks /\ ~IsStarted(s)
      /\ IF IsStarted(remote) THEN s.closes = remote.closes + 1 ELSE s.closes = remote.closes
  BY StreamFacts, GracefullyCarries
<1> HIDE DEF s
<1>3. Progresses(remote, s)
  BY <1>2, StreamFacts DEF Progresses, Remotes, IsStarted
<1>4. remote # Stopped
  BY <1>1 DEF Stopped
<1>5. queues' \in [Anyone -> Seq(Batch)]
  BY <1>1 DEF IInv, Typed
<1> QED
  BY <1>1, <1>2, <1>3, <1>4, <1>5, StreamKeeps

\* An answer or an end is that of an open call.
LEMMA Talking ==
  ASSUME IInv, remote.call.replies # <<>> \/ remote.call.sent # <<>> \/ remote.call.ended
  PROVE  remote.state = "open" /\ remote # Stopped
<1>1. NoCall.replies = <<>> /\ NoCall.sent = <<>> /\ ~NoCall.ended
  BY DEF NoCall
<1>2. remote.state = "open"
  BY <1>1 DEF IInv, Carries
<1> QED
  BY <1>2 DEF Stopped

LEMMA OnHandshakeCompleteKeeps ==
  ASSUME IInv, OnHandshakeComplete
  PROVE  IInv'
<1> DEFINE c == [remote.call EXCEPT !.replies = Tail(remote.call.replies)]
           r == [remote EXCEPT !.handshake = TRUE, !.call = c]
           s == Send(r, remote.pipeline)
<1>1. /\ remote.call.replies # <<>> /\ ~remote.handshake
      /\ UNCHANGED <<auth, main, provider, running, worker, user, queues, late, log, refusals,
                     written>>
  BY DEF OnHandshakeComplete, backend
<1>2. remote \in Remotes /\ Carries(remote, user, written) /\ ~remote.asks
  BY StreamFacts
<1>3. /\ remote.call \in Calls /\ remote.call.replies \in Seq(Batch)
      /\ remote.call.sent \in Seq(Batch) /\ remote.pipeline \in Seq(Batch)
  BY <1>2 DEF Remotes, Calls, Pipelines
<1>4. Becomes(s)
  BY <1>2, <1>3 DEF OnHandshakeComplete, Remotes, Calls
<1>5. remote.state = "open" /\ remote # Stopped
  BY <1>1, Talking
<1>6. /\ Len(remote.call.sent) + Len(remote.call.replies) = 1 /\ ~remote.call.ended
      /\ remote.call.token = user /\ Owned(Batches(remote.pipeline), user, written)
  BY <1>1, <1>2, <1>5 DEF Carries
<1>7. /\ Tail(remote.call.replies) \in Seq(Batch) /\ Len(Tail(remote.call.replies)) = 0
      /\ remote.call.sent = <<>>
  <2> DEFINE l == Len(remote.call.replies)
             n == Len(remote.call.sent)
  <2>1. l \in Nat /\ n \in Nat /\ l # 0
    BY <1>1, <1>3
  <2>6. n + l = 1
    BY <1>6
  <2> HIDE DEF l, n
  <2>2. l = 1 /\ n = 0
    BY <2>1, <2>6
  <2>3. Len(remote.call.replies) = 1 /\ Len(remote.call.sent) = 0
    BY <2>2 DEF l, n
  <2>4. Tail(remote.call.replies) \in Seq(Batch) /\ Len(Tail(remote.call.replies)) = 0
    BY <1>1, <1>3, <2>3
  <2>5. remote.call.sent = <<>>
    BY <1>3, <2>3
  <2> QED
    BY <2>4, <2>5
<1>8. /\ c \in Calls /\ c.token = user /\ c.sent = <<>> /\ Len(c.replies) = 0 /\ ~c.ended
  BY <1>3, <1>6, <1>7 DEF Calls
<1> HIDE DEF c
<1>9. /\ r \in Remotes /\ ~r.asks /\ r.state = "open" /\ r.closes = remote.closes /\ r.handshake
      /\ r.pipeline = remote.pipeline /\ r.call = c
  BY <1>2, <1>5, <1>8 DEF Remotes
<1> HIDE DEF r
<1>10. /\ s \in Remotes
       /\ s.state = "open" /\ s.closes = remote.closes /\ s.handshake
       /\ s.pipeline = remote.pipeline /\ ~s.asks
       /\ s.call.token = user /\ s.call.replies = c.replies /\ ~s.call.ended
       /\ Len(s.call.sent) = Len(c.sent) + Len(remote.pipeline)
       /\ Batches(s.call.sent) \subseteq Batches(c.sent) \cup Batches(remote.pipeline)
  <2>1. /\ s \in Remotes
        /\ s.state = r.state /\ s.closes = r.closes /\ s.handshake = r.handshake
        /\ s.pipeline = r.pipeline /\ s.asks = r.asks
        /\ s.call.token = r.call.token /\ s.call.replies = r.call.replies
        /\ s.call.ended = r.call.ended
        /\ Len(s.call.sent) = Len(r.call.sent) + Len(remote.pipeline)
        /\ Batches(s.call.sent) \subseteq Batches(r.call.sent) \cup Batches(remote.pipeline)
    BY <1>3, <1>9, SendType
  <2> HIDE DEF s
  <2> QED
    BY <1>8, <1>9, <2>1
<1> HIDE DEF s
<1>11. Unanswered(s) = Len(s.pipeline)
  <2> DEFINE l == Len(s.call.replies)
             n == Len(s.call.sent)
             k == Len(s.pipeline)
             z == Len(c.sent)
  <2>1. l = 0 /\ z = 0 /\ n = z + k /\ k \in Nat
    BY <1>3, <1>8, <1>10
  <2>2. Unanswered(s) = l + n + 0
    BY <1>10 DEF Unanswered
  <2> HIDE DEF l, n, k, z
  <2>3. l + n + 0 = k
    BY <2>1
  <2> QED
    BY <2>2, <2>3 DEF k
<1>12. Owned(Batches(s.call.sent), user, written)
  BY <1>6, <1>8, <1>10, NoBatches DEF Owned
<1>13. Carries(s, user, written)
  BY <1>6, <1>10, <1>11, <1>12 DEF Carries
<1>14. Progresses(remote, s)
  BY <1>2, <1>5, <1>10 DEF Progresses, Remotes
<1>15. queues' \in [Anyone -> Seq(Batch)]
  BY <1>1 DEF IInv, Typed
<1> QED
  BY <1>1, <1>4, <1>5, <1>10, <1>13, <1>14, <1>15, StreamKeeps

\* An answer on a call that has made its handshake, or its end, finds a batch at the
\* head of the pipeline.
LEMMA HeadIsThere ==
  ASSUME IInv, remote.call.ended \/ (remote.handshake /\ remote.call.replies # <<>>)
  PROVE  /\ remote.handshake /\ remote.pipeline # <<>>
         /\ Unanswered(remote) = Len(remote.pipeline)
<1>1. remote \in Remotes /\ Carries(remote, user, written)
  BY StreamFacts
<1>2. /\ remote.call.replies \in Seq(Batch) /\ remote.call.sent \in Seq(Batch)
      /\ remote.pipeline \in Seq(Batch)
  BY <1>1 DEF Remotes, Calls, Pipelines
<1>3. remote.handshake
  BY <1>1, Talking DEF Carries
<1>4. Unanswered(remote) = Len(remote.pipeline)
  BY <1>1, <1>3 DEF Carries
<1>5. Unanswered(remote) > 0
  <2> DEFINE l == Len(remote.call.replies)
             n == Len(remote.call.sent)
  <2>1. l \in Nat /\ n \in Nat /\ (remote.call.ended \/ l > 0)
    BY <1>2
  <2>2. Unanswered(remote) = l + n + (IF remote.call.ended THEN 1 ELSE 0)
    BY DEF Unanswered
  <2> HIDE DEF l, n
  <2> QED
    BY <2>1, <2>2
<1> QED
  BY <1>2, <1>3, <1>4, <1>5

\* A batch leaves the user's queue.
LEMMA QueueShrinks ==
  ASSUME IInv, NEW b, queues' = [queues EXCEPT ![user] = Without(queues[user], b)]
  PROVE  /\ queues' \in [Anyone -> Seq(Batch)]
         /\ \A u \in Anyone : Batches(queues'[u]) \subseteq Batches(queues[u])
         /\ Without(queues[user], b) \in Seq(Batch)
         /\ Owned(Batches(Without(queues[user], b)), user, written)
<1>1. queues \in [Anyone -> Seq(Batch)] /\ user \in Anyone
  BY DEF IInv, Typed
<1>2. /\ Without(queues[user], b) \in Seq(Batch)
      /\ Batches(Without(queues[user], b)) \subseteq Batches(queues[user])
  BY <1>1, BatchesOfWithout
<1>3. Owned(Batches(Without(queues[user], b)), user, written)
  BY <1>1, <1>2, StreamFacts DEF Owned
<1> QED
  BY <1>1, <1>2, <1>3

LEMMA OnMutationResultKeeps ==
  ASSUME IInv, OnMutationResult
  PROVE  IInv'
<1> DEFINE q == Without(queues[user], Head(remote.pipeline))
           p == Tail(remote.pipeline)
           c == [remote.call EXCEPT !.replies = Tail(remote.call.replies)]
           r == [remote EXCEPT !.pipeline = p, !.call = c]
           s == Fill(r, q)
<1>1. /\ remote.call.replies # <<>> /\ remote.handshake
      /\ queues' = [queues EXCEPT ![user] = q]
      /\ UNCHANGED <<auth, main, provider, running, worker, user, late, log, refusals, written>>
  BY DEF OnMutationResult, backend
<1>2. remote \in Remotes /\ Carries(remote, user, written) /\ ~remote.asks
  BY StreamFacts
<1>3. /\ remote.call \in Calls /\ remote.call.replies \in Seq(Batch)
      /\ remote.call.sent \in Seq(Batch) /\ remote.pipeline \in Pipelines
      /\ remote.pipeline \in Seq(Batch) /\ Len(remote.pipeline) <= MaxPending
  BY <1>2 DEF Remotes, Calls, Pipelines
<1>4. Becomes(s)
  BY <1>2, <1>3 DEF OnMutationResult, Remotes, Calls
<1>5. remote.state = "open" /\ remote # Stopped /\ remote.pipeline # <<>>
      /\ Unanswered(remote) = Len(remote.pipeline)
  BY <1>1, Talking, HeadIsThere
<1>6. /\ p \in Pipelines /\ Batches(p) \subseteq Batches(remote.pipeline)
      /\ Len(p) = Len(remote.pipeline) - 1
  <2>1. /\ p \in Seq(Batch) /\ Batches(p) \subseteq Batches(remote.pipeline)
        /\ Len(p) = Len(remote.pipeline) - 1
    BY <1>3, <1>5, BatchesOfTail
  <2>2. Len(p) <= MaxPending
    BY <1>3, <2>1, WriteStreamAssumption DEF WriteStreamAssumption
  <2> QED
    BY <2>1, <2>2 DEF Pipelines
<1>7. /\ c \in Calls /\ c.token = remote.call.token /\ c.sent = remote.call.sent
      /\ Len(c.replies) = Len(remote.call.replies) - 1 /\ c.ended = remote.call.ended
  <2> DEFINE t == Tail(remote.call.replies)
  <2>1. t \in Seq(Batch) /\ Len(t) = Len(remote.call.replies) - 1
    BY <1>1, <1>3
  <2> HIDE DEF t
  <2>2. c = [remote.call EXCEPT !.replies = t]
    BY DEF t
  <2> HIDE DEF c
  <2>3. /\ c \in Calls /\ c.token = remote.call.token /\ c.sent = remote.call.sent
        /\ c.replies = t /\ c.ended = remote.call.ended
    BY <1>3, <2>1, <2>2 DEF Calls
  <2> QED
    BY <2>1, <2>3
<1> HIDE DEF c, p
<1>8. /\ r \in Remotes /\ ~r.asks /\ r.state = "open" /\ r.closes = remote.closes /\ r.handshake
      /\ r.pipeline = p /\ r.call = c
  BY <1>1, <1>2, <1>5, <1>6, <1>7 DEF Remotes
<1> HIDE DEF r
<1>9. Unanswered(r) = Len(r.pipeline)
  <2> DEFINE e == IF remote.call.ended THEN 1 ELSE 0
             l == Len(remote.call.replies)
             n == Len(remote.call.sent)
             k == Len(remote.pipeline)
  <2>1. e \in Nat /\ l \in Nat /\ n \in Nat /\ k \in Nat
    BY <1>3
  <2>2. l + n + e = k
    BY <1>5 DEF Unanswered
  <2>3. Unanswered(r) = (l - 1) + n + e /\ Len(r.pipeline) = k - 1
    BY <1>6, <1>7, <1>8 DEF Unanswered
  <2> HIDE DEF e, l, n, k
  <2>4. (l - 1) + n + e = k - 1
    BY <2>1, <2>2
  <2> QED
    BY <2>3, <2>4
<1>10. Carries(r, user, written)
  BY <1>1, <1>2, <1>5, <1>6, <1>7, <1>8, <1>9 DEF Carries, Owned
<1>11. /\ queues' \in [Anyone -> Seq(Batch)]
       /\ \A u \in Anyone : Batches(queues'[u]) \subseteq Batches(queues[u])
       /\ q \in Seq(Batch) /\ Owned(Batches(q), user, written)
  BY <1>1, QueueShrinks
<1> HIDE DEF q
<1>12. s \in Remotes /\ Carries(s, user, written) /\ Progresses(r, s)
  BY <1>8, <1>10, <1>11, FillCarries
<1> HIDE DEF s
<1>13. Progresses(remote, s)
  BY <1>5, <1>8, <1>12 DEF Progresses
<1> QED
  BY <1>1, <1>4, <1>5, <1>11, <1>12, <1>13, StreamKeeps

LEMMA OnRefusedKeeps ==
  ASSUME IInv, OnRefused
  PROVE  IInv'
<1> DEFINE q == Without(queues[user], Head(remote.pipeline))
           s == Rejected(remote, q)
<1>1. /\ remote.call.ended /\ Becomes(s)
      /\ queues' = [queues EXCEPT ![user] = q]
      /\ UNCHANGED <<auth, main, provider, running, worker, user, late, log, refusals, written>>
  BY DEF OnRefused, backend
<1>2. remote # Stopped /\ remote.pipeline # <<>>
  BY <1>1, Talking, HeadIsThere
<1>3. /\ queues' \in [Anyone -> Seq(Batch)]
      /\ \A u \in Anyone : Batches(queues'[u]) \subseteq Batches(queues[u])
      /\ q \in Seq(Batch) /\ Owned(Batches(q), user, written)
  BY <1>1, QueueShrinks
<1> HIDE DEF q
<1>4. s \in Remotes /\ Carries(s, user, written) /\ Progresses(remote, s)
  BY <1>2, <1>3, StreamFacts, RejectedCarries
<1> QED
  BY <1>1, <1>2, <1>3, <1>4, StreamKeeps

LEMMA OnBrokenKeeps ==
  ASSUME IInv, OnBroken
  PROVE  IInv'
<1> DEFINE s == Broken(remote)
<1>1. /\ remote.state = "open" /\ Becomes(s) /\ Leaves(remote)
      /\ UNCHANGED <<auth, main, provider, running, worker, user, queues, log, refusals, written>>
  BY DEF OnBroken, backend
<1>2. s \in Remotes /\ Carries(s, user, written) /\ Progresses(remote, s)
  BY StreamFacts, BrokenCarries
<1> HIDE DEF s
<1>3. remote # Stopped /\ queues' \in [Anyone -> Seq(Batch)]
  BY <1>1 DEF Stopped, IInv, Typed
<1> QED
  BY <1>1, <1>2, <1>3, StreamKeeps

LEMMA OnConnectivityChangeKeeps ==
  ASSUME IInv, OnConnectivityChange
  PROVE  IInv'
<1> DEFINE s == Restart(remote, queues[user])
<1>1. /\ running /\ Becomes(s) /\ Leaves(remote)
      /\ UNCHANGED <<auth, main, provider, running, worker, user, queues, log, refusals, written>>
  BY DEF OnConnectivityChange, backend
<1>2. s \in Remotes /\ Carries(s, user, written) /\ Progresses(remote, s)
  BY StreamFacts, RestartCarries
<1> HIDE DEF s
<1>3. queues' \in [Anyone -> Seq(Batch)]
  BY <1>1 DEF IInv, Typed
<1> QED
  BY <1>1, <1>2, <1>3, StreamKeeps

-----------------------------------------------------------------------------
(* The backend, the launch and the end of the process.                     *)

\* Whom the backend refuses.
LEMMA RefusedRightly ==
  ASSUME NEW token, NEW b, NEW W, Owned({b}, token, W), MayRefuse(token, b)
  PROVE  b \in W /\ (b.user = None \/ b.id \in Refusable)
  BY DEF Owned, MayRefuse, Own

LEMMA BackendReadsKeeps ==
  ASSUME IInv, BackendReads
  PROVE  IInv'
<1> DEFINE m == Head(remote.call.sent)
           rest == Tail(remote.call.sent)
           more == Append(remote.call.replies, m)
           c == [remote.call EXCEPT !.sent = rest, !.replies = more]
           d == [remote.call EXCEPT !.sent = rest, !.ended = TRUE]
<1>1. /\ remote.call.sent # <<>> /\ ~remote.call.ended
      /\ UNCHANGED <<auth, fetches, main, provider, running, worker, user, queues, late, written>>
  BY DEF BackendReads
<1>2. remote \in Remotes /\ Carries(remote, user, written) /\ ~remote.asks
  BY StreamFacts
<1>3. /\ remote.call \in Calls /\ remote.call.replies \in Seq(Batch)
      /\ remote.call.sent \in Seq(Batch)
  BY <1>2 DEF Remotes, Calls
<1>4. \/ /\ remote' = [remote EXCEPT !.call = c]
         /\ \/ UNCHANGED <<log, refusals>>
            \/ Own(remote.call.token, m) /\ Commit(remote.call.token, m) /\ m # Handshake
      \/ /\ remote' = [remote EXCEPT !.call = d] /\ m # Handshake
         /\ MayRefuse(remote.call.token, m) /\ Refuse(m)
  BY <1>2, <1>3 DEF BackendReads, Remotes, Calls, backend
<1>5. /\ rest \in Seq(Batch) /\ Batches(rest) \subseteq Batches(remote.call.sent)
      /\ m \in Batches(remote.call.sent) /\ Len(rest) = Len(remote.call.sent) - 1
      /\ m \in Batch /\ more \in Seq(Batch) /\ Len(more) = Len(remote.call.replies) + 1
  <2>1. /\ rest \in Seq(Batch) /\ Batches(rest) \subseteq Batches(remote.call.sent)
        /\ m \in Batches(remote.call.sent) /\ Len(rest) = Len(remote.call.sent) - 1
    BY <1>1, <1>3, BatchesOfTail
  <2>2. m \in Batch
    BY <1>1, <1>3
  <2> QED
    BY <1>3, <2>1, <2>2
<1>6. remote.state = "open" /\ remote # Stopped /\ running
  BY <1>1, Talking, Running
<1>7. remote.call.token = user
  BY <1>2, <1>6 DEF Carries
<1>8. m # Handshake => remote.handshake /\ m \in written /\ m.user = user
  BY <1>2, <1>5, <1>6 DEF Carries, Owned
<1> HIDE DEF rest, more, m
<1>9. /\ c \in Calls /\ c.token = user /\ c.sent = rest /\ c.replies = more /\ ~c.ended
      /\ d \in Calls /\ d.token = user /\ d.sent = rest /\ d.replies = remote.call.replies
      /\ d.ended
  BY <1>1, <1>3, <1>5, <1>7 DEF Calls
<1> HIDE DEF c, d
<1>10. /\ remote' \in Remotes /\ ~remote'.asks /\ remote'.state = "open"
       /\ remote'.closes = remote.closes /\ remote'.handshake = remote.handshake
       /\ remote'.pipeline = remote.pipeline
       /\ remote'.call = c \/ (remote'.call = d /\ m # Handshake)
  BY <1>2, <1>4, <1>6, <1>9 DEF Remotes
<1>11. /\ remote'.call.token = user
       /\ Batches(remote'.call.sent) \subseteq Batches(remote.call.sent)
  BY <1>5, <1>9, <1>10
<1>12. ~remote.handshake => Len(remote'.call.sent) + Len(remote'.call.replies) = 1 /\ ~remote'.call.ended
  <2> SUFFICES ASSUME ~remote.handshake
               PROVE  Len(remote'.call.sent) + Len(remote'.call.replies) = 1 /\ ~remote'.call.ended
    OBVIOUS
  <2> DEFINE l == Len(remote.call.replies)
             n == Len(remote.call.sent)
  <2>1. l \in Nat /\ n \in Nat
    BY <1>3
  <2>2. n + l = 1
    BY <1>2, <1>6 DEF Carries
  <2>3. remote'.call = c
    BY <1>8, <1>10
  <2>4. Len(remote'.call.sent) = n - 1 /\ Len(remote'.call.replies) = l + 1
    BY <1>5, <1>9, <2>3
  <2> HIDE DEF l, n
  <2>5. (n - 1) + (l + 1) = 1
    BY <2>1, <2>2
  <2> QED
    BY <1>9, <2>3, <2>4, <2>5
<1>13. remote.handshake => Unanswered(remote') = Len(remote'.pipeline)
  <2> SUFFICES ASSUME remote.handshake PROVE Unanswered(remote') = Len(remote'.pipeline)
    OBVIOUS
  <2> DEFINE l == Len(remote.call.replies)
             n == Len(remote.call.sent)
             k == Len(remote.pipeline)
  <2>1. l \in Nat /\ n \in Nat
    BY <1>3
  <2>2. l + n + 0 = k /\ Len(remote'.pipeline) = k
    BY <1>1, <1>2, <1>10 DEF Carries, Unanswered
  <2>3. CASE remote'.call = c
    <3>1. Unanswered(remote') = (l + 1) + (n - 1) + 0
      BY <1>5, <1>9, <2>3 DEF Unanswered
    <3> HIDE DEF l, n, k
    <3>2. (l + 1) + (n - 1) + 0 = k
      BY <2>1, <2>2
    <3> QED
      BY <2>2, <3>1, <3>2
  <2>4. CASE remote'.call = d
    <3>1. Unanswered(remote') = l + (n - 1) + 1
      BY <1>5, <1>9, <2>4 DEF Unanswered
    <3> HIDE DEF l, n, k
    <3>2. l + (n - 1) + 1 = k
      BY <2>1, <2>2
    <3> QED
      BY <2>2, <3>1, <3>2
  <2> QED
    BY <1>10, <2>3, <2>4
<1>14. Carries(remote', user, written)
  BY <1>2, <1>6, <1>10, <1>11, <1>12, <1>13 DEF Carries, Owned
<1>15. Follows'
  <2>1. /\ TokensWait(fetches, main, worker, remote)
        /\ ProviderFollows(auth, fetches, main, provider)
        /\ WorkerFollows(provider.user, worker, user, remote)
    BY <1>6 DEF IInv, Follows
  <2>2. TokensWait(fetches, main, worker, remote')
    BY <1>6, <1>10, <2>1 DEF TokensWait
  <2>3. WorkerFollows(provider.user, worker, user, remote')
    BY <1>10, <2>1 DEF WorkerFollows
  <2> QED
    BY <1>1, <1>6, <2>1, <2>2, <2>3 DEF Follows
<1>16. /\ log' \in Seq([as : Anyone, batch : Batch])
       /\ \A k \in DOMAIN log' : log'[k].batch \in written
       /\ \A b \in refusals' : b \in written /\ (b.user = None \/ b.id \in Refusable)
  <2>1. /\ log \in Seq([as : Anyone, batch : Batch])
        /\ \A k \in DOMAIN log : log[k].batch \in written
        /\ \A b \in refusals : b \in written /\ (b.user = None \/ b.id \in Refusable)
    BY DEF IInv, Typed, Books
  <2>2. CASE UNCHANGED <<log, refusals>>
    BY <2>1, <2>2
  <2>3. CASE Commit(remote.call.token, m) /\ m # Handshake
    <3> DEFINE e == [as |-> remote.call.token, batch |-> m]
    <3>1. log' = Append(log, e) /\ refusals' = refusals
      BY <2>3 DEF Commit
    <3>2. e \in [as : Anyone, batch : Batch] /\ e.batch \in written
      BY <1>5, <1>7, <1>8, <2>3, StreamFacts
    <3> HIDE DEF e
    <3>3. \A k \in DOMAIN Append(log, e) : Append(log, e)[k] = e \/ (k \in DOMAIN log /\ Append(log, e)[k] = log[k])
      BY <2>1, <3>2
    <3> QED
      BY <2>1, <3>1, <3>2, <3>3
  <2>4. CASE m # Handshake /\ MayRefuse(remote.call.token, m) /\ Refuse(m)
    <3>1. Owned({m}, remote.call.token, written)
      BY <1>7, <1>8, <2>4 DEF Owned
    <3>2. m \in written /\ (m.user = None \/ m.id \in Refusable)
      BY <2>4, <3>1, RefusedRightly
    <3> QED
      BY <2>1, <2>4, <3>2 DEF Refuse
  <2> QED
    BY <1>4, <2>2, <2>3, <2>4
<1>17. Typed'
  BY <1>1, <1>10, <1>16 DEF IInv, Typed
<1>18. Books'
  BY <1>1, <1>16 DEF IInv, Books
<1> QED
  BY <1>1, <1>14, <1>15, <1>17, <1>18 DEF IInv

LEMMA LateArrivesKeeps ==
  ASSUME IInv, NEW o \in late, LateArrives(o)
  PROVE  IInv'
<1> DEFINE m == Head(o.sent)
           x == [o EXCEPT !.sent = Tail(o.sent)]
           rest == IF Len(o.sent) = 1 THEN {} ELSE {x}
           L == [token : Anyone, sent : Seq(Batch)]
<1>1. /\ \/ Own(o.token, m) /\ Commit(o.token, m) /\ late' = (late \ {o}) \cup rest
         \/ MayRefuse(o.token, m) /\ Refuse(m) /\ late' = late \ {o}
      /\ UNCHANGED <<auth, fetches, main, provider, running, worker, user, queues, remote, written>>
  BY DEF LateArrives, client
<1>2. /\ o \in L /\ o.sent # <<>> /\ Owned(Batches(o.sent), o.token, written)
      /\ o.token \in Anyone /\ o.sent \in Seq(Batch)
  BY DEF IInv, Typed, Books
<1>3. /\ Tail(o.sent) \in Seq(Batch) /\ Batches(Tail(o.sent)) \subseteq Batches(o.sent)
      /\ m \in Batches(o.sent) /\ Len(Tail(o.sent)) = Len(o.sent) - 1
  BY <1>2, BatchesOfTail
<1>4. m \in written /\ Owned({m}, o.token, written) /\ m \in Batch
  BY <1>2, <1>3 DEF Owned, IInv, Typed
<1>5. ASSUME Len(o.sent) # 1
      PROVE  x \in L /\ x.sent # <<>> /\ Owned(Batches(x.sent), x.token, written)
  <2> DEFINE t == Tail(o.sent)
  <2>1. t # <<>> /\ t \in Seq(Batch)
    <3>1. Len(t) # 0
      <4> DEFINE n == Len(o.sent)
      <4>1. n \in Nat /\ n # 1 /\ Len(t) = n - 1
        BY <1>2, <1>3, <1>5
      <4> HIDE DEF n, t
      <4> QED
        BY <4>1
    <3>2. t \in Seq(Batch)
      BY <1>3
    <3> HIDE DEF t
    <3> QED
      BY <3>1, <3>2
  <2>2. Owned(Batches(t), o.token, written)
    BY <1>2, <1>3 DEF Owned
  <2> HIDE DEF t
  <2>3. x = [o EXCEPT !.sent = t]
    BY DEF t
  <2> HIDE DEF x
  <2>4. x \in L /\ x.sent = t /\ x.token = o.token
    BY <1>2, <2>1, <2>3
  <2> QED
    BY <2>1, <2>2, <2>4
<1> HIDE DEF x, m
<1>6. \A y \in late' : y \in late \/ (y = x /\ Len(o.sent) # 1)
  BY <1>1
<1>7. late' \subseteq L /\ \A y \in late' : y.sent # <<>> /\ Owned(Batches(y.sent), y.token, written)
  BY <1>5, <1>6 DEF IInv, Typed, Books
<1>8. /\ log' \in Seq([as : Anyone, batch : Batch])
      /\ \A k \in DOMAIN log' : log'[k].batch \in written
      /\ \A b \in refusals' : b \in written /\ (b.user = None \/ b.id \in Refusable)
  <2>1. /\ log \in Seq([as : Anyone, batch : Batch])
        /\ \A k \in DOMAIN log : log[k].batch \in written
        /\ \A b \in refusals : b \in written /\ (b.user = None \/ b.id \in Refusable)
    BY DEF IInv, Typed, Books
  <2>2. CASE Commit(o.token, m)
    <3> DEFINE e == [as |-> o.token, batch |-> m]
    <3>1. log' = Append(log, e) /\ refusals' = refusals
      BY <2>2 DEF Commit
    <3>2. e \in [as : Anyone, batch : Batch] /\ e.batch \in written
      BY <1>2, <1>4
    <3> HIDE DEF e
    <3>3. \A k \in DOMAIN Append(log, e) : Append(log, e)[k] = e \/ (k \in DOMAIN log /\ Append(log, e)[k] = log[k])
      BY <2>1, <3>2
    <3> QED
      BY <2>1, <3>1, <3>2, <3>3
  <2>3. CASE MayRefuse(o.token, m) /\ Refuse(m)
    <3>1. m \in written /\ (m.user = None \/ m.id \in Refusable)
      BY <1>4, <2>3, RefusedRightly
    <3> QED
      BY <2>1, <2>3, <3>1 DEF Refuse
  <2> QED
    BY <1>1, <2>2, <2>3
<1> HIDE DEF L
<1>9. Typed'
  BY <1>1, <1>7, <1>8 DEF IInv, Typed, L
<1>10. Books'
  BY <1>1, <1>7, <1>8 DEF IInv, Books
<1>11. Follows' /\ Carries(remote, user, written)'
  BY <1>1 DEF IInv, Follows
<1> QED
  BY <1>9, <1>10, <1>11 DEF IInv

LEMMA StoppedCarries ==
  ASSUME NEW u, NEW W
  PROVE  /\ Stopped \in Remotes /\ ~Stopped.asks /\ Stopped.closes = 0 /\ Stopped.state = "initial"
         /\ Carries(Stopped, u, W)
<1>1. <<>> \in Pipelines
  BY WriteStreamAssumption DEF WriteStreamAssumption, Pipelines
<1>2. Stopped \in Remotes
  BY <1>1, NoCallType DEF Stopped, Remotes
<1>3. Carries(Stopped, u, W)
  BY NoBatches DEF Stopped, Carries, Owned
<1> QED
  BY <1>2, <1>3 DEF Stopped

LEMMA KillKeeps ==
  ASSUME IInv, Kill
  PROVE  IInv'
<1>1. /\ running' = FALSE /\ fetches' = {} /\ main' = <<>> /\ worker' = <<>>
      /\ provider' = [user |-> None, counter |-> 0] /\ user' = None
      /\ Leaves(remote) /\ remote' = Stopped
      /\ UNCHANGED <<auth, queues, log, refusals, written>>
  BY DEF Kill, backend
<1>2. /\ late' \subseteq [token : Anyone, sent : Seq(Batch)]
      /\ \A o \in late' : o.sent # <<>> /\ Owned(Batches(o.sent), o.token, written)
  BY <1>1, LateIsOwned
<1>3. provider' \in [user : Anyone, counter : Nat] /\ user' \in Anyone
  BY <1>1 DEF Anyone
<1>4. main' \in Seq(Blocks) /\ worker' \in Seq(Tasks) /\ fetches' \subseteq Fetches
  BY <1>1
<1>5. remote' \in Remotes /\ ~remote'.asks /\ Carries(remote', user', written')
  BY <1>1, StoppedCarries
<1>6. Typed'
  BY <1>1, <1>2, <1>3, <1>4, <1>5 DEF IInv, Typed
<1>7. Books'
  BY <1>1, <1>2 DEF IInv, Books
<1>8. Follows'
  BY <1>1 DEF Follows
<1> QED
  BY <1>5, <1>6, <1>7, <1>8 DEF IInv

LEMMA LaunchKeeps ==
  ASSUME IInv, Launch
  PROVE  IInv'
<1> DEFINE q == Cleared[auth]
           s == Fill(Stopped, q)
           x == [s EXCEPT !.asks = FALSE]
           fs == Asked({}, s, 0)
<1>1. /\ ~running /\ running' = TRUE /\ provider' = [user |-> auth, counter |-> 0]
      /\ user' = auth /\ queues' = Cleared /\ remote' = x
      /\ main' = IF auth = None THEN <<>> ELSE <<Notify(auth)>>
      /\ fetches' = IF s.asks THEN {Fetch(0, 0)} ELSE {}
      /\ UNCHANGED <<auth, worker, late, log, refusals, written>>
  BY DEF Launch, backend
<1>2. auth \in Anyone /\ worker = <<>>
  BY <1>1 DEF IInv, Typed, Follows
<1>3. /\ Cleared \in [Anyone -> Seq(Batch)]
      /\ \A u \in Anyone : Owned(Batches(Cleared[u]), u, written)
  <2>1. CASE auth = None
    BY <2>1, NoBatches DEF Cleared, Owned
  <2>2. CASE auth # None
    BY <2>2 DEF Cleared, IInv, Typed, Books
  <2> QED
    BY <2>1, <2>2
<1>4. /\ Stopped \in Remotes /\ ~Stopped.asks /\ Stopped.closes = 0 /\ Stopped.state = "initial"
      /\ Carries(Stopped, auth, written)
  BY StoppedCarries
<1>5. s \in Remotes /\ Carries(s, auth, written) /\ Progresses(Stopped, s) /\ s.closes = 0
  <2>1. q \in Seq(Batch) /\ Owned(Batches(q), auth, written)
    BY <1>2, <1>3
  <2> HIDE DEF q
  <2> QED
    BY <1>4, <2>1, FillCarries
<1> HIDE DEF s
<1>6. /\ x \in Remotes /\ ~x.asks /\ x.state = s.state /\ x.closes = 0
      /\ x.handshake = s.handshake /\ x.call = s.call /\ x.pipeline = s.pipeline
  BY <1>5 DEF Remotes
<1>7. fetches' = fs
  BY <1>1, <1>5 DEF Asked
<1>8. TokensWait(fs, <<>>, <<>>, x)
  <2>1. TokensWait({}, <<>>, <<>>, Stopped)
    BY <1>4 DEF TokensWait, Past, AtMostOne, AnyFor, Fetching, OnQueue, Once, Batches
  <2>2. {} \in SUBSET Fetches /\ <<>> \in Seq(Blocks) /\ <<>> \in Seq(Tasks) /\ 0 \in Nat
    OBVIOUS
  <2> QED
    BY <1>4, <1>5, <2>1, <2>2, TokensAsked
<1>9. fs \subseteq Fetches /\ \A f \in fs : f.counter = 0 /\ f.of = Unread
  <2>1. Fetch(0, 0) \in Fetches /\ Fetch(0, 0).counter = 0 /\ Fetch(0, 0).of = Unread
    BY DEF Fetch, Fetches
  <2> QED
    BY <1>1, <1>7, <2>1
<1> HIDE DEF x, fs
<1>10. provider' \in [user : Anyone, counter : Nat] /\ provider'.user = auth /\ provider'.counter = 0
  BY <1>1, <1>2
<1>11. ProviderFollows(auth, fs, <<>>, provider')
  <2>1. ~Notifies(<<>>)
    BY DEF Notifies
  <2> QED
    BY <1>9, <1>10, <2>1 DEF ProviderFollows
<1>12. /\ main' \in Seq(Blocks) /\ TokensWait(fs, main', <<>>, x)
       /\ ProviderFollows(auth, fs, main', provider')
  <2>1. CASE auth = None
    <3>1. main' = <<>>
      BY <1>1, <2>1
    <3> QED
      BY <1>8, <1>11, <3>1
  <2>2. CASE auth # None
    <3> DEFINE b == Notify(auth)
    <3>1. main' = Append(<<>>, b)
      BY <1>1, <2>2
    <3>2. b \in Blocks /\ b.kind = "notify" /\ b.user = auth
      BY <1>2 DEF Notify, Blocks
    <3> HIDE DEF b
    <3>3. <<>> \in Seq(Blocks) /\ Append(<<>>, b) \in Seq(Blocks)
      BY <3>2
    <3>4. TokensWait(fs, Append(<<>>, b), <<>>, x)
      BY <1>8, <3>2, <3>3, NotifyQueued
    <3>5. ProviderFollows(auth, fs, Append(<<>>, b), provider')
      BY <1>11, <3>2, <3>3, FollowsChange
    <3> QED
      BY <3>1, <3>3, <3>4, <3>5
  <2> QED
    BY <2>1, <2>2
<1>13. WorkerFollows(auth, <<>>, auth, x)
  BY DEF WorkerFollows, Changes
<1>14. Carries(x, auth, written)
  BY <1>5, <1>6 DEF Carries, Unanswered
<1>15. Follows'
  BY <1>1, <1>2, <1>7, <1>10, <1>12, <1>13 DEF Follows
<1>16. Typed'
  BY <1>1, <1>2, <1>3, <1>6, <1>7, <1>9, <1>10, <1>12 DEF IInv, Typed
<1>17. Books'
  BY <1>1, <1>3 DEF IInv, Books
<1> QED
  BY <1>1, <1>14, <1>15, <1>16, <1>17 DEF IInv

-----------------------------------------------------------------------------
(* The invariant.                                                          *)

LEMMA NextKeeps ==
  ASSUME IInv, [Next]_vars
  PROVE  IInv'
<1>1. CASE Auth
  BY <1>1, AuthChangesKeeps, AuthReadsKeeps, AuthAnswersKeeps DEF Auth
<1>2. CASE MainThread
  BY <1>2, LaunchKeeps, DeliverNotifyKeeps, DeliverTokenKeeps DEF MainThread
<1>3. CASE AppWrites
  BY <1>3, AppWritesKeeps
<1>4. CASE Worker
  BY <1>4, RunWriteKeeps, RunChangeKeeps, RunResumeKeeps DEF Worker
<1>5. CASE Timer
  BY <1>5, BackoffElapsesKeeps, IdleElapsesKeeps DEF Timer
<1>6. CASE Stream
  BY <1>6, OnHandshakeCompleteKeeps, OnMutationResultKeeps, OnRefusedKeeps, OnBrokenKeeps,
     OnConnectivityChangeKeeps DEF Stream
<1>7. CASE Backend
  BY <1>7, BackendReadsKeeps, LateArrivesKeeps DEF Backend
<1>8. CASE Kill
  BY <1>8, KillKeeps
<1>9. CASE UNCHANGED vars
  BY <1>9 DEF vars, client, backend, budgets, IInv, Typed, Books, Follows
<1> QED
  BY <1>1, <1>2, <1>3, <1>4, <1>5, <1>6, <1>7, <1>8, <1>9 DEF Next

\* The invariant of this module, by induction over the steps.
THEOREM Inductive == Spec => []IInv
<1>1. Init => IInv
  BY InitHolds
<1>2. IInv /\ [Next]_vars => IInv'
  BY NextKeeps
<1> QED
  BY <1>1, <1>2, PTL DEF Spec

\* TypeOK of WriteStream: among the rest, the pipeline never holds more than
\* kMaxPendingWrites batches, and nothing is refused that was not written.
THEOREM TypesHold == Spec => []TypeOK
<1>1. IInv => TypeOK
  <2> SUFFICES ASSUME IInv PROVE TypeOK
    OBVIOUS
  <2>1. /\ auth \in Anyone /\ user \in Anyone /\ running \in BOOLEAN
        /\ provider \in [user : Anyone, counter : Nat] /\ written \subseteq Batch
        /\ ~remote.asks /\ refusals \subseteq written
    BY DEF IInv, Typed, Books
  <2>2. \A f \in fetches : f.closes \in Nat /\ f.counter \in Nat /\ f.of \in Anyone \cup {Unread}
    BY DEF IInv, Typed, Fetches
  <2>3. \A k \in DOMAIN main : main[k].kind \in {"notify", "token", "error"} /\ main[k].user \in Anyone
    <3>1. \A k \in DOMAIN main : main[k] \in Blocks
      BY DEF IInv, Typed
    <3>2. \A b \in Blocks : b.kind \in {"notify", "token", "error"} /\ b.user \in Anyone
      BY DEF Blocks
    <3> QED
      BY <3>1, <3>2
  <2>4. \A k \in DOMAIN worker : worker[k].kind \in {"change", "token", "error", "write"}
                                /\ worker[k].user \in Anyone
    <3>1. \A k \in DOMAIN worker : worker[k] \in Tasks
      BY DEF IInv, Typed
    <3>2. \A t \in Tasks : t.kind \in {"change", "token", "error", "write"} /\ t.user \in Anyone
      BY DEF Tasks
    <3> QED
      BY <3>1, <3>2
  <2>5. /\ remote.state \in {"initial", "starting", "open", "backoff", "error"}
        /\ remote.closes \in Nat
        /\ remote.handshake \in BOOLEAN /\ remote.idle \in BOOLEAN
        /\ remote.call \in Calls /\ remote.pipeline \in Pipelines
    BY DEF IInv, Typed, Remotes
  <2>6. remote.call.ended \in BOOLEAN
    BY <2>5 DEF Calls
  <2>7. Len(remote.pipeline) \in 0..MaxPending
    BY <2>5, WriteStreamAssumption DEF Pipelines, WriteStreamAssumption
  <2>8. \A u \in Anyone : Batches(queues[u]) \subseteq written
    BY StreamFacts DEF Owned
  <2>9. \A k \in DOMAIN log : log[k].as \in Anyone /\ log[k].batch \in written
    <3>1. \A k \in DOMAIN log : log[k].batch \in written
      BY DEF IInv, Books
    <3> DEFINE E == [as : Anyone, batch : Batch]
    <3>2. \A e \in E : e.as \in Anyone
      OBVIOUS
    <3>3. log \in Seq(E)
      BY DEF IInv, Typed
    <3> HIDE DEF E
    <3>4. \A k \in DOMAIN log : log[k] \in E
      BY <3>3
    <3> QED
      BY <3>1, <3>2, <3>4
  <2> QED
    BY <2>1, <2>2, <2>3, <2>4, <2>5, <2>6, <2>7, <2>8, <2>9 DEF TypeOK
<1> QED
  BY <1>1, Inductive, PTL

\* OwnName of WriteStream: whatever way Auth, the provider, the worker and the stream
\* hear of a change of user, no write goes out under another's token, and none
\* is refused for the name it came in.
THEOREM NamesAgree == Spec => []OwnName
<1>1. IInv => OwnName
  BY DEF IInv, OwnName, Carries, Books, Owned
<1> QED
  BY <1>1, Inductive, PTL

\* A set whose elements are all the same.
LEMMA OneOrNone ==
  ASSUME NEW S, \A x, y \in S : x = y
  PROVE  Cardinality(S) = IF S = {} THEN 0 ELSE 1
<1>1. CASE S = {}
  BY <1>1, FS_EmptySet
<1>2. CASE S # {}
  <2>1. PICK x : x \in S
    BY <1>2
  <2>2. S = {x}
    BY <2>1
  <2> QED
    BY <1>2, <2>2, FS_Singleton
<1> QED
  BY <1>1, <1>2

\* TokenUnderWay of WriteStream: a stream that is starting waits for exactly one token,
\* wherever it is on its way, and any other stream for none.
THEOREM OneTokenUnderWay == Spec => []TokenUnderWay
<1>1. IInv => TokenUnderWay
  <2> SUFFICES ASSUME IInv PROVE TokenUnderWay
    OBVIOUS
  <2> DEFINE n == remote.closes
             F == {f \in fetches : f.closes = n}
             M == {k \in DOMAIN main : main[k].kind # "notify" /\ main[k].closes = n}
             W == {k \in DOMAIN worker : worker[k].kind \in {"token", "error"} /\ worker[k].closes = n}
  <2>1. /\ AtMostOne(fetches, main, worker, n)
        /\ remote.state = "starting" <=> AnyFor(fetches, main, worker, n)
    <3>1. CASE running
      BY <3>1 DEF IInv, Follows, TokensWait
    <3>2. CASE ~running
      BY <3>2, StoppedCarries
         DEF IInv, Follows, AtMostOne, AnyFor, Fetching, OnQueue, Once
    <3> QED
      BY <3>1, <3>2
  <2>2. \A k \in DOMAIN main : main[k].kind # "notify" /\ main[k].closes = n <=> Tok(main[k], n)
    <3>1. \A k \in DOMAIN main : main[k] \in Blocks
      BY DEF IInv, Typed
    <3>2. \A b \in Blocks : b.kind \in {"notify", "token", "error"}
      BY DEF Blocks
    <3> QED
      BY <3>1, <3>2 DEF Tok
  <2>3. Cardinality(F) = IF Fetching(fetches, n) THEN 1 ELSE 0
    <3>1. \A x, y \in F : x = y
      BY <2>1 DEF AtMostOne
    <3>2. F = {} <=> ~Fetching(fetches, n)
      BY DEF Fetching
    <3> QED
      BY <3>1, <3>2, OneOrNone
  <2>4. Cardinality(M) = IF OnQueue(main, n) THEN 1 ELSE 0
    <3>1. \A x, y \in M : x = y
      BY <2>1, <2>2 DEF AtMostOne, Once
    <3>2. M = {} <=> ~OnQueue(main, n)
      BY <2>2 DEF OnQueue
    <3> QED
      BY <3>1, <3>2, OneOrNone
  <2>5. Cardinality(W) = IF OnQueue(worker, n) THEN 1 ELSE 0
    <3>1. \A x, y \in W : x = y
      BY <2>1 DEF AtMostOne, Once, Tok
    <3>2. W = {} <=> ~OnQueue(worker, n)
      BY DEF OnQueue, Tok
    <3> QED
      BY <3>1, <3>2, OneOrNone
  <2> HIDE DEF F, M, W
  <2>6. Cardinality(F) + Cardinality(M) + Cardinality(W) = IF remote.state = "starting" THEN 1 ELSE 0
    BY <2>1, <2>3, <2>4, <2>5 DEF AtMostOne, AnyFor
  <2> QED
    BY <2>6 DEF TokenUnderWay, F, M, W
<1> QED
  BY <1>1, Inductive, PTL

-----------------------------------------------------------------------------
(* The stream runs exactly while it is needed, which the hard assertions of *)
(* the code rely on.                                                       *)

Tidy(r) ==
  /\ r.idle => r.state = "open" /\ r.handshake /\ r.pipeline = <<>>
  /\ r.state \in {"starting", "backoff"} \/ (r.state = "open" /\ ~r.handshake) => r.pipeline # <<>>

Needed(r) == Tidy(r) /\ (r.pipeline # <<>> => IsStarted(r))

LEMMA StartNeeded ==
  ASSUME NEW r \in Remotes, Tidy(r)
  PROVE  Needed(StartIfNeeded(r))
<1> DEFINE s == StartIfNeeded(r)
<1>1. CASE IsStarted(r) \/ r.pipeline = <<>>
  <2>1. s = r
    BY <1>1 DEF StartIfNeeded
  <2> HIDE DEF s
  <2> QED
    BY <1>1, <2>1 DEF Needed, s
<1>2. CASE ~(IsStarted(r) \/ r.pipeline = <<>>)
  <2>1. s = [r EXCEPT !.state = "backoff"] \/ s = [r EXCEPT !.state = "starting", !.asks = TRUE]
    BY <1>2 DEF StartIfNeeded, Start
  <2> HIDE DEF s
  <2>2. /\ s.state \in {"backoff", "starting"} /\ s.idle = r.idle
        /\ s.pipeline = r.pipeline /\ s.handshake = r.handshake
    BY <2>1 DEF Remotes
  <2>3. ~r.idle
    BY <1>2 DEF Tidy, IsStarted
  <2> QED
    BY <1>2, <2>2, <2>3 DEF Needed, Tidy, IsStarted, s
<1> QED
  BY <1>1, <1>2

LEMMA FillNeeded ==
  ASSUME NEW r \in Remotes, Tidy(r), NEW q \in Seq(Batch)
  PROVE  Needed(Fill(r, q))
<1> DEFINE more == Following(r.pipeline, q)
           p == r.pipeline \o more
           full == [r EXCEPT !.pipeline = @ \o more]
           ready == r.state = "open" /\ r.handshake
           sent == Send(full, more)
           i == full.idle \/ (r.state = "open" /\ full.pipeline = <<>>)
           g == IF ready
                  THEN IF full.pipeline = <<>> THEN [full EXCEPT !.idle = TRUE] ELSE sent
                  ELSE [full EXCEPT !.idle = i]
<1>1. Fill(r, q) = StartIfNeeded(g)
  BY DEF Fill
<1>2. /\ more \in Seq(Batch) /\ p \in Pipelines
      /\ r.pipeline # <<>> => p # <<>>
      /\ p = r.pipeline \/ more # <<>>
  <2>1. more \in Seq(Batch) /\ p \in Pipelines /\ r.pipeline \in Seq(Batch)
    BY PipelineType, FollowingFits
  <2> HIDE DEF more
  <2>2. r.pipeline # <<>> => p # <<>>
    BY <2>1
  <2>3. more = <<>> => p = r.pipeline
    BY <2>1
  <2> QED
    BY <2>1, <2>2, <2>3
<1> HIDE DEF more, p
<1>3. /\ full \in Remotes /\ full.state = r.state
      /\ full.handshake = r.handshake /\ full.pipeline = p /\ full.idle = r.idle
  <2>1. full = [r EXCEPT !.pipeline = p]
    BY DEF p
  <2> HIDE DEF full
  <2> QED
    BY <1>2, <2>1 DEF Remotes
<1> HIDE DEF full
<1>4. g \in Remotes /\ Tidy(g)
  <2>1. CASE ready /\ full.pipeline = <<>>
    <3>1. g = [full EXCEPT !.idle = TRUE]
      BY <2>1
    <3> HIDE DEF g
    <3> QED
      BY <1>3, <2>1, <3>1 DEF Remotes, Tidy
  <2>2. CASE ready /\ full.pipeline # <<>>
    <3>1. g = sent
      BY <2>2
    <3>2. /\ sent \in Remotes /\ sent.state = full.state
          /\ sent.handshake = full.handshake /\ sent.pipeline = full.pipeline
      BY <1>2, <1>3, SendType
    <3>3. ~sent.idle
      <4>1. CASE more = <<>>
        <5>1. sent = full
          BY <4>1 DEF Send
        <5> HIDE DEF sent
        <5> QED
          BY <1>2, <1>3, <2>2, <4>1, <5>1 DEF Tidy
      <4>2. CASE more # <<>>
        <5> DEFINE c == [full.call EXCEPT !.sent = @ \o more]
        <5>1. sent = [full EXCEPT !.idle = FALSE, !.call = c]
          BY <1>3, <4>2 DEF Send, Remotes, Calls
        <5> HIDE DEF sent, c
        <5> QED
          BY <1>3, <5>1 DEF Remotes
      <4> QED
        BY <4>1, <4>2
    <3> HIDE DEF g, sent
    <3> QED
      BY <1>3, <2>2, <3>1, <3>2, <3>3 DEF Tidy
  <2>3. CASE ~ready
    <3>1. g = [full EXCEPT !.idle = i]
      BY <2>3
    <3>2. i = FALSE
      <4>1. ~r.idle
        BY <2>3 DEF Tidy
      <4>2. r.state = "open" => p # <<>>
        BY <1>2, <2>3 DEF Tidy
      <4> QED
        BY <1>3, <4>1, <4>2 DEF Remotes
    <3> HIDE DEF g, i
    <3>3. /\ g \in Remotes /\ g.state = r.state /\ g.handshake = r.handshake /\ g.pipeline = p
          /\ ~g.idle
      BY <1>3, <3>1, <3>2 DEF Remotes
    <3> QED
      BY <1>2, <2>3, <3>3 DEF Tidy
  <2> QED
    BY <2>1, <2>2, <2>3
<1> HIDE DEF g
<1> QED
  BY <1>1, <1>4, StartNeeded

LEMMA AfterCloseNeeded ==
  ASSUME NEW s \in Remotes, s.state # "open", Needed(s)
  PROVE  Needed(AfterClose(s))
<1> DEFINE c == AfterClose(s)
<1>1. c.state = s.state /\ c.idle = s.idle /\ c.pipeline = s.pipeline /\ ~c.handshake
  BY DEF AfterClose, Remotes
<1> HIDE DEF c
<1> QED
  BY <1>1 DEF Needed, Tidy, IsStarted, c

LEMMA ClosedTidy ==
  ASSUME NEW r \in Remotes, NEW to \in {"initial", "error"}
  PROVE  Tidy(Closed(r, to)) /\ ~Closed(r, to).idle
<1> DEFINE c == Closed(r, to)
<1>1. c = [r EXCEPT !.state = to, !.closes = r.closes + 1, !.idle = FALSE, !.call = NoCall]
  BY DEF Closed
<1> HIDE DEF c
<1>2. c.state = to /\ ~c.idle
  BY <1>1 DEF Remotes
<1> QED
  BY <1>2 DEF Tidy, c

LEMMA BrokenNeeded ==
  ASSUME NEW r \in Remotes, ~r.asks
  PROVE  Needed(Broken(r))
<1> DEFINE c == Closed(r, "error")
           s == StartIfNeeded(c)
<1>1. c \in Remotes /\ c.state = "error" /\ ~c.asks /\ Tidy(c)
  BY ClosedType, ClosedTidy
<1> HIDE DEF c
<1>2. s \in Remotes /\ s.state # "open"
  BY <1>1, StartIfNeededType DEF IsStarted
<1>3. Needed(s)
  BY <1>1, StartNeeded
<1> HIDE DEF s
<1>4. Needed(AfterClose(s))
  BY <1>2, <1>3, AfterCloseNeeded
<1> QED
  BY <1>4 DEF Broken, s, c

LEMMA RejectedNeeded ==
  ASSUME NEW r \in Remotes, ~r.asks, r.pipeline # <<>>, NEW q \in Seq(Batch)
  PROVE  Needed(Rejected(r, q))
<1> DEFINE c == Closed(r, "initial")
           d == [c EXCEPT !.pipeline = Tail(@)]
           s == Fill(d, q)
<1>1. /\ c \in Remotes /\ c.state = "initial" /\ c.pipeline = r.pipeline
      /\ ~c.asks /\ ~c.idle
  BY ClosedType, ClosedTidy
<1> HIDE DEF c
<1>2. Tail(r.pipeline) \in Pipelines
  <2>1. r.pipeline \in Seq(Batch) /\ Len(r.pipeline) <= MaxPending /\ MaxPending \in Nat
    BY PipelineType, WriteStreamAssumption DEF Pipelines, WriteStreamAssumption
  <2>2. Tail(r.pipeline) \in Seq(Batch) /\ Len(Tail(r.pipeline)) = Len(r.pipeline) - 1
    BY <2>1, BatchesOfTail
  <2> QED
    BY <2>1, <2>2 DEF Pipelines
<1>3. d \in Remotes /\ d.state = "initial" /\ ~d.asks /\ ~d.idle
  BY <1>1, <1>2 DEF Remotes
<1> HIDE DEF d
<1>4. Tidy(d)
  BY <1>3 DEF Tidy
<1>5. s \in Remotes /\ s.state # "open"
  BY <1>3, FillType DEF IsStarted
<1>6. Needed(s)
  BY <1>3, <1>4, FillNeeded
<1> HIDE DEF s
<1>7. Needed(AfterClose(s))
  BY <1>5, <1>6, AfterCloseNeeded
<1> QED
  BY <1>7 DEF Rejected, s, d, c

LEMMA GracefullyQuiet ==
  ASSUME NEW r \in Remotes, Tidy(r)
  PROVE  LET g == Gracefully(r) IN ~g.idle /\ ~IsStarted(g) /\ g.pipeline = r.pipeline
<1> DEFINE c == Closed(r, "initial")
           a == AfterClose(c)
           g == Gracefully(r)
<1>1. CASE IsStarted(r)
  <2>1. g = a
    BY <1>1 DEF Gracefully
  <2>2. c \in Remotes /\ c.state = "initial" /\ c.pipeline = r.pipeline /\ ~c.idle
    BY ClosedType, ClosedTidy
  <2> HIDE DEF c
  <2>3. a.state = "initial" /\ a.pipeline = r.pipeline /\ ~a.idle
    BY <2>2 DEF AfterClose, Remotes
  <2> HIDE DEF a, g
  <2> QED
    BY <2>1, <2>3 DEF IsStarted, g
<1>2. CASE ~IsStarted(r)
  <2>1. g = r
    BY <1>2 DEF Gracefully
  <2>2. ~r.idle
    BY <1>2 DEF Tidy, IsStarted
  <2> HIDE DEF g
  <2> QED
    BY <1>2, <2>1, <2>2 DEF g
<1> QED
  BY <1>1, <1>2

LEMMA RestartNeeded ==
  ASSUME NEW r \in Remotes, ~r.asks, Tidy(r), NEW u, NEW W, Carries(r, u, W), NEW q \in Seq(Batch)
  PROVE  Needed(Restart(r, q))
<1> DEFINE g == Gracefully(r)
           e == [g EXCEPT !.pipeline = <<>>, !.state = "initial"]
<1>1. g \in Remotes /\ ~g.idle
  BY GracefullyCarries, GracefullyQuiet
<1> HIDE DEF g
<1>2. <<>> \in Pipelines
  BY WriteStreamAssumption DEF WriteStreamAssumption, Pipelines
<1>3. e \in Remotes /\ ~e.idle /\ e.state = "initial"
  BY <1>1, <1>2 DEF Remotes
<1> HIDE DEF e
<1>4. Needed(Fill(e, q))
  BY <1>3, FillNeeded DEF Tidy
<1> QED
  BY <1>4 DEF Restart, e, g

LEMMA BecomesNeeded ==
  ASSUME NEW s \in Remotes, Needed(s), Becomes(s)
  PROVE  Needed(remote')
<1>1. remote' = [s EXCEPT !.asks = FALSE]
  BY DEF Becomes
<1>2. /\ remote'.state = s.state /\ remote'.idle = s.idle /\ remote'.handshake = s.handshake
      /\ remote'.pipeline = s.pipeline
  BY <1>1 DEF Remotes
<1> QED
  BY <1>2 DEF Needed, Tidy, IsStarted

\* A stream without a call, and the same stream with other answers, is needed as before.
LEMMA NeededAlike ==
  ASSUME NEW r, NEW s, Needed(r), s.state = r.state, s.handshake = r.handshake,
         s.pipeline = r.pipeline, s.idle = r.idle
  PROVE  Needed(s)
  BY DEF Needed, Tidy, IsStarted

LEMMA NextKeepsNeeded ==
  ASSUME IInv, Needed(remote), [Next]_vars
  PROVE  Needed(remote)'
<1>1. /\ remote \in Remotes /\ ~remote.asks /\ Carries(remote, user, written) /\ user \in Anyone
      /\ \A u \in Anyone : queues[u] \in Seq(Batch)
      /\ Tidy(remote)
  BY StreamFacts DEF Needed
<1>2. CASE UNCHANGED remote
  BY <1>2
<1>3. CASE Launch
  <2> DEFINE q == Cleared[auth]
             s == Fill(Stopped, q)
  <2>1. remote' = [s EXCEPT !.asks = FALSE]
    BY <1>3 DEF Launch
  <2>2. q \in Seq(Batch)
    <3>1. auth \in Anyone /\ queues \in [Anyone -> Seq(Batch)]
      BY DEF IInv, Typed
    <3> QED
      BY <3>1 DEF Cleared
  <2> HIDE DEF q
  <2>3. Stopped \in Remotes /\ ~Stopped.asks /\ Tidy(Stopped)
    BY StoppedCarries DEF Stopped, Tidy
  <2>4. s \in Remotes /\ Needed(s)
    BY <2>2, <2>3, FillType, FillNeeded
  <2> HIDE DEF s
  <2>5. /\ remote'.state = s.state /\ remote'.idle = s.idle /\ remote'.handshake = s.handshake
        /\ remote'.pipeline = s.pipeline
    BY <2>1, <2>4 DEF Remotes
  <2> QED
    BY <2>4, <2>5, NeededAlike
<1>4. CASE Kill
  BY <1>4 DEF Kill, Stopped, Needed, Tidy
<1>5. CASE RunWrite
  <2> DEFINE b == [user |-> user, id |-> Cardinality(written) + 1]
             q == Append(queues[user], b)
  <2>1. Becomes(Fill(remote, q))
    BY <1>5 DEF RunWrite
  <2>2. q \in Seq(Batch)
    <3>1. Cardinality(written) \in Nat
      BY FS_CardinalityType DEF IInv, Typed
    <3>2. b \in Batch
      BY <1>1, <3>1 DEF Batch
    <3> QED
      BY <1>1, <3>2
  <2> HIDE DEF q
  <2> QED
    BY <1>1, <2>1, <2>2, FillType, FillNeeded, BecomesNeeded
<1>6. CASE RunChange
  <2> DEFINE v == Head(worker).user
  <2>1. Becomes(Restart(remote, queues[v]))
    BY <1>6 DEF RunChange
  <2>2. v \in Anyone
    <3>1. worker # <<>> /\ worker \in Seq(Tasks)
      BY <1>6 DEF RunChange, Task, IInv, Typed
    <3>2. Head(worker) \in Tasks
      BY <3>1
    <3> QED
      BY <3>2 DEF Tasks
  <2> HIDE DEF v
  <2>3. queues[v] \in Seq(Batch) /\ Owned(Batches(queues[v]), v, written)
    BY <2>2, StreamFacts
  <2>4. Restart(remote, queues[v]) \in Remotes
    BY <1>1, <2>3, RestartCarries
  <2>5. Needed(Restart(remote, queues[v]))
    BY <1>1, <2>3, RestartNeeded
  <2> QED
    BY <2>1, <2>4, <2>5, BecomesNeeded
<1>7. CASE RunResume
  <2> DEFINE t == Head(worker)
             s == IF Stale(t) THEN remote
                  ELSE IF t.kind = "token" THEN Opened(remote, t.user) ELSE Broken(remote)
  <2>1. Becomes(s)
    BY <1>7 DEF RunResume
  <2>2. CASE Stale(t)
    <3>1. s = remote
      BY <2>2
    <3> QED
      BY <1>1, <2>1, <3>1, BecomesNeeded
  <2>3. CASE ~Stale(t) /\ t.kind = "token"
    <3>1. /\ worker # <<>> /\ worker \in Seq(Tasks) /\ Tok(t, remote.closes)
      BY <1>7, <2>3 DEF RunResume, Task, IInv, Typed, Tok, Stale
    <3>2. remote.state = "starting" /\ t.user = user
      <4>1. /\ TokensWait(fetches, main, worker, remote)
            /\ WorkerFollows(provider.user, worker, user, remote)
        BY <3>1, Running
      <4>2. OnQueue(worker, remote.closes)
        BY <3>1, OnQueueTail
      <4>3. t.user = user
        BY <3>1, <4>1, WorkerTail
      <4> QED
        BY <4>1, <4>2, <4>3 DEF TokensWait, AnyFor
    <3>3. s = Opened(remote, user)
      BY <2>3, <3>2
    <3> HIDE DEF s, t
    <3>4. s \in Remotes
      BY <1>1, <3>2, <3>3, OpenedCarries
    <3>5. s.state = "open" /\ s.idle = remote.idle /\ s.pipeline = remote.pipeline
          /\ s.handshake = remote.handshake
      BY <1>1, <3>3 DEF Opened, Remotes
    <3>6. Needed(s)
      BY <3>2, <3>5 DEF Needed, Tidy, IsStarted
    <3> QED
      BY <2>1, <3>4, <3>6, BecomesNeeded
  <2>4. CASE ~Stale(t) /\ t.kind # "token"
    <3>1. s = Broken(remote)
      BY <2>4
    <3> HIDE DEF s
    <3>2. s \in Remotes /\ Needed(s)
      BY <1>1, <3>1, BrokenCarries, BrokenNeeded
    <3> QED
      BY <2>1, <3>2, BecomesNeeded
  <2> QED
    BY <2>2, <2>3, <2>4
<1>8. CASE BackoffElapses
  <2> DEFINE s == Start([remote EXCEPT !.state = "initial"])
  <2>1. remote.state = "backoff" /\ Becomes(s)
    BY <1>8 DEF BackoffElapses
  <2>2. s = [remote EXCEPT !.state = "starting", !.asks = TRUE]
    BY <1>1 DEF Start, Remotes
  <2> HIDE DEF s
  <2>3. s \in Remotes /\ s.state = "starting" /\ s.idle = remote.idle
        /\ s.pipeline = remote.pipeline /\ s.handshake = remote.handshake
    BY <1>1, <2>2 DEF Remotes
  <2>4. Needed(s)
    BY <2>1, <2>3 DEF Needed, Tidy, IsStarted
  <2> QED
    BY <2>1, <2>3, <2>4, BecomesNeeded
<1>9. CASE IdleElapses
  <2> DEFINE g == Gracefully(remote)
  <2>1. remote.idle /\ Becomes(g)
    BY <1>9 DEF IdleElapses
  <2>2. g \in Remotes /\ ~g.idle /\ ~IsStarted(g) /\ g.pipeline = remote.pipeline
    BY <1>1, GracefullyCarries, GracefullyQuiet
  <2> HIDE DEF g
  <2>3. Needed(g)
    BY <2>1, <2>2, <1>1 DEF Needed, Tidy, IsStarted
  <2> QED
    BY <2>1, <2>2, <2>3, BecomesNeeded
<1>10. CASE OnHandshakeComplete
  <2> DEFINE c == [remote.call EXCEPT !.replies = Tail(remote.call.replies)]
             r == [remote EXCEPT !.handshake = TRUE, !.call = c]
             s == Send(r, remote.pipeline)
  <2>1. remote.state = "open" /\ ~remote.handshake /\ remote.call.replies # <<>>
    BY <1>10, Talking DEF OnHandshakeComplete
  <2>2. Becomes(s)
    BY <1>1, <1>10 DEF OnHandshakeComplete, Remotes, Calls
  <2>3. c \in Calls
    <3>1. remote.call \in Calls /\ remote.call.replies \in Seq(Batch)
      BY <1>1 DEF Remotes, Calls
    <3>2. Tail(remote.call.replies) \in Seq(Batch)
      BY <2>1, <3>1
    <3> QED
      BY <3>1, <3>2 DEF Calls
  <2> HIDE DEF c
  <2>4. r \in Remotes /\ r.state = "open" /\ r.handshake /\ r.pipeline = remote.pipeline
    BY <1>1, <2>1, <2>3 DEF Remotes
  <2> HIDE DEF r
  <2>5. remote.pipeline \in Seq(Batch) /\ remote.pipeline # <<>>
    BY <1>1, <2>1, PipelineType DEF Tidy
  <2>6. s \in Remotes /\ s.state = r.state /\ s.handshake = r.handshake /\ s.pipeline = r.pipeline
    BY <2>4, <2>5, SendType
  <2> HIDE DEF s
  <2>7. Needed(s)
    BY <2>4, <2>5, <2>6 DEF Needed, Tidy, IsStarted, s, Send, Remotes
  <2> QED
    BY <2>2, <2>6, <2>7, BecomesNeeded
<1>11. CASE OnMutationResult
  <2> DEFINE q == Without(queues[user], Head(remote.pipeline))
             p == Tail(remote.pipeline)
             c == [remote.call EXCEPT !.replies = Tail(remote.call.replies)]
             r == [remote EXCEPT !.pipeline = p, !.call = c]
  <2>1. remote.call.replies # <<>> /\ remote.handshake
    BY <1>11 DEF OnMutationResult
  <2>2. remote.state = "open" /\ remote.pipeline # <<>>
    BY <2>1, Talking, HeadIsThere
  <2>3. Becomes(Fill(r, q))
    BY <1>1, <1>11 DEF OnMutationResult, Remotes, Calls
  <2>4. q \in Seq(Batch)
    BY <1>1, BatchesOfWithout
  <2>5. p \in Pipelines
    <3>1. /\ remote.pipeline \in Seq(Batch) /\ Len(remote.pipeline) <= MaxPending
          /\ MaxPending \in Nat
      BY <1>1, PipelineType, WriteStreamAssumption DEF Pipelines, WriteStreamAssumption
    <3>2. p \in Seq(Batch) /\ Len(p) = Len(remote.pipeline) - 1
      BY <2>2, <3>1, BatchesOfTail
    <3> QED
      BY <3>1, <3>2 DEF Pipelines
  <2>6. c \in Calls
    <3>1. remote.call \in Calls /\ remote.call.replies \in Seq(Batch)
      BY <1>1 DEF Remotes, Calls
    <3>2. Tail(remote.call.replies) \in Seq(Batch)
      BY <2>1, <3>1
    <3> QED
      BY <3>1, <3>2 DEF Calls
  <2> HIDE DEF p, c, q
  <2>7. /\ r \in Remotes /\ ~r.asks /\ r.state = "open" /\ r.handshake /\ r.idle = remote.idle
    BY <1>1, <2>1, <2>2, <2>5, <2>6 DEF Remotes
  <2> HIDE DEF r
  <2>8. Tidy(r)
    BY <1>1, <2>2, <2>7 DEF Tidy
  <2> QED
    BY <2>3, <2>4, <2>7, <2>8, FillType, FillNeeded, BecomesNeeded
<1>12. CASE OnRefused
  <2> DEFINE q == Without(queues[user], Head(remote.pipeline))
  <2>1. Becomes(Rejected(remote, q)) /\ remote.pipeline # <<>>
    BY <1>12, HeadIsThere DEF OnRefused
  <2>2. q \in Seq(Batch) /\ Owned(Batches(q), user, written)
    <3>1. q \in Seq(Batch) /\ Batches(q) \subseteq Batches(queues[user])
      BY <1>1, BatchesOfWithout
    <3> QED
      BY <1>1, <3>1, StreamFacts DEF Owned
  <2> HIDE DEF q
  <2>3. Rejected(remote, q) \in Remotes
    BY <1>1, <2>1, <2>2, RejectedCarries
  <2>4. Needed(Rejected(remote, q))
    BY <1>1, <2>1, <2>2, RejectedNeeded
  <2> QED
    BY <2>1, <2>3, <2>4, BecomesNeeded
<1>13. CASE OnBroken
  <2>1. Becomes(Broken(remote))
    BY <1>13 DEF OnBroken
  <2> QED
    BY <1>1, <2>1, BrokenCarries, BrokenNeeded, BecomesNeeded
<1>14. CASE OnConnectivityChange
  <2>1. Becomes(Restart(remote, queues[user]))
    BY <1>14 DEF OnConnectivityChange
  <2>2. queues[user] \in Seq(Batch) /\ Owned(Batches(queues[user]), user, written)
    BY <1>1, StreamFacts
  <2>3. Restart(remote, queues[user]) \in Remotes
    BY <1>1, <2>2, RestartCarries
  <2>4. Needed(Restart(remote, queues[user]))
    BY <1>1, <2>2, RestartNeeded
  <2> QED
    BY <2>1, <2>3, <2>4, BecomesNeeded
<1>15. CASE BackendReads
  <2> DEFINE m == Head(remote.call.sent)
             c == [remote.call EXCEPT !.sent = Tail(@), !.replies = Append(remote.call.replies, m)]
             d == [remote.call EXCEPT !.sent = Tail(@), !.ended = TRUE]
  <2>1. remote' = [remote EXCEPT !.call = c] \/ remote' = [remote EXCEPT !.call = d]
    BY <1>1, <1>15 DEF BackendReads, Remotes, Calls
  <2> HIDE DEF c, d
  <2>2. /\ remote'.state = remote.state /\ remote'.idle = remote.idle
        /\ remote'.handshake = remote.handshake /\ remote'.pipeline = remote.pipeline
    BY <1>1, <2>1 DEF Remotes
  <2> QED
    BY <2>2, NeededAlike
<1>16. CASE \/ Auth \/ DeliverNotify \/ DeliverToken \/ AppWrites \/ UNCHANGED vars
            \/ \E o \in late : LateArrives(o)
  BY <1>2, <1>16 DEF Auth, AuthChanges, AuthReads, AuthAnswers, AuthFails, DeliverNotify,
     DeliverToken, AppWrites, LateArrives, vars, client
<1> QED
  BY <1>3, <1>4, <1>5, <1>6, <1>7, <1>8, <1>9, <1>10, <1>11, <1>12, <1>13, <1>14, <1>15, <1>16
     DEF Next, MainThread, Worker, Timer, Stream, Backend

\* AssertionsHold of WriteStream: none of the hard assertions of the stream and of the
\* remote store, which end the process in a release build too, ever fails.
THEOREM NeverAborts == Spec => []AssertionsHold
<1>1. Init => Needed(remote)
  BY DEF Init, Stopped, Needed, Tidy
<1>2. IInv /\ Needed(remote) /\ [Next]_vars => Needed(remote)'
  BY NextKeepsNeeded
<1>3. IInv /\ Needed(remote) => AssertionsHold
  <2> SUFFICES ASSUME IInv, Needed(remote) PROVE AssertionsHold
    OBVIOUS
  <2>1. worker # <<>> /\ Head(worker).kind \in {"token", "error"} /\ ~Stale(Head(worker)) =>
          remote.state = "starting"
    <3> SUFFICES ASSUME worker # <<>>, Head(worker).kind \in {"token", "error"}, ~Stale(Head(worker))
                 PROVE  remote.state = "starting"
      OBVIOUS
    <3>1. Tok(Head(worker), remote.closes)
      BY DEF Stale, Tok
    <3>2. OnQueue(worker, remote.closes)
      BY <3>1, OnQueueTail DEF IInv, Typed
    <3> QED
      BY <3>2, Running DEF TokensWait, AnyFor
  <2>2. remote.handshake /\ Out(remote.call) # <<>> => remote.pipeline # <<>>
    <3> SUFFICES ASSUME remote.handshake, Out(remote.call) # <<>> PROVE remote.pipeline # <<>>
      OBVIOUS
    <3>1. /\ remote.call.replies \in Seq(Batch) /\ remote.call.sent \in Seq(Batch)
          /\ remote.pipeline \in Seq(Batch) /\ Unanswered(remote) = Len(remote.pipeline)
      <4>1. remote \in Remotes /\ Carries(remote, user, written)
        BY StreamFacts
      <4>2. remote.call \in Calls /\ remote.pipeline \in Seq(Batch)
        BY <4>1, PipelineType
      <4>3. remote.call.replies \in Seq(Batch) /\ remote.call.sent \in Seq(Batch)
        BY <4>2 DEF Calls
      <4>4. Unanswered(remote) = Len(remote.pipeline)
        BY <4>1 DEF Carries
      <4> QED
        BY <4>2, <4>3, <4>4
    <3>2. Len(remote.call.replies) # 0 \/ Len(remote.call.sent) # 0
      BY <3>1 DEF Out
    <3> DEFINE l == Len(remote.call.replies)
               n == Len(remote.call.sent)
               e == IF remote.call.ended THEN 1 ELSE 0
    <3>3. l \in Nat /\ n \in Nat /\ e \in Nat /\ (l # 0 \/ n # 0)
      BY <3>1, <3>2
    <3>4. Len(remote.pipeline) = l + n + e
      BY <3>1 DEF Unanswered
    <3> HIDE DEF l, n, e
    <3>5. l + n + e # 0
      BY <3>3
    <3> QED
      BY <3>4, <3>5
  <2> QED
    BY <2>1, <2>2 DEF AssertionsHold, Needed, Tidy
<1> QED
  BY <1>1, <1>2, <1>3, Inductive, PTL DEF Spec

=============================================================================
