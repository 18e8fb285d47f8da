----------------------- MODULE WriteStreamOutboxProofs -----------------------
(***************************************************************************)
(* What becomes of a write, for any users, any bounds and any number of    *)
(* changes of user and failures: an open call carries the pipeline, which  *)
(* is the front of the user's queue, so that an answer without a batch is  *)
(* taken for the right one; a batch leaves its queue with its verdict      *)
(* only; and the streams implement the outboxes of Outbox.                 *)
(***************************************************************************)
EXTENDS WriteStreamProofs, FunctionTheorems

\* The ids of a queue grow.
Sorted(q) == \A i, j \in DOMAIN q : i < j => q[i].id < q[j].id

\* The pipeline p is the front of the queue q.
Fronts(p, q) == Len(p) <= Len(q) /\ \A k \in DOMAIN p : p[k] = q[k]

\* What the backend has taken, as batches.
Logged(l) == {l[k].batch : k \in DOMAIN l}

\* The one write that a call has failed with.
Gap(c) == IF c.ended THEN 1 ELSE 0

\* The replies of a ready stream r are for the front of its pipeline, and taken;
\* then comes the refused batch, if there is one; the rest is still to be read.
Matches(r, L, R) ==
  /\ r.state = "open" /\ ~r.handshake => Batches(r.call.replies) \subseteq {Handshake}
  /\ r.handshake =>
       /\ \A k \in DOMAIN r.call.replies :
            r.call.replies[k] = r.pipeline[k] /\ r.pipeline[k] \in L
       /\ \A k \in DOMAIN r.call.sent :
            r.call.sent[k] = r.pipeline[Len(r.call.replies) + Gap(r.call) + k]
       /\ r.call.ended => r.pipeline[Len(r.call.replies) + 1] \in R

\* Ids are drawn in order, from the bounded supply.
Numbered(W) == \A b \in W : b.id \in 1..Cardinality(W)

\* The requests s of a closed call reach the backend in the order of the queue q
\* they came from: what is before one of them in q is taken, or before it in s.
InOrder(s, q, L) ==
  \A k \in DOMAIN s : \A j \in DOMAIN q :
    q[j].id < s[k].id => q[j] \in L \/ \E i \in DOMAIN s : i < k /\ s[i] = q[j]

OutboxInv ==
  /\ Numbered(written)
  /\ Cardinality(written) + Pending("write") <= MaxWrites
  /\ \A u \in Anyone : Sorted(queues[u])
  /\ Fronts(remote.pipeline, queues[user])
  /\ Matches(remote, Logged(log), refusals)
  /\ \A o \in late : InOrder(o.sent, queues[o.token], Logged(log))

-----------------------------------------------------------------------------
(* Queues and their fronts.                                                *)

\* The tail of a sequence is the sequence, one place on.
LEMMA TailIsShift ==
  ASSUME NEW S, NEW s \in Seq(S), s # <<>>
  PROVE  /\ Tail(s) \in Seq(S) /\ Len(Tail(s)) = Len(s) - 1 /\ Len(s) \in Nat \ {0}
         /\ DOMAIN s = 1..Len(s) /\ DOMAIN Tail(s) = 1..(Len(s) - 1)
         /\ \A k \in 1..(Len(s) - 1) : Tail(s)[k] = s[k + 1]
         /\ Head(s) = s[1]
  OBVIOUS

\* A sequence with one more element.
LEMMA AppendAdds ==
  ASSUME NEW S, NEW s \in Seq(S), NEW t \in S
  PROVE  /\ Append(s, t) \in Seq(S) /\ Len(Append(s, t)) = Len(s) + 1 /\ Len(s) \in Nat
         /\ DOMAIN s = 1..Len(s) /\ DOMAIN Append(s, t) = 1..(Len(s) + 1)
         /\ \A k \in 1..Len(s) : Append(s, t)[k] = s[k]
         /\ Append(s, t)[Len(s) + 1] = t
  OBVIOUS

\* A sequence followed by another.
LEMMA JoinAdds ==
  ASSUME NEW S, NEW s \in Seq(S), NEW t \in Seq(S)
  PROVE  /\ s \o t \in Seq(S) /\ Len(s \o t) = Len(s) + Len(t)
         /\ DOMAIN (s \o t) = 1..(Len(s) + Len(t))
         /\ \A k \in 1..Len(s) : (s \o t)[k] = s[k]
         /\ \A k \in 1..Len(t) : (s \o t)[Len(s) + k] = t[k]
  OBVIOUS

\* The same, for a name of the joined sequence.
LEMMA JoinIs ==
  ASSUME NEW S, NEW s \in Seq(S), NEW t \in Seq(S), NEW w, w = s \o t
  PROVE  /\ w \in Seq(S) /\ Len(w) = Len(s) + Len(t)
         /\ DOMAIN w = 1..(Len(s) + Len(t))
         /\ \A k \in 1..Len(s) : w[k] = s[k]
         /\ \A k \in 1..Len(t) : w[Len(s) + k] = t[k]
  BY JoinAdds

\* A sequence of no length adds nothing.
LEMMA JoinNothing ==
  ASSUME NEW S, NEW s \in Seq(S), NEW t \in Seq(S), Len(t) = 0
  PROVE  t = <<>> /\ s \o t = s
<1>1. t = <<>>
  OBVIOUS
<1> QED
  BY <1>1

\* Nor does an empty one in front.
LEMMA NothingJoins ==
  ASSUME NEW S, NEW s \in Seq(S)
  PROVE  <<>> \o s = s
  OBVIOUS

\* One element has no tail.
LEMMA TailOfOne ==
  ASSUME NEW S, NEW s \in Seq(S), Len(s) = 1
  PROVE  Tail(s) = <<>>
<1>1. Tail(s) \in Seq(S) /\ Len(Tail(s)) = 0
  OBVIOUS
<1> QED
  BY <1>1, EmptySeq

\* A sorted queue holds a batch once.
LEMMA SortedIsOnce ==
  ASSUME NEW q \in Seq(Batch), Sorted(q), NEW i \in DOMAIN q, NEW j \in DOMAIN q
  PROVE  /\ q[i].id <= q[j].id <=> i <= j
         /\ q[i].id < q[j].id <=> i < j
<1>1. /\ i \in Nat /\ j \in Nat /\ q[i] \in Batch /\ q[j] \in Batch
  OBVIOUS
<1>2. q[i].id \in Nat /\ q[j].id \in Nat
  BY <1>1 DEF Batch
<1>3. (i < j => q[i].id < q[j].id) /\ (j < i => q[j].id < q[i].id)
  BY DEF Sorted
<1>4. i = j => q[i].id = q[j].id
  OBVIOUS
<1> QED
  BY <1>1, <1>2, <1>3, <1>4

\* The pipeline is filled up with the batches that follow it in the queue.
LEMMA FollowingFollows ==
  ASSUME NEW p \in Pipelines, NEW q \in Seq(Batch), Sorted(q), Fronts(p, q)
  PROVE  Following(p, q) \in Seq(Batch) /\ Fronts(p \o Following(p, q), q)
<1> DEFINE K == {k \in DOMAIN q : q[k].id <= Last(p).id}
           known == IF p = <<>> THEN 0 ELSE Cardinality(K)
           room == MaxPending - Len(p)
           n == Min({Len(q), known + room})
           more == SubSeq(q, known + 1, n)
<1>1. Following(p, q) = more
  BY DEF Following
<1>2. p \in Seq(Batch) /\ room \in Nat /\ Len(p) \in Nat /\ Len(q) \in Nat /\ Len(p) <= Len(q)
  BY WriteStreamAssumption DEF WriteStreamAssumption, Pipelines, Fronts
<1>3. known = Len(p)
  <2>1. CASE p = <<>>
    BY <2>1
  <2>2. CASE p # <<>>
    <3>1. Len(p) \in DOMAIN p /\ Len(p) \in DOMAIN q /\ Last(p) = p[Len(p)]
      BY <1>2, <2>2 DEF Last
    <3>2. Last(p) = q[Len(p)]
      BY <3>1 DEF Fronts
    <3>3. \A k \in DOMAIN q : q[k].id <= Last(p).id <=> k <= Len(p)
      BY <3>1, <3>2, SortedIsOnce
    <3>4. K = 1..Len(p)
      BY <1>2, <3>3
    <3>5. Cardinality(1..Len(p)) = Len(p)
      <4>1. Len(p) \in Nat \ {0} /\ 1 \in Int /\ Len(p) \in Int
        BY <1>2, <2>2
      <4>2. Cardinality(1..Len(p)) = IF 1 > Len(p) THEN 0 ELSE Len(p) - 1 + 1
        BY <4>1, FS_Interval
      <4> QED
        BY <4>1, <4>2
    <3> QED
      BY <2>2, <3>4, <3>5
  <2> QED
    BY <2>1, <2>2
<1> HIDE DEF known, room
<1>4. n \in Int /\ n <= Len(q)
  <2>1. \E x \in {Len(q), known + room} : \A y \in {Len(q), known + room} : x <= y
    BY <1>2, <1>3
  <2>2. n \in {Len(q), known + room} /\ \A y \in {Len(q), known + room} : n <= y
    BY <2>1 DEF Min
  <2> QED
    BY <1>2, <1>3, <2>2
<1> HIDE DEF n
<1>5. /\ more \in Seq(Batch) /\ Len(p) + Len(more) <= Len(q) /\ Len(more) \in Nat
      /\ \A k \in 1..Len(more) : more[k] = q[Len(p) + k]
  BY <1>2, <1>3, <1>4
<1> HIDE DEF more
<1>6. Fronts(p \o more, q)
  <2> DEFINE j == p \o more
  <2>1. /\ Len(j) = Len(p) + Len(more) /\ DOMAIN j = 1..(Len(p) + Len(more))
        /\ \A k \in 1..Len(p) : j[k] = p[k]
        /\ \A k \in 1..Len(more) : j[Len(p) + k] = more[k]
    BY <1>2, <1>5, JoinAdds
  <2> HIDE DEF j
  <2>2. ASSUME NEW k \in DOMAIN j PROVE j[k] = q[k]
    <3>1. CASE k <= Len(p)
      BY <1>2, <2>1, <3>1 DEF Fronts
    <3>2. CASE ~(k <= Len(p))
      <4>1. k - Len(p) \in 1..Len(more) /\ Len(p) + (k - Len(p)) = k
        BY <1>2, <1>5, <2>1, <3>2
      <4> QED
        BY <1>5, <2>1, <4>1
    <3> QED
      BY <3>1, <3>2
  <2> QED
    BY <1>5, <2>1, <2>2 DEF Fronts, j
<1> QED
  BY <1>1, <1>5, <1>6

-----------------------------------------------------------------------------
(* The operators of the stream.                                            *)

\* A ready stream sends all of what it adds to the pipeline, in that order.
LEMMA FillSends ==
  ASSUME NEW r \in Remotes, ~r.asks, NEW q \in Seq(Batch)
  PROVE  LET more == Following(r.pipeline, q)
             s == Fill(r, q)
         IN /\ s.pipeline = r.pipeline \o more
            /\ s.call.sent = IF r.state = "open" /\ r.handshake THEN r.call.sent \o more
                                                               ELSE r.call.sent
<1> DEFINE more == Following(r.pipeline, q)
           p == r.pipeline \o more
           full == [r EXCEPT !.pipeline = p]
           ready == r.state = "open" /\ r.handshake
           x == r.call.sent \o more
           sent == Send(full, more)
           i == full.idle \/ (r.state = "open" /\ full.pipeline = <<>>)
           g == IF ready
                  THEN IF full.pipeline = <<>> THEN [full EXCEPT !.idle = TRUE] ELSE sent
                  ELSE [full EXCEPT !.idle = i]
<1>1. Fill(r, q) = StartIfNeeded(g)
  BY DEF Fill
<1>2. /\ more \in Seq(Batch) /\ p \in Pipelines /\ r.call.sent \in Seq(Batch)
      /\ r.pipeline \in Seq(Batch) /\ r.call \in Calls
  BY PipelineType, FollowingFits DEF Calls
<1>3. p = <<>> => more = <<>> /\ x = r.call.sent
  <2>1. Len(p) = Len(r.pipeline) + Len(more) /\ Len(r.pipeline) \in Nat /\ Len(more) \in Nat
    BY <1>2, JoinAdds
  <2>2. p = <<>> => Len(more) = 0
    BY <2>1
  <2>3. Len(more) = 0 => more = <<>> /\ x = r.call.sent
    BY <1>2, JoinNothing
  <2> QED
    BY <2>2, <2>3
<1>4. x \in Seq(Batch)
  BY <1>2
<1> HIDE DEF more, p
<1>5. /\ full \in Remotes /\ ~full.asks /\ full.pipeline = p /\ full.call = r.call
      /\ full.state = r.state
  BY <1>2 DEF Remotes
<1> HIDE DEF full
<1>6. /\ g \in Remotes /\ ~g.asks /\ g.pipeline = p
      /\ g.call.sent = IF ready THEN x ELSE r.call.sent
  <2>1. CASE ready /\ p = <<>>
    <3>1. g = [full EXCEPT !.idle = TRUE]
      BY <1>5, <2>1
    <3> HIDE DEF g, x
    <3>2. g \in Remotes /\ ~g.asks /\ g.pipeline = p /\ g.call = r.call
      BY <1>5, <3>1 DEF Remotes
    <3> QED
      BY <1>3, <2>1, <3>2
  <2>2. CASE ready /\ p # <<>>
    <3>1. g = sent
      BY <1>5, <2>2
    <3>2. sent \in Remotes /\ sent.pipeline = full.pipeline /\ sent.asks = full.asks
      BY <1>2, <1>5, SendType
    <3>3. sent.call.sent = x
      <4>1. CASE more = <<>>
        <5>1. sent = full
          BY <4>1 DEF Send
        <5>2. x = r.call.sent
          BY <1>2, <4>1
        <5> QED
          BY <1>5, <5>1, <5>2
      <4>2. CASE more # <<>>
        <5>1. full.call.sent \o more = x
          BY <1>5
        <5>2. sent = [full EXCEPT !.idle = FALSE, !.call.sent = full.call.sent \o more]
          BY <4>2 DEF Send
        <5> HIDE DEF x, sent
        <5> QED
          BY <1>2, <1>5, <5>1, <5>2 DEF Remotes, Calls
      <4> QED
        BY <4>1, <4>2
    <3> HIDE DEF g, sent, x
    <3> QED
      BY <1>5, <2>2, <3>1, <3>2, <3>3
  <2>3. CASE ~ready
    <3>1. g = [full EXCEPT !.idle = i]
      BY <2>3
    <3>2. i \in BOOLEAN
      BY <1>5 DEF Remotes
    <3> HIDE DEF g, i, x
    <3>3. g \in Remotes /\ ~g.asks /\ g.pipeline = p /\ g.call = r.call
      BY <1>5, <3>1, <3>2 DEF Remotes
    <3> QED
      BY <2>3, <3>3
  <2> QED
    BY <2>1, <2>2, <2>3
<1> HIDE DEF g
<1>7. StartIfNeeded(g).pipeline = g.pipeline /\ StartIfNeeded(g).call = g.call
  BY <1>6, StartIfNeededType
<1> QED
  BY <1>1, <1>6, <1>7 DEF p, x, more

\* So it keeps the front of the queue, and the order of the answers.
LEMMA FillMatches ==
  ASSUME NEW r \in Remotes, ~r.asks, NEW u, NEW W, Carries(r, u, W), NEW L, NEW R,
         NEW q \in Seq(Batch), Sorted(q), Fronts(r.pipeline, q), Matches(r, L, R)
  PROVE  Fronts(Fill(r, q).pipeline, q) /\ Matches(Fill(r, q), L, R)
<1> DEFINE more == Following(r.pipeline, q)
           s == Fill(r, q)
           ready == r.state = "open" /\ r.handshake
<1>1. /\ s.handshake = r.handshake /\ s.call.replies = r.call.replies
      /\ s.call.ended = r.call.ended
      /\ ~ready => s.call = r.call
      /\ IsStarted(r) => s.state = r.state
      /\ ~IsStarted(r) => s.state # "open"
  BY FillType
<1>2. /\ s.pipeline = r.pipeline \o more
      /\ s.call.sent = IF ready THEN r.call.sent \o more ELSE r.call.sent
  BY FillSends
<1> HIDE DEF s
<1>3. /\ r.pipeline \in Seq(Batch) /\ r.pipeline \in Pipelines
      /\ r.call.sent \in Seq(Batch) /\ r.call.replies \in Seq(Batch)
  BY PipelineType DEF Calls
<1>4. more \in Seq(Batch) /\ Fronts(r.pipeline \o more, q)
  BY <1>3, FollowingFollows
<1> HIDE DEF more
<1>5. s.state = "open" /\ ~s.handshake => Batches(s.call.replies) \subseteq {Handshake}
  BY <1>1 DEF Matches, IsStarted
<1>6. ASSUME r.handshake
      PROVE  /\ \A k \in DOMAIN s.call.replies : s.call.replies[k] = s.pipeline[k] /\ s.pipeline[k] \in L
             /\ \A k \in DOMAIN s.call.sent :
                  s.call.sent[k] = s.pipeline[Len(s.call.replies) + Gap(s.call) + k]
             /\ s.call.ended => s.pipeline[Len(s.call.replies) + 1] \in R
  <2> DEFINE n == Len(r.call.replies)
             g == Gap(r.call)
             l == Len(r.call.sent)
             p == r.pipeline
             o == Len(more)
             j == p \o more
             x == r.call.sent \o more
  <2>1. /\ n \in Nat /\ g \in Nat /\ l \in Nat /\ o \in Nat /\ Len(p) = n + l + g
        /\ r.call.ended => g = 1
    <3>1. Unanswered(r) = Len(p)
      BY <1>6 DEF Carries
    <3>2. Unanswered(r) = n + l + g
      BY DEF Unanswered, Gap
    <3>3. n \in Nat /\ l \in Nat /\ g \in Nat /\ o \in Nat /\ (r.call.ended => g = 1)
      BY <1>3, <1>4 DEF Gap
    <3> QED
      BY <3>1, <3>2, <3>3
  <2>2. /\ DOMAIN p = 1..Len(p) /\ DOMAIN r.call.replies = 1..n
        /\ DOMAIN r.call.sent = 1..l /\ DOMAIN x = 1..(l + o)
        /\ \A k \in 1..l : x[k] = r.call.sent[k]
        /\ \A k \in 1..o : x[l + k] = more[k]
        /\ \A k \in 1..Len(p) : j[k] = p[k]
        /\ \A k \in 1..o : j[Len(p) + k] = more[k]
    BY <1>3, <1>4, JoinAdds
  <2>3. s.pipeline = j /\ s.call.sent = x /\ Len(s.call.replies) = n /\ Gap(s.call) = g
        /\ s.call.replies = r.call.replies /\ s.call.ended = r.call.ended
    <3>1. r.state = "open"
      BY <1>6 DEF Carries
    <3>2. ready
      BY <1>6, <3>1
    <3> QED
      BY <1>1, <1>2, <3>2 DEF Gap
  <2>4. /\ \A k \in 1..n : r.call.replies[k] = p[k] /\ p[k] \in L
        /\ \A k \in 1..l : r.call.sent[k] = p[n + g + k]
        /\ r.call.ended => p[n + 1] \in R
    BY <1>6, <2>2 DEF Matches
  <2> HIDE DEF n, g, l, p, o, j, x
  <2>5. ASSUME NEW k \in 1..(l + o) PROVE x[k] = j[n + g + k]
    <3>1. CASE k <= l
      <4>1. n + g + k \in 1..Len(p) /\ k \in 1..l
        BY <2>1, <3>1
      <4> QED
        BY <2>2, <2>4, <4>1
    <3>2. CASE ~(k <= l)
      <4>1. k - l \in 1..o /\ l + (k - l) = k /\ Len(p) + (k - l) = n + g + k
        BY <2>1, <3>2
      <4>2. x[l + (k - l)] = more[k - l] /\ j[Len(p) + (k - l)] = more[k - l]
        BY <2>2, <4>1
      <4> QED
        BY <4>1, <4>2
    <3> QED
      BY <3>1, <3>2
  <2>6. \A k \in 1..n : k \in 1..Len(p)
    BY <2>1
  <2>7. r.call.ended => n + 1 \in 1..Len(p)
    BY <2>1
  <2> QED
    BY <2>2, <2>3, <2>4, <2>5, <2>6, <2>7
<1>7. s.handshake => r.handshake
  BY <1>1
<1>8. Matches(s, L, R)
  BY <1>5, <1>6, <1>7 DEF Matches
<1> QED
  BY <1>2, <1>4, <1>8 DEF s

\* A stream without a call matches anything.
LEMMA SilentMatches ==
  ASSUME NEW r, NEW L, NEW R, r.state # "open", ~r.handshake
  PROVE  Matches(r, L, R)
  BY DEF Matches

\* The tails of a queue and of its front.
LEMMA FrontOfTail ==
  ASSUME NEW p \in Seq(Batch), p # <<>>, NEW q \in Seq(Batch), Fronts(p, q)
  PROVE  q # <<>> /\ Head(q) = Head(p) /\ Fronts(Tail(p), Tail(q))
<1>1. q # <<>>
  BY DEF Fronts
<1>2. /\ Len(Tail(p)) = Len(p) - 1 /\ Len(p) \in Nat \ {0}
      /\ DOMAIN p = 1..Len(p) /\ DOMAIN Tail(p) = 1..(Len(p) - 1)
      /\ \A k \in 1..(Len(p) - 1) : Tail(p)[k] = p[k + 1]
      /\ Head(p) = p[1]
  BY TailIsShift
<1>3. /\ Len(Tail(q)) = Len(q) - 1 /\ Len(q) \in Nat \ {0}
      /\ \A k \in 1..(Len(q) - 1) : Tail(q)[k] = q[k + 1]
      /\ Head(q) = q[1]
  BY <1>1, TailIsShift
<1> DEFINE tp == Tail(p)  tq == Tail(q)
<1> HIDE DEF tp, tq
<1>4. Len(tp) <= Len(tq) /\ \A k \in DOMAIN tp : tp[k] = tq[k]
  BY <1>2, <1>3 DEF Fronts, tp, tq
<1> QED
  BY <1>1, <1>2, <1>3, <1>4 DEF Fronts, tp, tq

\* The tail of a sorted queue is sorted, and so is the queue with a newer batch.
LEMMA SortedKept ==
  ASSUME NEW q \in Seq(Batch), Sorted(q)
  PROVE  /\ q # <<>> => Sorted(Tail(q))
         /\ \A b \in Batch : (\A k \in DOMAIN q : q[k].id < b.id) => Sorted(Append(q, b))
<1>1. ASSUME q # <<>> PROVE Sorted(Tail(q))
  <2> DEFINE t == Tail(q)
  <2>1. /\ Len(q) \in Nat \ {0} /\ DOMAIN q = 1..Len(q) /\ DOMAIN t = 1..(Len(q) - 1)
        /\ \A k \in 1..(Len(q) - 1) : t[k] = q[k + 1]
    BY <1>1, TailIsShift
  <2> HIDE DEF t
  <2>2. ASSUME NEW i \in DOMAIN t, NEW j \in DOMAIN t, i < j PROVE t[i].id < t[j].id
    <3>1. i + 1 \in DOMAIN q /\ j + 1 \in DOMAIN q /\ i + 1 < j + 1
      BY <2>1, <2>2
    <3>2. q[i + 1].id < q[j + 1].id
      BY <3>1 DEF Sorted
    <3> QED
      BY <2>1, <3>2
  <2> QED
    BY <2>2 DEF Sorted, t
<1>2. ASSUME NEW b \in Batch, \A k \in DOMAIN q : q[k].id < b.id PROVE Sorted(Append(q, b))
  <2> DEFINE t == Append(q, b)
  <2>1. /\ Len(q) \in Nat /\ DOMAIN q = 1..Len(q) /\ DOMAIN t = 1..(Len(q) + 1)
        /\ \A k \in 1..Len(q) : t[k] = q[k]
        /\ t[Len(q) + 1] = b
    BY AppendAdds
  <2> HIDE DEF t
  <2>2. ASSUME NEW i \in DOMAIN t, NEW j \in DOMAIN t, i < j PROVE t[i].id < t[j].id
    <3>1. i \in 1..Len(q) /\ (j \in 1..Len(q) \/ j = Len(q) + 1)
      BY <2>1, <2>2
    <3>2. CASE j \in 1..Len(q)
      BY <2>1, <2>2, <3>1, <3>2 DEF Sorted
    <3>3. CASE j = Len(q) + 1
      BY <1>2, <2>1, <3>1, <3>3
    <3> QED
      BY <3>1, <3>2, <3>3
  <2> QED
    BY <2>2 DEF Sorted, t
<1> QED
  BY <1>1, <1>2

\* The batch a verdict is taken for is the head of the queue, and leaves it.
LEMMA WithoutHead ==
  ASSUME NEW q \in Seq(Batch), q # <<>>, Sorted(q)
  PROVE  Without(q, Head(q)) = Tail(q)
<1> DEFINE b == Head(q)
           j == CHOOSE k \in DOMAIN q : q[k] = b
<1>1. 1 \in DOMAIN q /\ q[1] = b
  OBVIOUS
<1>2. j \in DOMAIN q /\ q[j] = b
  BY <1>1
<1> HIDE DEF j
<1>3. j = 1
  <2>1. q[j].id <= q[1].id /\ q[1].id <= q[j].id
    <3>1. b \in Batch
      BY <1>1
    <3>2. b.id \in Nat
      BY <3>1 DEF Batch
    <3> QED
      BY <1>1, <1>2, <3>2
  <2>2. j <= 1 /\ 1 <= j
    BY <1>1, <1>2, <2>1, SortedIsOnce
  <2>3. j \in Nat
    BY <1>2
  <2> QED
    BY <2>2, <2>3
<1>4. Without(q, b) = RemoveAt(q, j)
  BY <1>1 DEF Without, j
<1>5. RemoveAt(q, 1) = Tail(q)
  BY DEF RemoveAt
<1> QED
  BY <1>3, <1>4, <1>5

\* What the stream does to the pipeline, in short.
Fits(r, q, L, R) == Fronts(r.pipeline, q) /\ Matches(r, L, R)

\* A closed stream fits the queue as long as its pipeline does.
LEMMA AfterCloseFits ==
  ASSUME NEW s \in Remotes, s.state # "open", NEW q, NEW L, NEW R, Fronts(s.pipeline, q)
  PROVE  Fits(AfterClose(s), q, L, R)
<1> DEFINE c == AfterClose(s)
<1>1. c.state = s.state /\ c.pipeline = s.pipeline /\ ~c.handshake
  BY DEF AfterClose, Remotes
<1> HIDE DEF c
<1>2. Matches(c, L, R)
  BY <1>1, SilentMatches
<1> QED
  BY <1>1, <1>2 DEF Fits, c

\* A broken stream keeps its pipeline.
LEMMA BrokenFits ==
  ASSUME NEW r \in Remotes, ~r.asks, NEW q, NEW L, NEW R, Fits(r, q, L, R)
  PROVE  Fits(Broken(r), q, L, R)
<1> DEFINE c == Closed(r, "error")
           s == StartIfNeeded(c)
<1>1. c \in Remotes /\ c.state = "error" /\ c.pipeline = r.pipeline /\ ~c.asks
  BY ClosedType
<1> HIDE DEF c
<1>2. s \in Remotes /\ s.pipeline = r.pipeline /\ s.state # "open"
  BY <1>1, StartIfNeededType DEF IsStarted
<1> HIDE DEF s
<1>3. Fits(AfterClose(s), q, L, R)
  BY <1>2, AfterCloseFits DEF Fits
<1> QED
  BY <1>3 DEF Broken, c, s

\* One whose first write was refused drops it, with the queue.
LEMMA RejectedFits ==
  ASSUME NEW r \in Remotes, ~r.asks, r.pipeline # <<>>, NEW u, NEW W, Carries(r, u, W),
         NEW q \in Seq(Batch), Sorted(q), Fronts(r.pipeline, q), NEW L, NEW R
  PROVE  Fits(Rejected(r, Tail(q)), Tail(q), L, R)
<1> DEFINE c == [Closed(r, "initial") EXCEPT !.pipeline = Tail(r.pipeline)]
           s == Fill(c, Tail(q))
<1>1. /\ r.pipeline \in Seq(Batch) /\ Len(r.pipeline) <= MaxPending /\ MaxPending \in Nat
  BY PipelineType, WriteStreamAssumption DEF Pipelines, WriteStreamAssumption
<1>2. /\ q # <<>> /\ Tail(q) \in Seq(Batch) /\ Sorted(Tail(q))
      /\ Fronts(Tail(r.pipeline), Tail(q))
  BY <1>1, FrontOfTail, SortedKept, TailIsShift
<1>3. Tail(r.pipeline) \in Pipelines
  <2>1. Tail(r.pipeline) \in Seq(Batch) /\ Len(Tail(r.pipeline)) = Len(r.pipeline) - 1
    BY <1>1, TailIsShift
  <2> QED
    BY <1>1, <2>1 DEF Pipelines
<1>4. /\ Closed(r, "initial") \in Remotes /\ Closed(r, "initial").state = "initial"
      /\ Closed(r, "initial").call = NoCall /\ ~Closed(r, "initial").asks
      /\ Closed(r, "initial").pipeline = r.pipeline
  BY ClosedType
<1>5. /\ c \in Remotes /\ c.state = "initial" /\ c.call = NoCall /\ ~c.asks
      /\ c.pipeline = Tail(r.pipeline)
  BY <1>3, <1>4 DEF Remotes
<1>6. AfterClose(s) = Rejected(r, Tail(q))
  BY <1>4 DEF Rejected
<1> HIDE DEF c
<1>7. s \in Remotes /\ s.state # "open"
  BY <1>2, <1>5, FillType DEF IsStarted
<1>8. Fronts(s.pipeline, Tail(q))
  <2>1. s.pipeline = c.pipeline \o Following(c.pipeline, Tail(q))
    BY <1>2, <1>5, FillSends
  <2>2. c.pipeline \in Pipelines
    BY <1>5, PipelineType
  <2>3. Fronts(c.pipeline \o Following(c.pipeline, Tail(q)), Tail(q))
    BY <1>2, <1>5, <2>2, FollowingFollows
  <2> QED
    BY <2>1, <2>3
<1> HIDE DEF s
<1> QED
  BY <1>6, <1>7, <1>8, AfterCloseFits

\* A graceful stop keeps the pipeline.
LEMMA GracefullyFits ==
  ASSUME NEW r \in Remotes, NEW q, NEW L, NEW R, Fits(r, q, L, R)
  PROVE  Fits(Gracefully(r), q, L, R)
<1>1. CASE IsStarted(r)
  <2>1. /\ Closed(r, "initial") \in Remotes /\ Closed(r, "initial").state # "open"
        /\ Closed(r, "initial").pipeline = r.pipeline
    BY ClosedType
  <2> QED
    BY <1>1, <2>1, AfterCloseFits DEF Gracefully, Fits
<1>2. CASE ~IsStarted(r)
  BY <1>2 DEF Gracefully
<1> QED
  BY <1>1, <1>2

\* A restarted stream has a new pipeline, from whichever queue it is filled.
LEMMA RestartFits ==
  ASSUME NEW r \in Remotes, ~r.asks, NEW u, NEW W, Carries(r, u, W),
         NEW q \in Seq(Batch), Sorted(q), NEW L, NEW R
  PROVE  Fits(Restart(r, q), q, L, R)
<1> DEFINE g == Gracefully(r)
           e == [g EXCEPT !.pipeline = <<>>, !.state = "initial"]
<1>1. g \in Remotes /\ ~g.asks /\ g.call = NoCall /\ ~g.handshake
  BY GracefullyCarries
<1> HIDE DEF g
<1>2. <<>> \in Pipelines /\ Fronts(<<>>, q)
  BY WriteStreamAssumption DEF WriteStreamAssumption, Pipelines, Fronts
<1>3. /\ e \in Remotes /\ ~e.asks /\ e.call = NoCall /\ ~e.handshake /\ e.state = "initial"
      /\ e.pipeline = <<>>
  BY <1>1, <1>2 DEF Remotes
<1> HIDE DEF e
<1>4. Fill(e, q).state # "open" /\ Fill(e, q).handshake = e.handshake
  BY <1>3, FillType DEF IsStarted
<1>5. Fronts(Fill(e, q).pipeline, q)
  <2>1. Fill(e, q).pipeline = e.pipeline \o Following(e.pipeline, q)
    BY <1>3, FillSends
  <2>2. Fronts(e.pipeline \o Following(e.pipeline, q), q)
    BY <1>2, <1>3, FollowingFollows
  <2> QED
    BY <2>1, <2>2
<1>6. Fits(Fill(e, q), q, L, R)
  BY <1>3, <1>4, <1>5, SilentMatches DEF Fits
<1> QED
  BY <1>6 DEF Restart, e, g

\* The remote store becomes what fits.
LEMMA BecomesFits ==
  ASSUME NEW s \in Remotes, Becomes(s), NEW q, NEW L, NEW R, Fits(s, q, L, R)
  PROVE  Fits(remote', q, L, R)
<1>1. remote' = [s EXCEPT !.asks = FALSE]
  BY DEF Becomes
<1>2. /\ remote'.state = s.state /\ remote'.handshake = s.handshake
      /\ remote'.call = s.call /\ remote'.pipeline = s.pipeline
  BY <1>1 DEF Remotes
<1> QED
  BY <1>2 DEF Fits, Matches

\* More verdicts fit as well.
LEMMA FitsMore ==
  ASSUME NEW r, NEW q, NEW L, NEW R, Fits(r, q, L, R), NEW M, NEW S, L \subseteq M, R \subseteq S
  PROVE  Fits(r, q, M, S)
  BY DEF Fits, Matches

-----------------------------------------------------------------------------
(* The supply of ids.                                                      *)

WritesIn(s) == {k \in DOMAIN s : s[k].kind = "write"}

\* The writes that wait on the worker can be counted.
LEMMA WritesFinite ==
  ASSUME NEW s \in Seq(Tasks)
  PROVE  IsFiniteSet(WritesIn(s)) /\ Cardinality(WritesIn(s)) \in Nat
<1>1. Len(s) \in Nat /\ DOMAIN s = 1..Len(s)
  OBVIOUS
<1>2. IsFiniteSet(1..Len(s)) /\ WritesIn(s) \subseteq 1..Len(s)
  BY <1>1, FS_Interval DEF WritesIn
<1>3. IsFiniteSet(WritesIn(s))
  BY <1>2, FS_Subset
<1> QED
  BY <1>3, FS_CardinalityType

\* Writes are counted as they join and leave the worker.
LEMMA PendingAppend ==
  ASSUME NEW s \in Seq(Tasks), NEW t \in Tasks
  PROVE  /\ Cardinality(WritesIn(s)) \in Nat
         /\ Cardinality(WritesIn(Append(s, t))) =
              Cardinality(WritesIn(s)) + (IF t.kind = "write" THEN 1 ELSE 0)
<1> DEFINE a == Append(s, t)
<1>1. /\ Len(s) \in Nat /\ DOMAIN s = 1..Len(s) /\ DOMAIN a = 1..(Len(s) + 1)
      /\ \A k \in 1..Len(s) : a[k] = s[k]
      /\ a[Len(s) + 1] = t
  BY AppendAdds
<1> HIDE DEF a
<1>2. IsFiniteSet(WritesIn(s)) /\ Cardinality(WritesIn(s)) \in Nat
  BY WritesFinite
<1>3. WritesIn(a) = IF t.kind = "write" THEN WritesIn(s) \cup {Len(s) + 1} ELSE WritesIn(s)
  BY <1>1 DEF WritesIn
<1>4. Len(s) + 1 \notin WritesIn(s)
  BY <1>1 DEF WritesIn
<1>5. Cardinality(WritesIn(s) \cup {Len(s) + 1}) = Cardinality(WritesIn(s)) + 1
  BY <1>2, <1>4, FS_AddElement
<1> QED
  BY <1>2, <1>3, <1>5 DEF a

\* One of them goes when the worker takes it.
LEMMA PendingTail ==
  ASSUME NEW s \in Seq(Tasks), s # <<>>
  PROVE  Cardinality(WritesIn(Tail(s))) =
           Cardinality(WritesIn(s)) - (IF Head(s).kind = "write" THEN 1 ELSE 0)
<1> DEFINE t == Tail(s)
           S == WritesIn(t)
           T == WritesIn(s) \ {1}
           f == [k \in S |-> k + 1]
<1>1. /\ Len(s) \in Nat \ {0} /\ DOMAIN s = 1..Len(s) /\ DOMAIN t = 1..(Len(s) - 1)
      /\ \A k \in 1..(Len(s) - 1) : t[k] = s[k + 1]
      /\ Head(s) = s[1]
  BY TailIsShift
<1> HIDE DEF t
<1>2. IsFiniteSet(WritesIn(s)) /\ IsFiniteSet(S)
  <2>1. IsFiniteSet(1..Len(s)) /\ IsFiniteSet(1..(Len(s) - 1))
    BY <1>1, FS_Interval
  <2>2. WritesIn(s) \subseteq 1..Len(s) /\ S \subseteq 1..(Len(s) - 1)
    BY <1>1 DEF WritesIn
  <2> QED
    BY <2>1, <2>2, FS_Subset
<1>3. /\ \A k \in S : k \in Nat /\ k + 1 \in T
      /\ \A k \in T : k \in Nat /\ k - 1 \in S /\ (k - 1) + 1 = k
  BY <1>1 DEF WritesIn
<1> HIDE DEF S, T
<1>4. f \in Bijection(S, T)
  <2>1. f \in [S -> T] /\ \A a, b \in S : f[a] = f[b] => a = b
    BY <1>3
  <2>2. \A k \in T : \E j \in S : f[j] = k
    BY <1>3
  <2> HIDE DEF f
  <2> QED
    BY <2>1, <2>2, Fun_IsBij
<1>5. Cardinality(T) = Cardinality(S)
  BY <1>2, <1>4, FS_Bijection DEF ExistsBijection
<1>6. Cardinality(T) = IF 1 \in WritesIn(s) THEN Cardinality(WritesIn(s)) - 1
                                            ELSE Cardinality(WritesIn(s))
  BY <1>2, FS_RemoveElement DEF T
<1>7. 1 \in WritesIn(s) <=> Head(s).kind = "write"
  BY <1>1 DEF WritesIn
<1>8. Cardinality(WritesIn(s)) \in Nat
  BY <1>2, FS_CardinalityType
<1> QED
  BY <1>5, <1>6, <1>7, <1>8 DEF S, t

\* They are what the model's bound on writes counts.
LEMMA PendingIs == Pending("write") = Cardinality(WritesIn(worker))
  BY DEF Pending, WritesIn

-----------------------------------------------------------------------------
(* What is late.                                                           *)

\* It stays in order while verdicts come in, and queues lose old batches and get new.
LEMMA InOrderKept ==
  ASSUME NEW s, NEW q, NEW L, InOrder(s, q, L), NEW n, NEW M, L \subseteq M,
         \A j \in DOMAIN n : \/ \E i \in DOMAIN q : q[i] = n[j]
                             \/ \A k \in DOMAIN s : ~(n[j].id < s[k].id)
  PROVE  InOrder(s, n, M)
<1> SUFFICES ASSUME NEW k \in DOMAIN s, NEW j \in DOMAIN n, n[j].id < s[k].id, n[j] \notin M
             PROVE  \E i \in DOMAIN s : i < k /\ s[i] = n[j]
  BY DEF InOrder
<1>1. PICK i \in DOMAIN q : q[i] = n[j]
  OBVIOUS
<1> QED
  BY <1>1 DEF InOrder

\* What a closed call had sent was in the order of the queue.
LEMMA LeavesInOrder ==
  ASSUME IInv, OutboxInv, remote.handshake, ~remote.call.ended
  PROVE  InOrder(remote.call.sent, queues[remote.call.token], Logged(log))
<1> DEFINE r == remote
           n == Len(r.call.replies)
           l == Len(r.call.sent)
           q == queues[user]
<1>1. /\ r \in Remotes /\ Carries(r, user, written) /\ user \in Anyone /\ q \in Seq(Batch)
  BY StreamFacts
<1>2. r.state = "open" /\ r.call.token = user /\ Unanswered(r) = Len(r.pipeline)
  BY <1>1 DEF Carries
<1>3. /\ r.pipeline \in Seq(Batch) /\ r.call.sent \in Seq(Batch) /\ r.call.replies \in Seq(Batch)
  BY <1>1, PipelineType DEF Calls
<1>4. /\ n \in Nat /\ l \in Nat /\ Len(r.pipeline) = n + l
      /\ DOMAIN r.call.sent = 1..l /\ DOMAIN r.call.replies = 1..n
      /\ DOMAIN r.pipeline = 1..(n + l)
  <2>1. n \in Nat /\ l \in Nat /\ DOMAIN r.call.sent = 1..l /\ DOMAIN r.call.replies = 1..n
    BY <1>3
  <2>2. Unanswered(r) = n + l + 0
    BY DEF Unanswered
  <2>3. Len(r.pipeline) = n + l
    BY <1>2, <2>1, <2>2
  <2>4. DOMAIN r.pipeline = 1..Len(r.pipeline)
    BY <1>3
  <2> QED
    BY <2>1, <2>3, <2>4
<1>5. /\ \A k \in 1..n : r.pipeline[k] \in Logged(log)
      /\ \A k \in 1..l : r.call.sent[k] = r.pipeline[n + k]
  <2>1. Gap(r.call) = 0 /\ Matches(r, Logged(log), refusals)
    BY DEF Gap, OutboxInv
  <2> QED
    BY <1>4, <2>1 DEF Matches
<1>6. Fronts(r.pipeline, q) /\ Sorted(q)
  BY <1>1 DEF OutboxInv
<1> SUFFICES ASSUME NEW k \in 1..l, NEW j \in DOMAIN q, q[j].id < r.call.sent[k].id
             PROVE  q[j] \in Logged(log) \/ \E i \in 1..l : i < k /\ r.call.sent[i] = q[j]
  BY <1>2, <1>4 DEF InOrder
<1> HIDE DEF r, n, l, q
<1>7. n + k \in DOMAIN r.pipeline /\ n + k \in DOMAIN q
  <2>1. n + k \in 1..(n + l)
    BY <1>4
  <2> QED
    BY <1>1, <1>3, <1>4, <1>6, <2>1 DEF Fronts
<1>8. j < n + k /\ j \in Nat /\ j >= 1
  <2>1. r.call.sent[k] = q[n + k]
    BY <1>5, <1>6, <1>7 DEF Fronts
  <2>2. j < n + k
    BY <1>1, <1>6, <1>7, <2>1, SortedIsOnce
  <2> QED
    BY <1>1, <2>2
<1>9. CASE j <= n
  <2>1. j \in 1..n /\ j \in DOMAIN r.pipeline
    BY <1>4, <1>8, <1>9
  <2> QED
    BY <1>5, <1>6, <2>1 DEF Fronts
<1>10. CASE ~(j <= n)
  <2>1. j - n \in 1..l /\ j - n < k /\ n + (j - n) = j /\ j \in DOMAIN r.pipeline
    BY <1>4, <1>8, <1>10
  <2>2. r.call.sent[j - n] = r.pipeline[n + (j - n)]
    BY <1>5, <2>1
  <2>3. r.pipeline[j] = q[j]
    BY <1>6, <2>1 DEF Fronts
  <2> QED
    BY <2>1, <2>2, <2>3
<1> QED
  BY <1>9, <1>10

-----------------------------------------------------------------------------
(* The steps.                                                              *)

\* The types these steps start from.
LEMMA BoxTypes ==
  ASSUME IInv
  PROVE  /\ queues \in [Anyone -> Seq(Batch)] /\ user \in Anyone /\ worker \in Seq(Tasks)
         /\ written \subseteq Batch /\ Cardinality(written) \in Nat /\ IsFiniteSet(written)
         /\ \A o \in late : o.token \in Anyone /\ o.sent \in Seq(Batch) /\ o.sent # <<>>
         /\ log \in Seq([as : Anyone, batch : Batch])
<1>1. /\ queues \in [Anyone -> Seq(Batch)] /\ user \in Anyone /\ worker \in Seq(Tasks)
      /\ written \subseteq Batch /\ IsFiniteSet(written)
      /\ late \subseteq [token : Anyone, sent : Seq(Batch)]
      /\ \A o \in late : o.sent # <<>>
      /\ log \in Seq([as : Anyone, batch : Batch])
  BY DEF IInv, Typed, Books
<1> QED
  BY <1>1, FS_CardinalityType

\* A step of the stream: its state fits the queue, which may have lost its head, and
\* what its old call had sent may be late.
LEMMA StreamBox ==
  ASSUME IInv, OutboxInv, Fits(remote', queues'[user'], Logged(log), refusals),
         UNCHANGED <<log, refusals, written>>,
         \A u \in Anyone : Sorted(queues'[u]) /\ Batches(queues'[u]) \subseteq Batches(queues[u]),
         late' = late \/ (Leaves(remote) /\ queues' = queues),
         worker' = worker \/ (worker # <<>> /\ worker' = Tail(worker)) \/ worker' = <<>>
  PROVE  OutboxInv'
<1>0. /\ worker \in Seq(Tasks) /\ Cardinality(written) \in Nat
      /\ \A o \in late : o.token \in Anyone
  BY BoxTypes
<1>1. Numbered(written') /\ Fronts(remote'.pipeline, queues'[user'])
      /\ Matches(remote', Logged(log'), refusals')
  BY DEF OutboxInv, Fits
<1>2. Cardinality(written') + Pending("write")' <= MaxWrites
  <2> DEFINE c == Cardinality(WritesIn(worker))
             d == Cardinality(WritesIn(worker'))
  <2>1. Cardinality(written) + c <= MaxWrites /\ c \in Nat
    BY <1>0, WritesFinite, PendingIs DEF OutboxInv
  <2>2. d = c \/ d = c - 1 \/ d = 0
    <3>1. CASE worker # <<>> /\ worker' = Tail(worker)
      <4>1. d = c - (IF Head(worker).kind = "write" THEN 1 ELSE 0)
        BY <1>0, <3>1, PendingTail
      <4> QED
        BY <2>1, <4>1
    <3>2. CASE worker' = <<>>
      <4>1. WritesIn(<<>>) = {}
        BY DEF WritesIn
      <4> QED
        BY <3>2, <4>1, FS_EmptySet
    <3> QED
      BY <3>1, <3>2
  <2>3. Pending("write")' = d
    BY DEF Pending, WritesIn
  <2>4. MaxWrites \in Nat
    BY WriteStreamAssumption DEF WriteStreamAssumption
  <2> HIDE DEF c, d
  <2> QED
    BY <1>0, <2>1, <2>2, <2>3, <2>4
<1>3. ASSUME NEW o \in late' PROVE InOrder(o.sent, queues'[o.token], Logged(log'))
  <2>1. CASE o \in late
    <3>1. InOrder(o.sent, queues[o.token], Logged(log)) /\ o.token \in Anyone
      BY <1>0, <2>1 DEF OutboxInv
    <3>2. \A j \in DOMAIN queues'[o.token] :
            \E i \in DOMAIN queues[o.token] : queues[o.token][i] = queues'[o.token][j]
      BY <3>1 DEF Batches
    <3> QED
      BY <3>1, <3>2, InOrderKept
  <2>2. CASE o \notin late
    <3>1. /\ remote.handshake /\ ~remote.call.ended
          /\ o = [token |-> remote.call.token, sent |-> remote.call.sent] /\ queues' = queues
      BY <2>2 DEF Leaves
    <3> QED
      BY <3>1, LeavesInOrder
  <2> QED
    BY <2>1, <2>2
<1> QED
  BY <1>1, <1>2, <1>3 DEF OutboxInv

\* The steps that leave the queues alone.
LEMMA QuietBox ==
  ASSUME IInv, OutboxInv,
         \/ BackoffElapses \/ IdleElapses \/ RunChange \/ RunResume \/ OnHandshakeComplete
         \/ OnBroken \/ OnConnectivityChange \/ Kill \/ UNCHANGED vars
  PROVE  /\ OutboxInv' /\ UNCHANGED <<queues, log, refusals, written>>
<1> DEFINE q == queues[user]
           L == Logged(log)
<1>1. /\ remote \in Remotes /\ ~remote.asks /\ Carries(remote, user, written)
      /\ \A u \in Anyone : queues[u] \in Seq(Batch) /\ Sorted(queues[u])
      /\ user \in Anyone /\ Fits(remote, q, L, refusals)
  BY StreamFacts DEF OutboxInv, Fits
<1>2. /\ UNCHANGED <<queues, log, refusals, written>>
      /\ late' = late \/ Leaves(remote)
      /\ worker' = worker \/ (worker # <<>> /\ worker' = Tail(worker)) \/ worker' = <<>>
  BY DEF BackoffElapses, IdleElapses, RunChange, RunResume, OnHandshakeComplete, OnBroken,
     OnConnectivityChange, Kill, vars, client, backend, Task
<1>3. Fits(remote', queues[user'], L, refusals)
  <2>1. CASE BackoffElapses
    <3> DEFINE s == Start([remote EXCEPT !.state = "initial"])
    <3>1. remote.state = "backoff" /\ Becomes(s) /\ user' = user
      BY <2>1 DEF BackoffElapses
    <3>2. s = [remote EXCEPT !.state = "starting", !.asks = TRUE]
      BY <1>1 DEF Start, Remotes
    <3> HIDE DEF s
    <3>3. /\ s \in Remotes /\ s.state = "starting" /\ s.handshake = remote.handshake
          /\ s.pipeline = remote.pipeline /\ s.call = remote.call
      BY <1>1, <3>2 DEF Remotes
    <3>4. ~s.handshake
      BY <1>1, <3>1, <3>3 DEF Carries
    <3>5. Fits(s, q, L, refusals)
      BY <1>1, <3>3, <3>4, SilentMatches DEF Fits
    <3> QED
      BY <3>1, <3>3, <3>5, BecomesFits
  <2>2. CASE IdleElapses
    <3>1. Becomes(Gracefully(remote)) /\ user' = user
      BY <2>2 DEF IdleElapses
    <3> QED
      BY <1>1, <3>1, GracefullyCarries, GracefullyFits, BecomesFits
  <2>3. CASE RunChange
    <3> DEFINE v == Head(worker).user
    <3>1. Becomes(Restart(remote, queues[v])) /\ user' = v
      BY <2>3 DEF RunChange
    <3>2. v \in Anyone
      <4>1. Head(worker) \in Tasks
        BY <2>3, BoxTypes DEF RunChange, Task
      <4> QED
        BY <4>1 DEF Tasks
    <3> HIDE DEF v
    <3>3. queues[v] \in Seq(Batch) /\ Sorted(queues[v]) /\ Owned(Batches(queues[v]), v, written)
      BY <1>1, <3>2, StreamFacts
    <3>4. Fits(Restart(remote, queues[v]), queues[v], L, refusals)
      BY <1>1, <3>3, RestartFits
    <3>5. Restart(remote, queues[v]) \in Remotes
      BY <1>1, <3>3, RestartCarries
    <3> QED
      BY <3>1, <3>4, <3>5, BecomesFits
  <2>4. CASE RunResume
    <3> DEFINE t == Head(worker)
               s == IF Stale(t) THEN remote
                    ELSE IF t.kind = "token" THEN Opened(remote, t.user) ELSE Broken(remote)
    <3>1. Becomes(s) /\ user' = user
      BY <2>4 DEF RunResume
    <3>2. CASE Stale(t)
      <4>1. s = remote
        BY <3>2
      <4> QED
        BY <1>1, <3>1, <4>1, BecomesFits
    <3>3. CASE ~Stale(t) /\ t.kind = "token"
      <4>1. worker # <<>> /\ worker \in Seq(Tasks) /\ Tok(t, remote.closes)
        BY <2>4, <3>3, BoxTypes DEF RunResume, Task, Tok, Stale
      <4>2. remote.state = "starting" /\ t.user = user
        <5>1. /\ TokensWait(fetches, main, worker, remote)
              /\ WorkerFollows(provider.user, worker, user, remote)
          BY <4>1, Running
        <5>2. OnQueue(worker, remote.closes)
          BY <4>1, OnQueueTail
        <5>3. t.user = user
          BY <4>1, <5>1, WorkerTail
        <5> QED
          BY <5>1, <5>2, <5>3 DEF TokensWait, AnyFor
      <4>3. s = Opened(remote, user)
        BY <3>3, <4>2
      <4> HIDE DEF s, t
      <4>4. s \in Remotes
        BY <1>1, <4>2, <4>3, OpenedCarries
      <4>5. /\ s.pipeline = remote.pipeline /\ s.handshake = remote.handshake
            /\ s.call.replies = <<>>
        BY <1>1, <4>3 DEF Opened, Remotes, NoCall
      <4>6. ~s.handshake
        BY <1>1, <4>2, <4>5 DEF Carries
      <4>7. Fits(s, q, L, refusals)
        BY <1>1, <4>5, <4>6, NoBatches DEF Fits, Matches
      <4> QED
        BY <3>1, <4>4, <4>7, BecomesFits
    <3>4. CASE ~Stale(t) /\ t.kind # "token"
      <4>1. s = Broken(remote)
        BY <3>4
      <4> HIDE DEF s
      <4> QED
        BY <1>1, <3>1, <4>1, BrokenCarries, BrokenFits, BecomesFits
    <3> QED
      BY <3>2, <3>3, <3>4
  <2>5. CASE OnHandshakeComplete
    <3> DEFINE c == [remote.call EXCEPT !.replies = Tail(remote.call.replies)]
               r == [remote EXCEPT !.handshake = TRUE, !.call = c]
               s == Send(r, remote.pipeline)
    <3>1. /\ remote.state = "open" /\ ~remote.handshake /\ remote.call.replies # <<>>
          /\ user' = user
      BY <2>5, Talking DEF OnHandshakeComplete
    <3>2. Becomes(s)
      BY <1>1, <2>5 DEF OnHandshakeComplete, Remotes, Calls
    <3>3. /\ remote.call \in Calls /\ remote.call.replies \in Seq(Batch)
          /\ remote.call.sent \in Seq(Batch) /\ remote.pipeline \in Seq(Batch)
      BY <1>1, PipelineType DEF Calls
    <3>4. remote.call.sent = <<>> /\ Tail(remote.call.replies) = <<>> /\ ~remote.call.ended
      <4> DEFINE a == Len(remote.call.sent)
                 b == Len(remote.call.replies)
      <4>1. a + b = 1 /\ ~remote.call.ended
        BY <1>1, <3>1 DEF Carries
      <4>2. a \in Nat /\ b \in Nat /\ b # 0
        BY <3>1, <3>3
      <4> HIDE DEF a, b
      <4>3. a = 0 /\ b = 1
        BY <4>1, <4>2
      <4>4. remote.call.sent = <<>>
        BY <3>3, <4>3 DEF a
      <4>5. Tail(remote.call.replies) = <<>>
        BY <3>3, <4>3, TailOfOne DEF b
      <4> QED
        BY <4>1, <4>4, <4>5
    <3>5. c \in Calls /\ c.replies = <<>> /\ c.sent = <<>> /\ ~c.ended
      <4>1. c = [remote.call EXCEPT !.replies = <<>>]
        BY <3>4
      <4>2. <<>> \in Seq(Batch)
        OBVIOUS
      <4> HIDE DEF c
      <4> QED
        BY <3>3, <3>4, <4>1, <4>2 DEF Calls
    <3> HIDE DEF c
    <3>6. /\ r \in Remotes /\ r.pipeline = remote.pipeline /\ r.call = c /\ r.handshake
          /\ r.state = "open"
      BY <1>1, <3>1, <3>5 DEF Remotes
    <3> HIDE DEF r
    <3>7. /\ s \in Remotes /\ s.state = "open" /\ s.handshake /\ s.pipeline = remote.pipeline
          /\ s.call.replies = <<>> /\ ~s.call.ended
      <4>1. /\ s \in Remotes /\ s.state = r.state /\ s.handshake = r.handshake
            /\ s.pipeline = r.pipeline /\ s.call.replies = r.call.replies
            /\ s.call.ended = r.call.ended
        BY <3>3, <3>6, SendType
      <4> HIDE DEF s
      <4> QED
        BY <3>5, <3>6, <4>1
    <3>8. s.call.sent = remote.pipeline
      <4>1. CASE remote.pipeline = <<>>
        BY <3>5, <3>6, <4>1 DEF Send
      <4>2. CASE remote.pipeline # <<>>
        <5>1. r.call.sent \o remote.pipeline = remote.pipeline
          BY <3>3, <3>5, <3>6, NothingJoins
        <5>2. s = [r EXCEPT !.idle = FALSE, !.call.sent = r.call.sent \o remote.pipeline]
          BY <4>2 DEF Send
        <5> HIDE DEF s
        <5> QED
          BY <3>6, <5>1, <5>2 DEF Remotes, Calls
      <4> QED
        BY <4>1, <4>2
    <3> HIDE DEF s
    <3>9. Fits(s, q, L, refusals)
      <4>1. /\ DOMAIN s.call.replies = {} /\ Len(s.call.replies) = 0 /\ Gap(s.call) = 0
            /\ \A k \in DOMAIN remote.pipeline : 0 + 0 + k = k
        BY <3>3, <3>7 DEF Gap
      <4>2. Matches(s, L, refusals)
        BY <3>7, <3>8, <4>1 DEF Matches
      <4> QED
        BY <1>1, <3>7, <4>2 DEF Fits
    <3> QED
      BY <3>1, <3>2, <3>7, <3>9, BecomesFits
  <2>6. CASE OnBroken
    <3>1. Becomes(Broken(remote)) /\ user' = user
      BY <2>6 DEF OnBroken
    <3> QED
      BY <1>1, <3>1, BrokenCarries, BrokenFits, BecomesFits
  <2>7. CASE OnConnectivityChange
    <3>1. Becomes(Restart(remote, q)) /\ user' = user
      BY <2>7 DEF OnConnectivityChange
    <3>2. q \in Seq(Batch) /\ Sorted(q) /\ Owned(Batches(q), user, written)
      BY <1>1, StreamFacts
    <3> QED
      BY <1>1, <3>1, <3>2, RestartCarries, RestartFits, BecomesFits
  <2>8. CASE Kill
    <3>1. remote' = Stopped
      BY <2>8 DEF Kill
    <3>2. Stopped.state # "open" /\ ~Stopped.handshake /\ Stopped.pipeline = <<>>
      BY DEF Stopped
    <3>3. user' \in Anyone
      BY <2>8 DEF Kill, Anyone
    <3>4. Fronts(<<>>, queues[user'])
      BY <1>1, <3>3 DEF Fronts
    <3> QED
      BY <3>1, <3>2, <3>4, SilentMatches DEF Fits
  <2>9. CASE UNCHANGED vars
    BY <1>1, <2>9 DEF vars, client
  <2> QED
    BY <2>1, <2>2, <2>3, <2>4, <2>5, <2>6, <2>7, <2>8, <2>9
<1> QED
  BY <1>1, <1>2, <1>3, StreamBox

\* Auth, the main thread and the app move nothing that is counted, but new writes.
LEMMA ElsewhereBox ==
  ASSUME IInv, OutboxInv, Auth \/ DeliverNotify \/ DeliverToken \/ AppWrites
  PROVE  OutboxInv' /\ UNCHANGED <<queues, log, refusals, written>>
<1>1. UNCHANGED <<queues, log, refusals, written, user, remote, late>>
  BY DEF Auth, AuthChanges, AuthReads, AuthAnswers, AuthFails, DeliverNotify, DeliverToken,
     AppWrites, client, backend
<1>2. Cardinality(written) + Cardinality(WritesIn(worker')) <= MaxWrites
  <2>0. /\ worker \in Seq(Tasks) /\ Cardinality(written) \in Nat /\ MaxWrites \in Nat
        /\ Cardinality(WritesIn(worker)) \in Nat
        /\ Cardinality(written) + Cardinality(WritesIn(worker)) <= MaxWrites
    BY BoxTypes, WritesFinite, PendingIs, WriteStreamAssumption DEF WriteStreamAssumption, OutboxInv
  <2>1. CASE Auth
    BY <2>0, <2>1 DEF Auth, AuthChanges, AuthReads, AuthAnswers, AuthFails, client
  <2>2. CASE DeliverNotify \/ DeliverToken
    <3>1. main \in Seq(Blocks) /\ main # <<>>
      BY <2>2 DEF IInv, Typed, DeliverNotify, DeliverToken
    <3>2. Head(main) \in Blocks
      BY <3>1
    <3>3. worker' = worker \/ \E t \in Tasks : t.kind # "write" /\ worker' = Append(worker, t)
      <4>1. CASE DeliverNotify
        <5>1. Change(Head(main).user) \in Tasks /\ Change(Head(main).user).kind # "write"
          BY <3>2 DEF Change, Tasks, Blocks
        <5> QED
          BY <4>1, <5>1 DEF DeliverNotify
      <4>2. CASE DeliverToken
        <5>1. Head(main).kind \in {"token", "error"}
          BY <4>2 DEF DeliverToken
        <5>2. Resume(Head(main)) \in Tasks /\ Resume(Head(main)).kind # "write"
          BY <3>2, <5>1 DEF Resume, Tasks, Blocks
        <5> QED
          BY <4>2, <5>2 DEF DeliverToken
      <4> QED
        BY <2>2, <4>1, <4>2
    <3>4. Cardinality(WritesIn(worker')) = Cardinality(WritesIn(worker))
      <4>1. CASE worker' = worker
        BY <4>1
      <4>2. CASE worker' # worker
        <5>1. PICK t \in Tasks : t.kind # "write" /\ worker' = Append(worker, t)
          BY <3>3, <4>2
        <5>2. Cardinality(WritesIn(Append(worker, t))) = Cardinality(WritesIn(worker)) + 0
          BY <2>0, <5>1, PendingAppend
        <5> QED
          BY <2>0, <5>1, <5>2
      <4> QED
        BY <4>1, <4>2
    <3> QED
      BY <2>0, <3>4
  <2>3. CASE AppWrites
    <3>1. WriteTask \in Tasks /\ WriteTask.kind = "write"
      BY DEF WriteTask, Tasks, Anyone
    <3>2. Cardinality(WritesIn(worker')) = Cardinality(WritesIn(worker)) + 1
      BY <2>0, <2>3, <3>1, PendingAppend DEF AppWrites
    <3>3. Cardinality(written) + Cardinality(WritesIn(worker)) < MaxWrites
      BY <2>3, PendingIs DEF AppWrites
    <3> QED
      BY <2>0, <3>2, <3>3
  <2> QED
    BY <2>1, <2>2, <2>3
<1>3. Pending("write")' = Cardinality(WritesIn(worker'))
  BY DEF Pending, WritesIn
<1> QED
  BY <1>1, <1>2, <1>3 DEF OutboxInv

\* A new batch: its id is new, and behind all others of the queue.
LEMMA WriteBox ==
  ASSUME IInv, OutboxInv, RunWrite
  PROVE  /\ OutboxInv'
         /\ \E b \in Batch :
              /\ b \notin written /\ b.user = user /\ b.id \in 1..MaxWrites
              /\ written' = written \cup {b}
              /\ queues' = [queues EXCEPT ![user] = Append(@, b)]
              /\ UNCHANGED <<log, refusals>>
<1> DEFINE b == [user |-> user, id |-> Cardinality(written) + 1]
           q == Append(queues[user], b)
           L == Logged(log)
           c == Cardinality(written)
           n == Cardinality(WritesIn(worker))
<1>1. /\ worker # <<>> /\ Head(worker).kind = "write" /\ worker' = Tail(worker)
      /\ written' = written \cup {b} /\ queues' = [queues EXCEPT ![user] = q]
      /\ Becomes(Fill(remote, q))
      /\ UNCHANGED <<user, late, log, refusals>>
  BY DEF RunWrite, Task, backend
<1>2. /\ remote \in Remotes /\ ~remote.asks /\ Carries(remote, user, written)
      /\ queues \in [Anyone -> Seq(Batch)] /\ user \in Anyone /\ queues[user] \in Seq(Batch)
      /\ \A u \in Anyone : Sorted(queues[u]) /\ Owned(Batches(queues[u]), u, written)
      /\ Fronts(remote.pipeline, queues[user]) /\ Matches(remote, L, refusals)
      /\ worker \in Seq(Tasks) /\ c \in Nat /\ IsFiniteSet(written) /\ written \subseteq Batch
  BY StreamFacts, BoxTypes DEF OutboxInv
<1>3. b \in Batch /\ b.user = user /\ b.id = c + 1
  BY <1>2 DEF Batch
<1>4. \A x \in written : x.id \in 1..c /\ x.id < c + 1 /\ x.id \in Nat
  BY <1>2 DEF OutboxInv, Numbered
<1>5. b \notin written
  <2>1. ASSUME b \in written PROVE FALSE
    <3>1. c + 1 \in 1..c
      BY <1>3, <1>4, <2>1
    <3> QED
      BY <1>2, <3>1
  <2> QED
    BY <2>1
<1>6. Cardinality(written') = c + 1 /\ Cardinality(WritesIn(worker')) = n - 1 /\ n \in Nat
      /\ c + n <= MaxWrites /\ MaxWrites \in Nat
  <2>1. Cardinality(written \cup {b}) = c + 1
    BY <1>2, <1>5, FS_AddElement
  <2>2. Cardinality(WritesIn(Tail(worker))) = n - 1
    BY <1>1, <1>2, PendingTail
  <2> QED
    BY <1>1, <1>2, <2>1, <2>2, WritesFinite, PendingIs, WriteStreamAssumption
       DEF WriteStreamAssumption, OutboxInv
<1> HIDE DEF b
<1>7. q \in Seq(Batch) /\ Sorted(q)
  <2>1. \A k \in DOMAIN queues[user] : queues[user][k].id < b.id
    <3>1. \A k \in DOMAIN queues[user] : queues[user][k] \in written
      BY <1>2 DEF Owned, Batches
    <3> QED
      BY <1>3, <1>4, <3>1
  <2> QED
    BY <1>2, <1>3, <2>1, SortedKept, AppendAdds
<1>8. Fronts(remote.pipeline, q)
  <2>1. /\ Len(q) = Len(queues[user]) + 1 /\ Len(queues[user]) \in Nat
        /\ \A k \in 1..Len(queues[user]) : q[k] = queues[user][k]
    BY <1>2, <1>3, AppendAdds
  <2>2. Len(remote.pipeline) \in Nat /\ DOMAIN remote.pipeline = 1..Len(remote.pipeline)
    <3>1. remote.pipeline \in Seq(Batch)
      BY <1>2, PipelineType
    <3> QED
      BY <3>1
  <2> HIDE DEF q
  <2> QED
    BY <1>2, <2>1, <2>2 DEF Fronts
<1> HIDE DEF q
<1>9. Fits(remote', q, L, refusals)
  <2>1. Fill(remote, q) \in Remotes
    BY <1>2, <1>7, FillType
  <2>2. Fits(Fill(remote, q), q, L, refusals)
    BY <1>2, <1>7, <1>8, FillMatches DEF Fits
  <2> QED
    BY <1>1, <2>1, <2>2, BecomesFits
<1>10. Numbered(written')
  <2> SUFFICES ASSUME NEW x \in written' PROVE x.id \in 1..(c + 1)
    BY <1>6 DEF Numbered
  <2> QED
    BY <1>1, <1>2, <1>3, <1>4
<1>11. Cardinality(written') + Pending("write")' <= MaxWrites
  <2>1. Pending("write")' = n - 1
    BY <1>6 DEF Pending, WritesIn
  <2> HIDE DEF c, n
  <2> QED
    BY <1>2, <1>6, <2>1
<1>12. ASSUME NEW o \in late PROVE InOrder(o.sent, queues'[o.token], L)
  <2>1. /\ InOrder(o.sent, queues[o.token], L) /\ o.token \in Anyone /\ o.sent \in Seq(Batch)
        /\ Owned(Batches(o.sent), o.token, written)
    BY BoxTypes DEF OutboxInv, IInv, Books
  <2>2. CASE o.token = user
    <3>1. queues'[o.token] = Append(queues[user], b)
      BY <1>1, <1>2, <2>2 DEF q
    <3>2. \A k \in DOMAIN o.sent : ~(b.id < o.sent[k].id)
      <4>1. \A k \in DOMAIN o.sent : o.sent[k] \in written
        BY <2>1 DEF Owned, Batches
      <4> QED
        BY <1>2, <1>3, <1>4, <4>1
    <3>3. \A j \in DOMAIN Append(queues[user], b) :
            \/ \E i \in DOMAIN queues[user] : queues[user][i] = Append(queues[user], b)[j]
            \/ Append(queues[user], b)[j] = b
      BY <1>2, <1>3, AppendAdds
    <3>4. \A j \in DOMAIN queues'[o.token] :
            \/ \E i \in DOMAIN queues[o.token] : queues[o.token][i] = queues'[o.token][j]
            \/ \A k \in DOMAIN o.sent : ~(queues'[o.token][j].id < o.sent[k].id)
      BY <2>2, <3>1, <3>2, <3>3
    <3> QED
      BY <2>1, <3>4, InOrderKept
  <2>3. CASE o.token # user
    <3>1. queues'[o.token] = queues[o.token]
      BY <1>1, <1>2, <2>1, <2>3
    <3> QED
      BY <2>1, <3>1
  <2> QED
    BY <2>2, <2>3
<1>13. \A u \in Anyone : Sorted(queues'[u])
  BY <1>1, <1>2, <1>7
<1>14. queues'[user'] = q
  BY <1>1, <1>2
<1>15. OutboxInv'
  BY <1>1, <1>9, <1>10, <1>11, <1>12, <1>13, <1>14 DEF OutboxInv, Fits
<1>16. b.id \in 1..MaxWrites
  <2>1. n # 0
    <3>1. Cardinality(WritesIn(worker')) \in Nat
      <4>1. worker' \in Seq(Tasks)
        BY <1>1, <1>2
      <4> QED
        BY <4>1, WritesFinite
    <3> QED
      BY <1>6, <3>1
  <2> HIDE DEF c, n
  <2> QED
    BY <1>2, <1>3, <1>6, <2>1
<1> QED
  BY <1>1, <1>3, <1>5, <1>15, <1>16 DEF q

\* Once an answer is read, the rest of the answers is for the rest of the pipeline;
\* and the head of the pipeline is what it is about.
LEMMA AnswerMatches ==
  ASSUME NEW r \in Remotes, NEW s \in Remotes, NEW L, NEW R, Matches(r, L, R),
         r.handshake, r.call.replies # <<>>, r.pipeline # <<>>,
         Unanswered(r) = Len(r.pipeline),
         s.handshake, s.pipeline = Tail(r.pipeline), s.call.sent = r.call.sent,
         s.call.replies = Tail(r.call.replies), s.call.ended = r.call.ended
  PROVE  Matches(s, L, R) /\ Head(r.pipeline) \in L
<1> DEFINE n == Len(r.call.replies)
           l == Len(r.call.sent)
           g == Gap(r.call)
           k0 == Len(r.pipeline)
           p == r.pipeline
           x == r.call.replies
           y == r.call.sent
           tp == Tail(p)
           tx == Tail(x)
<1>1. p \in Seq(Batch) /\ x \in Seq(Batch) /\ y \in Seq(Batch)
  BY PipelineType DEF Calls
<1>2. /\ k0 \in Nat \ {0} /\ n \in Nat \ {0} /\ l \in Nat /\ DOMAIN x = 1..n
      /\ DOMAIN tx = 1..(n - 1) /\ DOMAIN y = 1..l /\ Len(tx) = n - 1
      /\ \A k \in 1..(k0 - 1) : tp[k] = p[k + 1]
      /\ \A k \in 1..(n - 1) : tx[k] = x[k + 1]
      /\ Head(p) = p[1]
  <2>1. /\ k0 \in Nat \ {0} /\ \A k \in 1..(k0 - 1) : tp[k] = p[k + 1]
        /\ Head(p) = p[1]
    BY <1>1, TailIsShift
  <2>2. /\ n \in Nat \ {0} /\ DOMAIN x = 1..n /\ DOMAIN tx = 1..(n - 1) /\ Len(tx) = n - 1
        /\ \A k \in 1..(n - 1) : tx[k] = x[k + 1]
    BY <1>1, TailIsShift
  <2>3. l \in Nat /\ DOMAIN y = 1..l
    BY <1>1
  <2> QED
    BY <2>1, <2>2, <2>3
<1>3. k0 = n + l + g /\ g \in Nat /\ (r.call.ended => g = 1) /\ Gap(s.call) = g
  BY DEF Unanswered, Gap
<1>4. /\ \A k \in 1..n : x[k] = p[k] /\ p[k] \in L
      /\ \A k \in 1..l : y[k] = p[n + g + k]
      /\ r.call.ended => p[n + 1] \in R
  BY <1>2 DEF Matches
<1> HIDE DEF n, l, g, k0, p, x, y, tp, tx
<1>5. ASSUME NEW k \in 1..(n - 1) PROVE tx[k] = tp[k] /\ tp[k] \in L
  <2>1. k + 1 \in 1..n /\ k \in 1..(k0 - 1)
    BY <1>2, <1>3
  <2> QED
    BY <1>2, <1>4, <2>1
<1>6. ASSUME NEW k \in 1..l PROVE y[k] = tp[(n - 1) + g + k]
  <2>1. (n - 1) + g + k \in 1..(k0 - 1) /\ ((n - 1) + g + k) + 1 = n + g + k
    BY <1>2, <1>3
  <2>2. tp[(n - 1) + g + k] = p[((n - 1) + g + k) + 1]
    BY <1>2, <2>1
  <2> QED
    BY <1>4, <2>1, <2>2
<1>7. r.call.ended => tp[(n - 1) + 1] \in R
  <2> SUFFICES ASSUME r.call.ended PROVE tp[(n - 1) + 1] \in R
    OBVIOUS
  <2>1. (n - 1) + 1 \in 1..(k0 - 1) /\ ((n - 1) + 1) + 1 = n + 1
    BY <1>2, <1>3
  <2>2. tp[(n - 1) + 1] = p[((n - 1) + 1) + 1]
    BY <1>2, <2>1
  <2> QED
    BY <1>4, <2>1, <2>2
<1>8. /\ s.pipeline = tp /\ s.call.sent = y /\ s.call.replies = tx
      /\ s.call.ended = r.call.ended
  BY DEF tp, p, y, tx, x
<1>9. Matches(s, L, R)
  <2>1. \A k \in DOMAIN s.call.replies :
          s.call.replies[k] = s.pipeline[k] /\ s.pipeline[k] \in L
    BY <1>2, <1>5, <1>8
  <2>2. Len(s.call.replies) = n - 1
    BY <1>2, <1>8
  <2>3. \A k \in DOMAIN s.call.sent :
          s.call.sent[k] = s.pipeline[Len(s.call.replies) + Gap(s.call) + k]
    BY <1>2, <1>3, <1>6, <1>8, <2>2
  <2>4. s.call.ended => s.pipeline[Len(s.call.replies) + 1] \in R
    BY <1>7, <1>8, <2>2
  <2> QED
    BY <2>1, <2>3, <2>4 DEF Matches
<1>10. Head(p) \in L
  BY <1>2, <1>4
<1> QED
  BY <1>9, <1>10 DEF p

\* The head of the pipeline has its verdict, and leaves the queue of the user.
LEMMA VerdictBox ==
  ASSUME IInv, OutboxInv, remote.pipeline # <<>>,
         Head(remote.pipeline) \in Logged(log) \cup refusals,
         queues' = [queues EXCEPT ![user] = Without(queues[user], Head(remote.pipeline))],
         NEW s \in Remotes, Becomes(s), Fits(s, Tail(queues[user]), Logged(log), refusals),
         UNCHANGED <<user, worker, late, log, refusals, written>>
  PROVE  /\ OutboxInv' /\ user \in Anyone /\ queues[user] # <<>>
         /\ Head(queues[user]) \in Logged(log) \cup refusals
         /\ queues' = [queues EXCEPT ![user] = Tail(@)]
         /\ UNCHANGED <<log, refusals, written>>
<1> DEFINE q == queues[user]
<1>1. /\ queues \in [Anyone -> Seq(Batch)] /\ user \in Anyone
      /\ \A u \in Anyone : queues[u] \in Seq(Batch) /\ Sorted(queues[u])
      /\ Fronts(remote.pipeline, q) /\ remote.pipeline \in Seq(Batch)
  BY BoxTypes, StreamFacts, PipelineType DEF OutboxInv
<1>2. q # <<>> /\ Head(q) = Head(remote.pipeline)
  BY <1>1, FrontOfTail
<1>3. Without(q, Head(remote.pipeline)) = Tail(q)
  BY <1>1, <1>2, WithoutHead
<1>4. queues' = [queues EXCEPT ![user] = Tail(@)]
  BY <1>3
<1>5. \A u \in Anyone : Sorted(queues'[u]) /\ Batches(queues'[u]) \subseteq Batches(queues[u])
  <2>1. Sorted(Tail(q)) /\ Batches(Tail(q)) \subseteq Batches(q)
    BY <1>1, <1>2, SortedKept, BatchesOfTail
  <2> HIDE DEF q
  <2>2. \A u \in Anyone : queues'[u] = queues[u] \/ (queues[u] = q /\ queues'[u] = Tail(q))
    BY <1>1, <1>4 DEF q
  <2> QED
    BY <1>1, <2>1, <2>2
<1>6. queues'[user'] = Tail(q)
  BY <1>1, <1>4
<1>7. Fits(remote', queues'[user'], Logged(log), refusals)
  BY <1>6, BecomesFits
<1>8. OutboxInv'
  BY <1>5, <1>7, StreamBox
<1> QED
  BY <1>1, <1>2, <1>4, <1>8

\* An answer to a write is about the head of the queue.
LEMMA AnswerBox ==
  ASSUME IInv, OutboxInv, OnMutationResult
  PROVE  /\ OutboxInv' /\ user \in Anyone /\ queues[user] # <<>>
         /\ Head(queues[user]) \in Logged(log) \cup refusals
         /\ queues' = [queues EXCEPT ![user] = Tail(@)]
         /\ UNCHANGED <<log, refusals, written>>
<1> DEFINE q == Tail(queues[user])
           w == Without(queues[user], Head(remote.pipeline))
           p == Tail(remote.pipeline)
           c == [remote.call EXCEPT !.replies = Tail(remote.call.replies)]
           r == [remote EXCEPT !.pipeline = p, !.call = c]
           s == Fill(r, q)
           L == Logged(log)
<1>1. /\ remote.call.replies # <<>> /\ remote.handshake
      /\ queues' = [queues EXCEPT ![user] = w]
      /\ UNCHANGED <<user, worker, late, log, refusals, written>>
  BY DEF OnMutationResult, backend
<1>2. /\ remote \in Remotes /\ Carries(remote, user, written) /\ ~remote.asks
      /\ user \in Anyone /\ queues[user] \in Seq(Batch) /\ Sorted(queues[user])
      /\ Fronts(remote.pipeline, queues[user]) /\ Matches(remote, L, refusals)
  BY StreamFacts DEF OutboxInv
<1>3. /\ remote.call \in Calls /\ remote.call.replies \in Seq(Batch)
      /\ remote.call.sent \in Seq(Batch) /\ remote.pipeline \in Pipelines
      /\ remote.pipeline \in Seq(Batch) /\ Len(remote.pipeline) <= MaxPending
  BY <1>2 DEF Remotes, Calls, Pipelines
<1>4. remote.state = "open" /\ remote.pipeline # <<>> /\ Unanswered(remote) = Len(remote.pipeline)
  BY <1>1, Talking, HeadIsThere
<1>5. /\ queues[user] # <<>> /\ Head(queues[user]) = Head(remote.pipeline) /\ Fronts(p, q)
      /\ q \in Seq(Batch) /\ Sorted(q) /\ w = q
  <2>1. queues[user] # <<>> /\ Head(queues[user]) = Head(remote.pipeline) /\ Fronts(p, q)
    BY <1>2, <1>3, <1>4, FrontOfTail
  <2>2. q \in Seq(Batch) /\ Sorted(q)
    BY <1>2, <2>1, TailIsShift, SortedKept
  <2>3. w = q
    BY <1>2, <2>1, WithoutHead
  <2> QED
    BY <2>1, <2>2, <2>3
<1>6. p \in Pipelines /\ Batches(p) \subseteq Batches(remote.pipeline) /\ Len(p) = Len(remote.pipeline) - 1
  <2>1. /\ p \in Seq(Batch) /\ Batches(p) \subseteq Batches(remote.pipeline)
        /\ Len(p) = Len(remote.pipeline) - 1
    BY <1>3, <1>4, BatchesOfTail
  <2>2. Len(p) <= MaxPending
    BY <1>3, <2>1, WriteStreamAssumption DEF WriteStreamAssumption
  <2> QED
    BY <2>1, <2>2 DEF Pipelines
<1>7. /\ c \in Calls /\ c.token = remote.call.token /\ c.sent = remote.call.sent
      /\ c.replies = Tail(remote.call.replies) /\ c.ended = remote.call.ended
      /\ Len(c.replies) = Len(remote.call.replies) - 1
  <2> DEFINE t == Tail(remote.call.replies)
  <2>1. t \in Seq(Batch) /\ Len(t) = Len(remote.call.replies) - 1
    BY <1>1, <1>3
  <2>2. c = [remote.call EXCEPT !.replies = t]
    OBVIOUS
  <2> HIDE DEF c, t
  <2>3. /\ c \in Calls /\ c.token = remote.call.token /\ c.sent = remote.call.sent
        /\ c.replies = t /\ c.ended = remote.call.ended
    BY <1>3, <2>1, <2>2 DEF Calls
  <2> QED
    BY <2>1, <2>3 DEF t
<1>8. Becomes(s)
  BY <1>2, <1>3, <1>5 DEF OnMutationResult, Remotes, Calls
<1> HIDE DEF c, w
<1>9. /\ r \in Remotes /\ ~r.asks /\ r.state = "open" /\ r.handshake
      /\ r.pipeline = p /\ r.call = c
  BY <1>1, <1>2, <1>4, <1>6, <1>7 DEF Remotes
<1> HIDE DEF r
<1>10. Unanswered(r) = Len(r.pipeline)
  <2> DEFINE e == IF remote.call.ended THEN 1 ELSE 0
             l == Len(remote.call.replies)
             n == Len(remote.call.sent)
             k == Len(remote.pipeline)
  <2>1. e \in Nat /\ l \in Nat /\ n \in Nat /\ k \in Nat
    BY <1>3
  <2>2. l + n + e = k
    BY <1>4 DEF Unanswered
  <2>3. Unanswered(r) = (l - 1) + n + e /\ Len(r.pipeline) = k - 1
    BY <1>6, <1>7, <1>9 DEF Unanswered
  <2> HIDE DEF e, l, n, k
  <2>4. (l - 1) + n + e = k - 1
    BY <2>1, <2>2
  <2> QED
    BY <2>3, <2>4
<1>11. Carries(r, user, written)
  BY <1>1, <1>2, <1>4, <1>6, <1>7, <1>9, <1>10 DEF Carries, Owned
<1>12. Matches(r, L, refusals) /\ Head(remote.pipeline) \in L
  BY <1>1, <1>2, <1>4, <1>7, <1>9, AnswerMatches
<1>13. s \in Remotes /\ Fits(s, q, L, refusals)
  BY <1>5, <1>9, <1>11, <1>12, FillType, FillMatches DEF Fits
<1> HIDE DEF s
<1> QED
  BY <1>1, <1>4, <1>8, <1>12, <1>13, VerdictBox DEF w

\* When all answers are read, the head is the batch that was refused.
LEMMA RefusedBox ==
  ASSUME IInv, OutboxInv, OnRefused
  PROVE  /\ OutboxInv' /\ user \in Anyone /\ queues[user] # <<>>
         /\ Head(queues[user]) \in Logged(log) \cup refusals
         /\ queues' = [queues EXCEPT ![user] = Tail(@)]
         /\ UNCHANGED <<log, refusals, written>>
<1> DEFINE q == Tail(queues[user])
           w == Without(queues[user], Head(remote.pipeline))
           s == Rejected(remote, q)
           L == Logged(log)
<1>1. /\ remote.call.ended /\ remote.call.replies = <<>> /\ Becomes(Rejected(remote, w))
      /\ queues' = [queues EXCEPT ![user] = w]
      /\ UNCHANGED <<user, worker, late, log, refusals, written>>
  BY DEF OnRefused, backend
<1>2. /\ remote \in Remotes /\ Carries(remote, user, written) /\ ~remote.asks
      /\ user \in Anyone /\ queues[user] \in Seq(Batch) /\ Sorted(queues[user])
      /\ Fronts(remote.pipeline, queues[user]) /\ Matches(remote, L, refusals)
      /\ remote.pipeline \in Seq(Batch)
  BY StreamFacts, PipelineType DEF OutboxInv
<1>3. remote.handshake /\ remote.pipeline # <<>>
  BY <1>1, HeadIsThere
<1>4. /\ q \in Seq(Batch) /\ w = q
  <2>1. queues[user] # <<>> /\ Head(queues[user]) = Head(remote.pipeline)
    BY <1>2, <1>3, FrontOfTail
  <2> QED
    BY <1>2, <2>1, TailIsShift, WithoutHead
<1>5. Head(remote.pipeline) \in refusals
  <2>1. Len(remote.call.replies) = 0
    BY <1>1
  <2>2. remote.pipeline[Len(remote.call.replies) + 1] \in refusals
    BY <1>1, <1>2, <1>3 DEF Matches
  <2>3. Head(remote.pipeline) = remote.pipeline[1] /\ 0 + 1 = 1
    BY <1>2, <1>3, TailIsShift
  <2> QED
    BY <2>1, <2>2, <2>3
<1>6. Fits(s, q, L, refusals)
  BY <1>2, <1>3, RejectedFits
<1>7. s \in Remotes /\ Becomes(s)
  <2>1. Owned(Batches(q), user, written)
    <3>1. queues[user] # <<>>
      BY <1>2, <1>3, FrontOfTail
    <3>2. Batches(q) \subseteq Batches(queues[user])
      BY <1>2, <3>1, BatchesOfTail
    <3> QED
      BY <3>2, StreamFacts DEF Owned
  <2> QED
    BY <1>1, <1>2, <1>3, <1>4, <2>1, RejectedCarries
<1> HIDE DEF s, q
<1> QED
  BY <1>1, <1>3, <1>5, <1>6, <1>7, VerdictBox DEF q, w

\* The next request a ready call has under way is for the batch of the pipeline that
\* follows what is answered; taken or refused, the rest matches what it did.
LEMMA ReadMatches ==
  ASSUME NEW r \in Remotes, NEW L, NEW R, Matches(r, L, R), r.handshake, ~r.call.ended,
         r.call.sent # <<>>, Unanswered(r) = Len(r.pipeline)
  PROVE  LET n == Len(r.call.replies)
             m == Head(r.call.sent)
         IN /\ n + 1 \in DOMAIN r.pipeline /\ n \in Nat /\ m = r.pipeline[n + 1]
            /\ \A k \in 1..n : r.pipeline[k] \in L /\ k \in DOMAIN r.pipeline
            /\ \A s \in Remotes :
                 /\ s.handshake /\ s.pipeline = r.pipeline
                 /\ s.call.sent = Tail(r.call.sent)
                 => /\ s.call.replies = Append(r.call.replies, m) /\ ~s.call.ended
                         => Matches(s, L \cup {m}, R)
                    /\ s.call.replies = r.call.replies /\ s.call.ended
                         => Matches(s, L, R \cup {m})
<1> DEFINE n == Len(r.call.replies)
           l == Len(r.call.sent)
           k0 == Len(r.pipeline)
           m == Head(r.call.sent)
           p == r.pipeline
           x == r.call.replies
           y == r.call.sent
           ty == Tail(y)
           ax == Append(x, m)
<1>1. p \in Seq(Batch) /\ x \in Seq(Batch) /\ y \in Seq(Batch)
  BY PipelineType DEF Calls
<1>2. /\ k0 \in Nat /\ n \in Nat /\ l \in Nat \ {0} /\ DOMAIN x = 1..n /\ DOMAIN p = 1..k0
      /\ DOMAIN ty = 1..(l - 1) /\ DOMAIN y = 1..l
      /\ \A k \in 1..(l - 1) : ty[k] = y[k + 1]
      /\ m = y[1]
  <2>1. /\ l \in Nat \ {0} /\ DOMAIN ty = 1..(l - 1) /\ DOMAIN y = 1..l
        /\ \A k \in 1..(l - 1) : ty[k] = y[k + 1]
        /\ m = y[1]
    BY <1>1, TailIsShift
  <2>2. k0 \in Nat /\ n \in Nat /\ DOMAIN x = 1..n /\ DOMAIN p = 1..k0
    BY <1>1
  <2> QED
    BY <2>1, <2>2
<1>3. m \in Batch
  BY <1>1, <1>2
<1>4. /\ Len(ax) = n + 1 /\ DOMAIN ax = 1..(n + 1)
      /\ \A k \in 1..n : ax[k] = x[k]
      /\ ax[n + 1] = m
  BY <1>1, <1>3, AppendAdds
<1>5. k0 = n + l + 0 /\ Gap(r.call) = 0
  BY DEF Unanswered, Gap
<1>6. /\ \A k \in 1..n : x[k] = p[k] /\ p[k] \in L
      /\ \A k \in 1..l : y[k] = p[n + 0 + k]
  BY <1>2, <1>5 DEF Matches
<1> HIDE DEF n, l, k0, m, p, x, y, ty, ax
<1>7. n + 1 \in DOMAIN p /\ m = p[n + 1]
  <2>1. 1 \in 1..l /\ n + 0 + 1 = n + 1 /\ n + 1 \in 1..k0
    BY <1>2, <1>5
  <2> QED
    BY <1>2, <1>6, <2>1
<1>8. \A k \in 1..n : k \in DOMAIN p
  BY <1>2, <1>5
<1>9. ASSUME NEW k \in 1..(l - 1) PROVE ty[k] = p[(n + 1) + k]
  <2>1. k + 1 \in 1..l /\ n + 0 + (k + 1) = (n + 1) + k
    BY <1>2
  <2> QED
    BY <1>2, <1>6, <2>1
<1>10. ASSUME NEW s \in Remotes, s.handshake, s.pipeline = p, s.call.sent = ty
       PROVE  /\ s.call.replies = ax /\ ~s.call.ended => Matches(s, L \cup {m}, R)
              /\ s.call.replies = x /\ s.call.ended => Matches(s, L, R \cup {m})
  <2>1. ASSUME s.call.replies = ax, ~s.call.ended PROVE Matches(s, L \cup {m}, R)
    <3>1. Len(s.call.replies) + Gap(s.call) = n + 1
      BY <1>2, <1>4, <2>1 DEF Gap
    <3>2. \A k \in DOMAIN s.call.sent :
            s.call.sent[k] = s.pipeline[Len(s.call.replies) + Gap(s.call) + k]
      BY <1>2, <1>9, <1>10, <3>1
    <3>3. ASSUME NEW k \in DOMAIN s.call.replies
          PROVE  s.call.replies[k] = s.pipeline[k] /\ s.pipeline[k] \in L \cup {m}
      <4>1. k \in 1..n \/ k = n + 1
        BY <1>2, <1>4, <2>1
      <4> QED
        BY <1>4, <1>6, <1>7, <1>10, <2>1, <4>1
    <3> QED
      BY <1>10, <2>1, <3>2, <3>3 DEF Matches
  <2>2. ASSUME s.call.replies = x, s.call.ended PROVE Matches(s, L, R \cup {m})
    <3>1. Len(s.call.replies) + Gap(s.call) = n + 1 /\ Len(s.call.replies) = n
      BY <1>2, <2>2 DEF Gap, n, x
    <3>2. \A k \in DOMAIN s.call.sent :
            s.call.sent[k] = s.pipeline[Len(s.call.replies) + Gap(s.call) + k]
      BY <1>2, <1>9, <1>10, <3>1
    <3>3. \A k \in DOMAIN s.call.replies :
            s.call.replies[k] = s.pipeline[k] /\ s.pipeline[k] \in L
      BY <1>2, <1>6, <1>10, <2>2
    <3> QED
      BY <1>7, <1>10, <3>1, <3>2, <3>3 DEF Matches
  <2> QED
    BY <2>1, <2>2
<1> QED
  BY <1>2, <1>6, <1>7, <1>8, <1>10 DEF n, m, p, x, y, ty, ax

\* The log grows by one batch.
LEMMA LoggedMore ==
  ASSUME NEW S, NEW l \in Seq(S), NEW e \in S
  PROVE  Logged(Append(l, e)) = Logged(l) \cup {e.batch}
<1> DEFINE a == Append(l, e)
<1>1. /\ Len(l) \in Nat /\ DOMAIN l = 1..Len(l) /\ DOMAIN a = 1..(Len(l) + 1)
      /\ \A k \in 1..Len(l) : a[k] = l[k]
      /\ a[Len(l) + 1] = e
  BY AppendAdds
<1> HIDE DEF a
<1>2. \A k \in DOMAIN a : k \in DOMAIN l \/ k = Len(l) + 1
  BY <1>1
<1>3. (\A k \in DOMAIN l : k \in DOMAIN a) /\ Len(l) + 1 \in DOMAIN a
  BY <1>1
<1>4. Logged(a) \subseteq Logged(l) \cup {e.batch}
  BY <1>1, <1>2 DEF Logged
<1>5. Logged(l) \cup {e.batch} \subseteq Logged(a)
  BY <1>1, <1>3 DEF Logged
<1> QED
  BY <1>4, <1>5 DEF a

\* Whatever was written before b by the same user, and is still queued, is taken.
Turn(b) ==
  \A i, j \in DOMAIN queues[b.user] :
    i < j /\ queues[b.user][j] = b => queues[b.user][i] \in Logged(log)

\* What the backend does to the books: nothing, or it takes a batch in its turn and in
\* its user's name, or it refuses one.
Verdict ==
  \/ UNCHANGED <<log, refusals>>
  \/ \E b \in written :
       /\ Turn(b) /\ log' = Append(log, [as |-> b.user, batch |-> b]) /\ UNCHANGED refusals
  \/ \E b \in written : refusals' = refusals \cup {b} /\ UNCHANGED log

\* No batch is taken for the handshake.
LEMMA NotHandshake ==
  ASSUME IInv, OutboxInv, NEW b \in written
  PROVE  b # Handshake
<1>1. b.id \in 1..Cardinality(written) /\ Cardinality(written) \in Nat
  BY BoxTypes DEF OutboxInv, Numbered
<1>2. Handshake.id = 0
  BY DEF Handshake
<1> QED
  BY <1>1, <1>2

\* The backend reads a request of the open call.
LEMMA ReadsBox ==
  ASSUME IInv, OutboxInv, BackendReads
  PROVE  OutboxInv' /\ Verdict /\ UNCHANGED <<queues, written>>
<1> DEFINE m == Head(remote.call.sent)
           rest == Tail(remote.call.sent)
           more == Append(remote.call.replies, m)
           c == [remote.call EXCEPT !.sent = rest, !.replies = more]
           d == [remote.call EXCEPT !.sent = rest, !.ended = TRUE]
           q == queues[user]
           L == Logged(log)
           n == Len(remote.call.replies)
<1>1. /\ remote.call.sent # <<>> /\ ~remote.call.ended
      /\ UNCHANGED <<worker, user, queues, late, written>>
  BY DEF BackendReads
<1>2. /\ remote \in Remotes /\ Carries(remote, user, written) /\ user \in Anyone
      /\ q \in Seq(Batch) /\ Sorted(q) /\ Fronts(remote.pipeline, q)
      /\ Matches(remote, L, refusals)
      /\ log \in Seq([as : Anyone, batch : Batch])
  BY StreamFacts, BoxTypes DEF OutboxInv
<1>3. /\ remote.call \in Calls /\ remote.call.replies \in Seq(Batch)
      /\ remote.call.sent \in Seq(Batch)
  BY <1>2 DEF Remotes, Calls
<1>4. \/ remote' = [remote EXCEPT !.call = c] /\ m = Handshake /\ UNCHANGED <<log, refusals>>
      \/ /\ remote' = [remote EXCEPT !.call = c] /\ m # Handshake
         /\ Own(remote.call.token, m) /\ Commit(remote.call.token, m)
      \/ /\ remote' = [remote EXCEPT !.call = d] /\ m # Handshake /\ Refuse(m)
  BY <1>2, <1>3 DEF BackendReads, Remotes, Calls, backend
<1>5. /\ rest \in Seq(Batch) /\ m \in Batches(remote.call.sent) /\ m \in Batch
      /\ more \in Seq(Batch) /\ Batches(more) = Batches(remote.call.replies) \cup {m}
  <2>1. rest \in Seq(Batch) /\ m \in Batches(remote.call.sent) /\ m \in Batch
    BY <1>1, <1>3, BatchesOfTail
  <2> HIDE DEF m
  <2> QED
    BY <1>3, <2>1, BatchesOfAppend
<1>6. remote.state = "open"
  BY <1>1, Talking
<1>7. IF m = Handshake THEN ~remote.handshake
                       ELSE remote.handshake /\ m \in written /\ m.user = user
  <2>1. remote.handshake => m \in written /\ m.user = user
    BY <1>2, <1>5 DEF Carries, Owned
  <2>2. ~remote.handshake => m = Handshake
    BY <1>2, <1>5, <1>6 DEF Carries
  <2> HIDE DEF m
  <2> QED
    BY <2>1, <2>2, NotHandshake
<1>8. ASSUME remote.handshake
      PROVE  /\ n + 1 \in DOMAIN remote.pipeline /\ n \in Nat /\ m = remote.pipeline[n + 1]
             /\ \A k \in 1..n : remote.pipeline[k] \in L /\ k \in DOMAIN remote.pipeline
             /\ \A s \in Remotes :
                  /\ s.handshake /\ s.pipeline = remote.pipeline
                  /\ s.call.sent = rest
                  => /\ s.call.replies = more /\ ~s.call.ended
                          => Matches(s, L \cup {m}, refusals)
                     /\ s.call.replies = remote.call.replies /\ s.call.ended
                          => Matches(s, L, refusals \cup {m})
  <2>1. Unanswered(remote) = Len(remote.pipeline)
    BY <1>2, <1>8 DEF Carries
  <2> QED
    BY <1>1, <1>2, <1>8, <2>1, ReadMatches
<1> HIDE DEF rest, more, m
<1>9. /\ c \in Calls /\ c.sent = rest /\ c.replies = more /\ ~c.ended
      /\ d \in Calls /\ d.sent = rest /\ d.replies = remote.call.replies /\ d.ended
  BY <1>1, <1>3, <1>5 DEF Calls
<1> HIDE DEF c, d
<1>10. /\ remote' \in Remotes /\ remote'.handshake = remote.handshake
       /\ remote'.pipeline = remote.pipeline
       /\ remote' = [remote EXCEPT !.call = c] => remote'.call = c
       /\ remote' = [remote EXCEPT !.call = d] => remote'.call = d
  BY <1>2, <1>4, <1>9 DEF Remotes
<1>11. /\ Verdict /\ L \subseteq Logged(log') /\ Matches(remote', Logged(log'), refusals')
  <2>1. CASE remote' = [remote EXCEPT !.call = c] /\ m = Handshake /\ UNCHANGED <<log, refusals>>
    <3>1. ~remote'.handshake /\ remote'.call.replies = more
      BY <1>7, <1>9, <1>10, <2>1
    <3>2. Batches(remote.call.replies) \subseteq {Handshake}
      BY <1>2, <1>6, <1>7, <2>1 DEF Matches
    <3>3. Matches(remote', L, refusals)
      BY <1>5, <2>1, <3>1, <3>2 DEF Matches
    <3> QED
      BY <2>1, <3>3 DEF Verdict
  <2>2. CASE /\ remote' = [remote EXCEPT !.call = c] /\ m # Handshake
             /\ Own(remote.call.token, m) /\ Commit(remote.call.token, m)
    <3> DEFINE e == [as |-> m.user, batch |-> m]
    <3>1. remote.handshake /\ m \in written /\ m.user = user
      BY <1>7, <2>2
    <3>2. log' = Append(log, e) /\ refusals' = refusals
      BY <2>2 DEF Own, Commit
    <3>3. Logged(log') = L \cup {m}
      <4> DEFINE E == [as : Anyone, batch : Batch]
      <4>1. e \in E /\ e.batch = m /\ log \in Seq(E)
        BY <1>2, <1>5, <3>1
      <4> HIDE DEF e, E
      <4>2. Logged(Append(log, e)) = Logged(log) \cup {e.batch}
        BY <4>1, LoggedMore
      <4> QED
        BY <3>2, <4>1, <4>2
    <3>4. Matches(remote', L \cup {m}, refusals)
      BY <1>8, <1>9, <1>10, <2>2, <3>1
    <3>5. Turn(m)
      <4> SUFFICES ASSUME NEW i \in DOMAIN q, NEW j \in DOMAIN q, i < j, q[j] = m
                   PROVE  q[i] \in L
        BY <3>1 DEF Turn
      <4>0. /\ n + 1 \in DOMAIN remote.pipeline /\ n \in Nat /\ m = remote.pipeline[n + 1]
            /\ \A k \in 1..n : remote.pipeline[k] \in L /\ k \in DOMAIN remote.pipeline
        BY <1>8, <3>1
      <4>1. n + 1 \in DOMAIN q /\ q[n + 1] = m
        <5>1. remote.pipeline \in Seq(Batch)
          BY <1>2, PipelineType
        <5>2. n + 1 \in DOMAIN q
          BY <1>2, <4>0, <5>1 DEF Fronts
        <5> QED
          BY <1>2, <4>0, <5>2 DEF Fronts
      <4>2. q[j].id <= q[n + 1].id
        <5>1. m.id <= m.id
          BY <1>5 DEF Batch
        <5> QED
          BY <4>1, <5>1
      <4>3. j <= n + 1
        BY <1>2, <4>1, <4>2, SortedIsOnce
      <4>4. i \in 1..n
        BY <1>2, <4>0, <4>3
      <4>5. q[i] = remote.pipeline[i]
        BY <1>2, <4>0, <4>4 DEF Fronts
      <4> QED
        BY <4>0, <4>4, <4>5
    <3> HIDE DEF L
    <3>6. Verdict
      BY <3>1, <3>2, <3>5 DEF Verdict
    <3> QED
      BY <3>2, <3>3, <3>4, <3>6
  <2>3. CASE remote' = [remote EXCEPT !.call = d] /\ m # Handshake /\ Refuse(m)
    <3>1. remote.handshake /\ m \in written
      BY <1>7, <2>3
    <3>2. refusals' = refusals \cup {m} /\ log' = log
      BY <2>3 DEF Refuse
    <3>3. Matches(remote', L, refusals \cup {m})
      BY <1>8, <1>9, <1>10, <2>3, <3>1
    <3> QED
      BY <3>1, <3>2, <3>3 DEF Verdict
  <2> QED
    BY <1>4, <2>1, <2>2, <2>3
<1>12. \A o \in late' : InOrder(o.sent, queues'[o.token], Logged(log'))
  BY <1>1, <1>11 DEF OutboxInv, InOrder
<1>13. Pending("write")' = Pending("write")
  BY <1>1 DEF Pending
<1>14. OutboxInv'
  BY <1>1, <1>2, <1>10, <1>11, <1>12, <1>13 DEF OutboxInv
<1> QED
  BY <1>1, <1>11, <1>14

\* When the first of what is late is taken, the rest is in order.
LEMMA InOrderTail ==
  ASSUME NEW s \in Seq(Batch), s # <<>>, NEW q, NEW L, InOrder(s, q, L)
  PROVE  InOrder(Tail(s), q, L \cup {Head(s)})
<1> DEFINE t == Tail(s)
           m == Head(s)
           l == Len(s)
<1>1. /\ l \in Nat \ {0} /\ DOMAIN s = 1..l /\ DOMAIN t = 1..(l - 1)
      /\ \A k \in 1..(l - 1) : t[k] = s[k + 1]
      /\ m = s[1]
  BY TailIsShift
<1> HIDE DEF t, m, l
<1>2. ASSUME NEW k \in DOMAIN t, NEW j \in DOMAIN q, q[j].id < t[k].id
      PROVE  q[j] \in L \cup {m} \/ \E i \in DOMAIN t : i < k /\ t[i] = q[j]
  <2>1. k + 1 \in DOMAIN s /\ t[k] = s[k + 1] /\ k \in Nat
    BY <1>1
  <2>2. q[j] \in L \/ \E i \in DOMAIN s : i < k + 1 /\ s[i] = q[j]
    BY <1>2, <2>1 DEF InOrder
  <2>3. ASSUME NEW i \in DOMAIN s, i < k + 1, s[i] = q[j], i # 1
        PROVE  \E h \in DOMAIN t : h < k /\ t[h] = q[j]
    <3>1. i - 1 \in 1..(l - 1) /\ i - 1 < k /\ (i - 1) + 1 = i
      BY <1>1, <2>1, <2>3
    <3>2. t[i - 1] = s[(i - 1) + 1]
      BY <1>1, <3>1
    <3> QED
      BY <1>1, <2>3, <3>1, <3>2
  <2> QED
    BY <1>1, <2>2, <2>3
<1>3. InOrder(t, q, L \cup {m})
  BY <1>2 DEF InOrder
<1> QED
  BY <1>3 DEF t, m

\* What is late arrives.
LEMMA LateBox ==
  ASSUME IInv, OutboxInv, NEW o \in late, LateArrives(o)
  PROVE  OutboxInv' /\ Verdict /\ UNCHANGED <<queues, written>>
<1> DEFINE m == Head(o.sent)
           x == [o EXCEPT !.sent = Tail(o.sent)]
           rest == IF Len(o.sent) = 1 THEN {} ELSE {x}
           q == queues[o.token]
           L == Logged(log)
<1>1. /\ \/ Own(o.token, m) /\ Commit(o.token, m) /\ late' = (late \ {o}) \cup rest
         \/ Refuse(m) /\ late' = late \ {o}
      /\ UNCHANGED <<worker, user, queues, remote, written>>
  BY DEF LateArrives, client
<1>2. /\ o.sent # <<>> /\ Owned(Batches(o.sent), o.token, written)
      /\ o.token \in Anyone /\ o.sent \in Seq(Batch)
      /\ o \in [token : Anyone, sent : Seq(Batch)]
      /\ q \in Seq(Batch) /\ Sorted(q) /\ InOrder(o.sent, q, L)
      /\ log \in Seq([as : Anyone, batch : Batch])
      /\ Fronts(remote.pipeline, queues[user]) /\ Matches(remote, L, refusals)
  <2>1. /\ o.sent # <<>> /\ Owned(Batches(o.sent), o.token, written)
        /\ o.token \in Anyone /\ o.sent \in Seq(Batch)
        /\ o \in [token : Anyone, sent : Seq(Batch)]
    BY DEF IInv, Typed, Books
  <2> QED
    BY <2>1, StreamFacts, BoxTypes DEF OutboxInv
<1>3. m \in written /\ m.user = o.token /\ m \in Batch /\ m = o.sent[1] /\ 1 \in DOMAIN o.sent
  <2>1. m \in Batches(o.sent) /\ m \in Batch /\ m = o.sent[1] /\ 1 \in DOMAIN o.sent
    BY <1>2, BatchesOfTail
  <2> HIDE DEF m
  <2> QED
    BY <1>2, <2>1 DEF Owned
<1>4. /\ x.sent = Tail(o.sent) /\ x.token = o.token
      /\ InOrder(Tail(o.sent), q, L \cup {m})
  BY <1>2, InOrderTail
<1> HIDE DEF x, m
<1>5. \A y \in late' : y \in late \/ (y = x /\ log' # log) \/ (y = x /\ Commit(o.token, m))
  BY <1>1
<1>6. /\ Verdict /\ L \subseteq Logged(log') /\ refusals \subseteq refusals'
      /\ x \in late' => x \in late \/ InOrder(x.sent, q, Logged(log'))
  <2>1. CASE Own(o.token, m) /\ Commit(o.token, m) /\ late' = (late \ {o}) \cup rest
    <3> DEFINE e == [as |-> m.user, batch |-> m]
    <3>1. log' = Append(log, e) /\ refusals' = refusals
      BY <2>1 DEF Own, Commit
    <3>2. Logged(log') = L \cup {m}
      <4> DEFINE E == [as : Anyone, batch : Batch]
      <4>1. e \in E /\ e.batch = m /\ log \in Seq(E)
        BY <1>2, <1>3
      <4> HIDE DEF e, E
      <4>2. Logged(Append(log, e)) = Logged(log) \cup {e.batch}
        BY <4>1, LoggedMore
      <4> QED
        BY <3>1, <4>1, <4>2
    <3>3. Turn(m)
      <4> SUFFICES ASSUME NEW i \in DOMAIN q, NEW j \in DOMAIN q, i < j, q[j] = m
                   PROVE  q[i] \in L
        BY <1>3 DEF Turn
      <4>1. q[i].id < o.sent[1].id
        BY <1>2, <1>3, SortedIsOnce
      <4>2. q[i] \in L \/ \E h \in DOMAIN o.sent : h < 1 /\ o.sent[h] = q[i]
        BY <1>2, <1>3, <4>1 DEF InOrder
      <4>3. \A h \in DOMAIN o.sent : ~(h < 1)
        BY <1>2
      <4> QED
        BY <4>2, <4>3
    <3> HIDE DEF L
    <3>4. Verdict
      BY <1>3, <3>1, <3>3 DEF Verdict
    <3> QED
      BY <1>4, <3>1, <3>2, <3>4
  <2>2. CASE Refuse(m) /\ late' = late \ {o}
    <3>1. refusals' = refusals \cup {m} /\ log' = log
      BY <2>2 DEF Refuse
    <3> QED
      BY <1>3, <2>2, <3>1 DEF Verdict
  <2> QED
    BY <1>1, <2>1, <2>2
<1>7. ASSUME NEW y \in late' PROVE InOrder(y.sent, queues'[y.token], Logged(log'))
  <2>1. CASE y \in late
    BY <1>1, <1>6, <2>1 DEF OutboxInv, InOrder
  <2>2. CASE y \notin late
    <3>1. y = x
      BY <1>5, <2>2
    <3> QED
      BY <1>1, <1>4, <1>6, <1>7, <2>2, <3>1
  <2> QED
    BY <2>1, <2>2
<1>8. Fits(remote', queues'[user'], Logged(log'), refusals')
  <2>1. Fits(remote, queues[user], L, refusals)
    BY <1>2 DEF Fits
  <2>2. Fits(remote, queues[user], Logged(log'), refusals')
    BY <1>6, <2>1, FitsMore
  <2> QED
    BY <1>1, <2>2
<1>9. Pending("write")' = Pending("write")
  BY <1>1 DEF Pending
<1>10. OutboxInv'
  BY <1>1, <1>7, <1>8, <1>9 DEF OutboxInv, Fits
<1> QED
  BY <1>1, <1>6, <1>10

\* The launch empties all queues, or none, and fills a new pipeline.
LEMMA LaunchBox ==
  ASSUME IInv, OutboxInv, Launch
  PROVE  /\ OutboxInv' /\ UNCHANGED <<log, refusals, written>>
         /\ queues' = queues \/ (auth = None /\ ~running /\ queues' = [u \in Anyone |-> <<>>])
<1> DEFINE q == Cleared[auth]
           s == Fill(Stopped, q)
           x == [s EXCEPT !.asks = FALSE]
           L == Logged(log)
<1>1. /\ ~running /\ user' = auth /\ queues' = Cleared /\ remote' = x
      /\ UNCHANGED <<worker, late, log, refusals, written>>
  BY DEF Launch, backend
<1>2. /\ auth \in Anyone /\ queues \in [Anyone -> Seq(Batch)]
      /\ \A u \in Anyone : Sorted(queues[u])
  BY DEF IInv, Typed, OutboxInv
<1>3. Cleared = queues \/ (auth = None /\ Cleared = [u \in Anyone |-> <<>>])
  BY DEF Cleared
<1>4. /\ Cleared \in [Anyone -> Seq(Batch)]
      /\ \A u \in Anyone : Cleared[u] = queues[u] \/ Cleared[u] = <<>>
      /\ \A u \in Anyone : Sorted(Cleared[u])
  <2>1. Sorted(<<>>)
    BY DEF Sorted
  <2> DEFINE C == Cleared
             N == [u \in Anyone |-> <<>>]
  <2>2. N \in [Anyone -> Seq(Batch)] /\ \A u \in Anyone : N[u] = <<>>
    OBVIOUS
  <2>3. C = queues \/ C = N
    BY <1>3
  <2> HIDE DEF C, N
  <2>4. /\ C \in [Anyone -> Seq(Batch)]
        /\ \A u \in Anyone : C[u] = queues[u] \/ C[u] = <<>>
        /\ \A u \in Anyone : Sorted(C[u])
    BY <1>2, <2>1, <2>2, <2>3
  <2> QED
    BY <2>4 DEF C
<1>5. q \in Seq(Batch) /\ Sorted(q)
  BY <1>2, <1>4
<1>6. /\ Stopped \in Remotes /\ ~Stopped.asks /\ Stopped.state = "initial" /\ ~Stopped.handshake
      /\ Stopped.pipeline = <<>> /\ Stopped.pipeline \in Pipelines
  <2>1. Stopped \in Remotes /\ ~Stopped.asks /\ Stopped.state = "initial"
    BY StoppedCarries
  <2> QED
    BY <2>1, PipelineType DEF Stopped
<1> HIDE DEF q
<1>7. s \in Remotes /\ s.state # "open" /\ ~s.handshake
  BY <1>5, <1>6, FillType DEF IsStarted
<1>8. Fronts(s.pipeline, q)
  <2>1. s.pipeline = Stopped.pipeline \o Following(Stopped.pipeline, q)
    BY <1>5, <1>6, FillSends
  <2>2. Fronts(Stopped.pipeline, q)
    BY <1>5, <1>6 DEF Fronts
  <2> QED
    BY <1>5, <1>6, <2>1, <2>2, FollowingFollows
<1> HIDE DEF s
<1>9. x.state # "open" /\ ~x.handshake /\ x.pipeline = s.pipeline
  BY <1>7 DEF Remotes
<1> HIDE DEF x
<1>10. Fits(remote', queues'[user'], L, refusals)
  <2>1. queues'[user'] = q
    BY <1>1 DEF q
  <2> QED
    BY <1>1, <1>8, <1>9, <2>1, SilentMatches DEF Fits
<1>11. ASSUME NEW o \in late PROVE InOrder(o.sent, queues'[o.token], L)
  <2>1. InOrder(o.sent, queues[o.token], L) /\ o.token \in Anyone
    BY BoxTypes DEF OutboxInv
  <2>2. Cleared[o.token] = queues[o.token] \/ Cleared[o.token] = <<>>
    BY <1>4, <2>1
  <2>3. InOrder(o.sent, <<>>, L)
    BY DEF InOrder
  <2> QED
    BY <1>1, <2>1, <2>2, <2>3
<1>12. Pending("write")' = Pending("write")
  BY <1>1 DEF Pending
<1>13. OutboxInv'
  BY <1>1, <1>4, <1>10, <1>11, <1>12 DEF OutboxInv, Fits
<1> QED
  BY <1>1, <1>3, <1>13

-----------------------------------------------------------------------------
(* The invariant and the theorems.                                         *)

\* All that a step does to the outboxes and to the backend's books.
Wrote(b) ==
  /\ b \notin written /\ b.user = user /\ b.id \in 1..MaxWrites
  /\ written' = written \cup {b}
  /\ queues' = [queues EXCEPT ![user] = Append(@, b)]
  /\ UNCHANGED <<log, refusals>>

Settled ==
  /\ user \in Anyone /\ queues[user] # <<>>
  /\ Head(queues[user]) \in Logged(log) \cup refusals
  /\ queues' = [queues EXCEPT ![user] = Tail(@)]
  /\ UNCHANGED <<log, refusals, written>>

Forgot ==
  /\ auth = None /\ ~running /\ queues' = [u \in Anyone |-> <<>>]
  /\ UNCHANGED <<log, refusals, written>>

Moves ==
  \/ \E b \in Batch : Wrote(b)
  \/ Settled
  \/ Verdict /\ UNCHANGED <<queues, written>>
  \/ Forgot

\* Every step keeps the invariant, and does one of these things.
LEMMA NextBox ==
  ASSUME IInv, OutboxInv, [Next]_vars
  PROVE  OutboxInv' /\ Moves
<1>1. CASE \/ BackoffElapses \/ IdleElapses \/ RunChange \/ RunResume \/ OnHandshakeComplete
           \/ OnBroken \/ OnConnectivityChange \/ Kill \/ UNCHANGED vars
  BY <1>1, QuietBox DEF Moves, Verdict
<1>2. CASE Auth \/ DeliverNotify \/ DeliverToken \/ AppWrites
  BY <1>2, ElsewhereBox DEF Moves, Verdict
<1>3. CASE RunWrite
  BY <1>3, WriteBox DEF Moves, Wrote
<1>4. CASE OnMutationResult
  BY <1>4, AnswerBox DEF Moves, Settled
<1>5. CASE OnRefused
  BY <1>5, RefusedBox DEF Moves, Settled
<1>6. CASE BackendReads
  BY <1>6, ReadsBox DEF Moves
<1>7. CASE \E o \in late : LateArrives(o)
  BY <1>7, LateBox DEF Moves
<1>8. CASE Launch
  BY <1>8, LaunchBox DEF Moves, Verdict, Forgot
<1> QED
  BY <1>1, <1>2, <1>3, <1>4, <1>5, <1>6, <1>7, <1>8
     DEF Next, MainThread, Worker, Timer, Stream, Backend

\* Nothing is queued, sent, late or judged at first.
LEMMA InitBox == Init => OutboxInv
<1> SUFFICES ASSUME Init PROVE OutboxInv
  OBVIOUS
<1>1. /\ written = {} /\ worker = <<>> /\ queues = [u \in Anyone |-> <<>>] /\ user \in Anyone
      /\ remote = Stopped /\ late = {}
  BY DEF Init, Anyone
<1>2. Numbered(written)
  BY <1>1 DEF Numbered
<1>3. Cardinality(written) + Pending("write") <= MaxWrites
  <2>1. WritesIn(<<>>) = {}
    BY DEF WritesIn
  <2>2. Cardinality(written) = 0 /\ Pending("write") = 0
    BY <1>1, <2>1, PendingIs, FS_EmptySet
  <2>3. MaxWrites \in Nat
    BY WriteStreamAssumption DEF WriteStreamAssumption
  <2> QED
    BY <2>2, <2>3
<1>4. \A u \in Anyone : queues[u] = <<>> /\ Sorted(queues[u])
  BY <1>1 DEF Sorted
<1>5. /\ remote.state # "open" /\ ~remote.handshake /\ remote.pipeline = <<>>
  BY <1>1 DEF Stopped
<1>6. Fronts(remote.pipeline, queues[user])
  BY <1>1, <1>4, <1>5 DEF Fronts
<1>7. Matches(remote, Logged(log), refusals)
  BY <1>5, SilentMatches
<1> QED
  BY <1>1, <1>2, <1>3, <1>4, <1>6, <1>7 DEF OutboxInv

\* The invariant of this module, by induction over the steps.
THEOREM OutboxInvHolds == Spec => []OutboxInv
<1>1. Init => OutboxInv
  BY InitBox
<1>2. IInv /\ OutboxInv /\ [Next]_vars => OutboxInv'
  BY NextBox
<1> QED
  BY <1>1, <1>2, Inductive, PTL DEF Spec

\* A sequence of one element.
LEMMA OneOf ==
  ASSUME NEW S, NEW s \in Seq(S), NEW e, Len(s) = 1, s[1] = e
  PROVE  s = <<e>>
  OBVIOUS

\* A call that has not made its handshake owes the answer to it, and no other.
LEMMA GreetingOut ==
  ASSUME NEW c \in Calls, Len(c.sent) + Len(c.replies) = 1,
         Batches(c.sent) \subseteq {Handshake}, Batches(c.replies) \subseteq {Handshake}
  PROVE  Out(c) = <<Handshake>>
<1> DEFINE x == c.replies
           y == c.sent
           o == x \o y
<1>1. /\ x \in Seq(Batch) /\ y \in Seq(Batch) /\ Len(x) \in Nat /\ Len(y) \in Nat
      /\ Len(y) + Len(x) = 1
  BY DEF Calls
<1>2. o \in Seq(Batch) /\ Len(o) = Len(x) + Len(y) /\ Batches(o) = Batches(x) \cup Batches(y)
  BY <1>1, JoinAdds, BatchesOfJoin
<1> HIDE DEF x, y, o
<1>3. Len(o) = 1
  BY <1>1, <1>2
<1>4. o[1] \in Batches(o)
  BY <1>2, <1>3 DEF Batches
<1>5. o[1] = Handshake
  BY <1>2, <1>4 DEF x, y
<1>6. o = <<Handshake>>
  BY <1>2, <1>3, <1>5, OneOf
<1> QED
  BY <1>6 DEF Out, o, x, y

\* What a ready call owes, with the gap at g if there is one, is the pipeline.
LEMMA ReadyOut ==
  ASSUME NEW r \in Remotes, NEW L, NEW R, Matches(r, L, R), r.handshake,
         Unanswered(r) = Len(r.pipeline)
  PROVE  LET n == Len(r.call.replies) IN
         IF r.call.ended
           THEN /\ n < Len(r.pipeline) /\ r.pipeline[n + 1] \in R
                /\ Out(r.call) = RemoveAt(r.pipeline, n + 1)
           ELSE Out(r.call) = r.pipeline
<1> DEFINE p == r.pipeline
           x == r.call.replies
           y == r.call.sent
           o == x \o y
           n == Len(x)
           l == Len(y)
           g == Gap(r.call)
<1>1. p \in Seq(Batch) /\ x \in Seq(Batch) /\ y \in Seq(Batch)
  BY PipelineType DEF Calls
<1>2. /\ Len(p) \in Nat /\ n \in Nat /\ l \in Nat /\ DOMAIN x = 1..n /\ DOMAIN y = 1..l
      /\ DOMAIN p = 1..Len(p)
      /\ o \in Seq(Batch) /\ Len(o) = n + l
      /\ \A k \in 1..n : o[k] = x[k]
      /\ \A k \in 1..l : o[n + k] = y[k]
  <2>1. /\ o \in Seq(Batch) /\ Len(o) = n + l
        /\ \A k \in 1..n : o[k] = x[k]
        /\ \A k \in 1..l : o[n + k] = y[k]
    <3>1. o = x \o y
      OBVIOUS
    <3> HIDE DEF o, x, y
    <3> QED
      BY <1>1, <3>1, JoinIs
  <2>2. /\ Len(p) \in Nat /\ n \in Nat /\ l \in Nat /\ DOMAIN x = 1..n /\ DOMAIN y = 1..l
        /\ DOMAIN p = 1..Len(p)
    BY <1>1
  <2> HIDE DEF p, x, y, o, n, l, g
  <2> QED
    BY <2>1, <2>2
<1>3. Len(p) = n + l + g /\ g = (IF r.call.ended THEN 1 ELSE 0)
  BY DEF Unanswered, Gap
<1>4. /\ \A k \in 1..n : x[k] = p[k]
      /\ \A k \in 1..l : y[k] = p[n + g + k]
      /\ r.call.ended => p[n + 1] \in R
  BY <1>2 DEF Matches
<1>5. Out(r.call) = o
  BY DEF Out
<1> HIDE DEF p, x, y, o, n, l, g
<1>6. \A k \in 1..(n + l) : o[k] = IF k <= n THEN p[k] ELSE p[g + k]
  <2> SUFFICES ASSUME NEW k \in 1..(n + l) PROVE o[k] = IF k <= n THEN p[k] ELSE p[g + k]
    OBVIOUS
  <2>1. CASE k <= n
    <3>1. k \in 1..n
      BY <1>2, <2>1
    <3> QED
      BY <1>2, <1>4, <2>1, <3>1
  <2>2. CASE ~(k <= n)
    <3>1. k - n \in 1..l /\ n + (k - n) = k /\ n + g + (k - n) = g + k
      BY <1>2, <1>3, <2>2
    <3>2. o[n + (k - n)] = y[k - n] /\ y[k - n] = p[n + g + (k - n)]
      BY <1>2, <1>4, <3>1
    <3> QED
      BY <2>2, <3>1, <3>2
  <2> QED
    BY <2>1, <2>2
<1>7. ASSUME ~r.call.ended PROVE o = p
  <2>1. g = 0 /\ Len(o) = Len(p)
    BY <1>2, <1>3, <1>7
  <2>2. \A k \in 1..Len(o) : o[k] = p[k]
    BY <1>2, <1>6, <2>1
  <2> QED
    BY <1>1, <1>2, <2>1, <2>2, SeqEqual
<1>8. ASSUME r.call.ended PROVE n < Len(p) /\ o = RemoveAt(p, n + 1)
  <2> DEFINE a == SubSeq(p, 1, n)
             b == SubSeq(p, n + 2, Len(p))
             w == a \o b
  <2>1. g = 1 /\ Len(p) = n + l + 1 /\ n < Len(p)
    BY <1>2, <1>3, <1>8
  <2>2. a \in Seq(Batch) /\ Len(a) = n /\ \A k \in 1..n : a[k] = p[k]
    BY <1>1, <1>2, <2>1
  <2>3. b \in Seq(Batch) /\ Len(b) = l /\ \A k \in 1..l : b[k] = p[n + 1 + k]
    BY <1>1, <1>2, <2>1
  <2>4. RemoveAt(p, n + 1) = w
    <3>1. (n + 1) - 1 = n /\ (n + 1) + 1 = n + 2
      BY <1>2
    <3> QED
      BY <3>1 DEF RemoveAt
  <2> HIDE DEF a, b
  <2>5. /\ w \in Seq(Batch) /\ Len(w) = n + l
        /\ \A k \in 1..n : w[k] = a[k]
        /\ \A k \in 1..l : w[n + k] = b[k]
    <3>1. /\ w \in Seq(Batch) /\ Len(w) = Len(a) + Len(b)
          /\ \A k \in 1..Len(a) : w[k] = a[k]
          /\ \A k \in 1..Len(b) : w[Len(a) + k] = b[k]
      <4>1. w = a \o b
        OBVIOUS
      <4>2. a \in Seq(Batch) /\ b \in Seq(Batch)
        BY <2>2, <2>3
      <4> HIDE DEF w
      <4> QED
        BY <4>1, <4>2, JoinIs
    <3> HIDE DEF w
    <3> QED
      BY <2>2, <2>3, <3>1
  <2> HIDE DEF w
  <2>6. ASSUME NEW k \in 1..(n + l) PROVE w[k] = IF k <= n THEN p[k] ELSE p[1 + k]
    <3>1. CASE k <= n
      <4>1. k \in 1..n
        BY <1>2, <3>1
      <4> QED
        BY <2>2, <2>5, <3>1, <4>1
    <3>2. CASE ~(k <= n)
      <4>1. k - n \in 1..l /\ n + (k - n) = k /\ n + 1 + (k - n) = 1 + k
        BY <1>2, <3>2
      <4>2. w[n + (k - n)] = b[k - n] /\ b[k - n] = p[n + 1 + (k - n)]
        BY <2>3, <2>5, <4>1
      <4> QED
        BY <3>2, <4>1, <4>2
    <3> QED
      BY <3>1, <3>2
  <2>7. \A k \in 1..Len(o) : o[k] = w[k]
    BY <1>2, <1>6, <2>1, <2>6
  <2>8. o = w
    BY <1>2, <2>5, <2>7, SeqEqual
  <2> QED
    BY <2>1, <2>4, <2>8
<1> QED
  BY <1>4, <1>5, <1>7, <1>8 DEF p, x, n

\* An open call owes answers for exactly the pipeline, in order, and the pipeline is
\* the front of the user's queue: so the client is right to take each answer, and the
\* end of a call, for the head of the pipeline, though neither names a batch.
THEOREM AnswersAreForTheHead == Spec => []CallCarriesPipeline
<1>1. ASSUME IInv, OutboxInv PROVE CallCarriesPipeline
  <2> DEFINE r == remote
             q == queues[user]
             p == r.pipeline
  <2>1. /\ r \in Remotes /\ Carries(r, user, written) /\ q \in Seq(Batch)
        /\ Fronts(p, q) /\ Matches(r, Logged(log), refusals)
    BY <1>1, StreamFacts DEF OutboxInv
  <2>2. p \in Seq(Batch) /\ r.call \in Calls
    BY <2>1, PipelineType
  <2> HIDE DEF r, q, p
  <2>3. IsPrefix(p, q)
    <3>1. Len(p) \in Nat /\ Len(p) <= Len(q) /\ DOMAIN p = 1..Len(p) /\ Len(q) \in Nat
      BY <2>1, <2>2 DEF Fronts
    <3> DEFINE a == SubSeq(p, 1, Len(p))
               b == SubSeq(q, 1, Len(p))
    <3>2. a \in Seq(Batch) /\ Len(a) = Len(p) /\ \A k \in 1..Len(p) : a[k] = p[k]
      BY <2>2, <3>1
    <3>3. b \in Seq(Batch) /\ Len(b) = Len(p) /\ \A k \in 1..Len(p) : b[k] = q[k]
      BY <2>1, <3>1
    <3> HIDE DEF a, b
    <3>4. \A k \in 1..Len(a) : a[k] = b[k]
      BY <2>1, <3>1, <3>2, <3>3 DEF Fronts
    <3>5. a = b
      BY <3>2, <3>3, <3>4, SeqEqual
    <3> QED
      BY <3>1, <3>5 DEF IsPrefix, a, b
  <2>4. r.state # "open" => r.call = NoCall /\ ~r.handshake
    BY <2>1 DEF Carries
  <2>5. r.state = "open" /\ ~r.handshake => Out(r.call) = <<Handshake>> /\ ~r.call.ended
    BY <2>1, <2>2, GreetingOut DEF Carries, Matches
  <2>6. r.handshake =>
          LET n == Len(r.call.replies) IN
          IF r.call.ended
            THEN /\ n < Len(p) /\ p[n + 1] \in refusals
                 /\ Out(r.call) = RemoveAt(p, n + 1)
            ELSE Out(r.call) = p
    <3> SUFFICES ASSUME r.handshake
                 PROVE  LET n == Len(r.call.replies) IN
                        IF r.call.ended
                          THEN /\ n < Len(p) /\ p[n + 1] \in refusals
                               /\ Out(r.call) = RemoveAt(p, n + 1)
                          ELSE Out(r.call) = p
      OBVIOUS
    <3>1. Unanswered(r) = Len(r.pipeline)
      BY <2>1 DEF Carries
    <3> QED
      BY <2>1, <3>1, ReadyOut DEF p
  <2> QED
    BY <2>3, <2>4, <2>5, <2>6 DEF CallCarriesPipeline, r, q, p
<1> QED
  BY <1>1, Inductive, OutboxInvHolds, PTL

\* A write leaves its queue only with a verdict of the backend's, or forgotten by a
\* launch that finds nobody signed in: not with a change of user, a broken call, a
\* restarted network or a kill.
THEOREM OnlySignedOutLoses == Spec => LostOnlySignedOut
<1> DEFINE Lost == \A u \in Anyone : \A b \in Batches(queues[u]) \ Batches(queues'[u]) :
                     \/ b \in refusals \/ \E k \in DOMAIN log : log[k].batch = b
                     \/ ~running /\ auth = None
<1>1. ASSUME IInv, OutboxInv, [Next]_vars PROVE Lost
  <2> SUFFICES ASSUME NEW u \in Anyone, NEW b \in Batches(queues[u]), b \notin Batches(queues'[u])
               PROVE  \/ b \in refusals \/ \E k \in DOMAIN log : log[k].batch = b
                      \/ ~running /\ auth = None
    OBVIOUS
  <2>1. queues \in [Anyone -> Seq(Batch)] /\ user \in Anyone
    BY <1>1, BoxTypes
  <2>2. Moves
    BY <1>1, NextBox
  <2>3. CASE \E x \in Batch : Wrote(x)
    <3>1. PICK x \in Batch : queues' = [queues EXCEPT ![user] = Append(@, x)]
      BY <2>3 DEF Wrote
    <3>2. queues'[u] = queues[u] \/ queues'[u] = Append(queues[u], x)
      BY <2>1, <3>1
    <3>3. Batches(queues[u]) \subseteq Batches(Append(queues[u], x))
      BY <2>1, BatchesOfAppend
    <3> QED
      BY <3>2, <3>3
  <2>4. CASE Settled
    <3> DEFINE q == queues[u]
    <3>1. /\ queues[user] # <<>> /\ Head(queues[user]) \in Logged(log) \cup refusals
          /\ queues' = [queues EXCEPT ![user] = Tail(@)]
      BY <2>4 DEF Settled
    <3>2. u = user /\ queues'[u] = Tail(q)
      BY <2>1, <3>1
    <3>3. q \in Seq(Batch) /\ q # <<>> /\ Head(q) \in Logged(log) \cup refusals
      BY <2>1, <3>1, <3>2
    <3>4. PICK k \in DOMAIN q : q[k] = b
      BY DEF Batches
    <3> HIDE DEF q
    <3>5. /\ Len(q) \in Nat \ {0} /\ DOMAIN q = 1..Len(q)
          /\ DOMAIN Tail(q) = 1..(Len(q) - 1)
          /\ \A j \in 1..(Len(q) - 1) : Tail(q)[j] = q[j + 1]
          /\ Head(q) = q[1]
      BY <3>3, TailIsShift
    <3>6. k = 1
      <4>1. ASSUME k # 1 PROVE FALSE
        <5>1. k - 1 \in DOMAIN Tail(q) /\ Tail(q)[k - 1] = q[(k - 1) + 1] /\ (k - 1) + 1 = k
          BY <3>4, <3>5, <4>1
        <5>2. b \in Batches(Tail(q))
          BY <3>4, <5>1 DEF Batches
        <5> QED
          BY <3>2, <5>2
      <4> QED
        BY <4>1
    <3>7. b \in Logged(log) \cup refusals
      BY <3>3, <3>4, <3>5, <3>6
    <3> QED
      BY <3>7 DEF Logged
  <2>5. CASE Verdict /\ UNCHANGED <<queues, written>>
    BY <2>5
  <2>6. CASE Forgot
    BY <2>6 DEF Forgot
  <2> QED
    BY <2>2, <2>3, <2>4, <2>5, <2>6 DEF Moves
<1> HIDE DEF Lost
<1>2. IInv /\ OutboxInv /\ [Next]_vars => [Lost]_vars
  BY <1>1
<1>3. Spec => [][Lost]_vars
  BY <1>2, Inductive, OutboxInvHolds, PTL DEF Spec
<1> QED
  BY <1>3 DEF Lost, LostOnlySignedOut

-----------------------------------------------------------------------------
(* The outboxes.                                                           *)

\* What was written is what an outbox may accept.
LEMMA PromisedBatches ==
  ASSUME IInv, OutboxInv
  PROVE  \A b \in written : b \in Promised!Batch
<1>1. /\ written \subseteq Batch /\ Cardinality(written) \in Nat /\ worker \in Seq(Tasks)
  BY BoxTypes
<1>2. Cardinality(written) <= MaxWrites /\ MaxWrites \in Nat
  <2>1. Cardinality(WritesIn(worker)) \in Nat
    BY <1>1, WritesFinite
  <2>2. MaxWrites \in Nat
    BY WriteStreamAssumption DEF WriteStreamAssumption
  <2>3. Cardinality(written) + Cardinality(WritesIn(worker)) <= MaxWrites
    BY PendingIs DEF OutboxInv
  <2> DEFINE c == Cardinality(written)
             n == Cardinality(WritesIn(worker))
  <2> HIDE DEF c, n
  <2>4. c <= MaxWrites
    BY <1>1, <2>1, <2>2, <2>3 DEF c, n
  <2> QED
    BY <2>2, <2>4 DEF c
<1>3. ASSUME NEW b \in written PROVE b \in [user : Anyone, id : 1..MaxWrites]
  <2>1. b \in Batch /\ b.id \in 1..Cardinality(written)
    BY <1>1 DEF OutboxInv, Numbered
  <2>2. b.id \in 1..MaxWrites
    BY <1>1, <1>2, <2>1
  <2> QED
    BY <2>1, <2>2 DEF Batch
<1> QED
  BY <1>3 DEF Promised!Batch

\* Every step of the streams is one of the outboxes, or none.
LEMMA OutboxMoves ==
  ASSUME IInv, OutboxInv, Moves
  PROVE  [Promised!Next]_(Promised!box)
<1>1. queues \in [Anyone -> Seq(Batch)] /\ user \in Anyone /\ written \subseteq Batch
  BY BoxTypes
<1>2. ASSUME NEW b \in Batch, Wrote(b) PROVE Promised!Next
  <2>1. b \in Promised!Batch
    BY <1>2 DEF Wrote, Promised!Batch, Batch
  <2>2. Promised!Accept(b)
    BY <1>2 DEF Wrote, Promised!Accept
  <2> QED
    BY <2>1, <2>2 DEF Promised!Next
<1>3. ASSUME Settled PROVE Promised!Next
  <2>1. Head(queues[user]) \in Logged(log) => Promised!Taken(Head(queues[user]))
    BY DEF Logged, Promised!Taken
  <2>2. Promised!Settle(user)
    BY <1>3, <2>1 DEF Settled, Promised!Settle
  <2> QED
    BY <1>1, <2>2 DEF Promised!Next
<1>4. ASSUME Verdict, UNCHANGED <<queues, written>> PROVE [Promised!Next]_(Promised!box)
  <2>1. CASE UNCHANGED <<log, refusals>>
    BY <1>4, <2>1 DEF Promised!box
  <2>2. ASSUME NEW b \in written, Turn(b),
               log' = Append(log, [as |-> b.user, batch |-> b]), UNCHANGED refusals
        PROVE  Promised!Next
    <3>1. b \in Promised!Batch
      BY PromisedBatches
    <3>2. Promised!InTurn(b)
      BY <2>2 DEF Turn, Logged, Promised!InTurn, Promised!Taken
    <3>3. Promised!Publish(b)
      BY <1>4, <2>2, <3>2 DEF Promised!Publish
    <3> QED
      BY <3>1, <3>3 DEF Promised!Next
  <2>3. ASSUME NEW b \in written, refusals' = refusals \cup {b}, UNCHANGED log
        PROVE  Promised!Next
    <3>1. b \in Promised!Batch
      BY PromisedBatches
    <3>2. Promised!Refuse(b)
      BY <1>4, <2>3 DEF Promised!Refuse
    <3> QED
      BY <3>1, <3>2 DEF Promised!Next
  <2> QED
    BY <1>4, <2>1, <2>2, <2>3 DEF Verdict
<1>5. ASSUME Forgot PROVE Promised!Next
  BY <1>5 DEF Forgot, Promised!Forget, Promised!Next
<1> QED
  BY <1>2, <1>3, <1>4, <1>5 DEF Moves

\* The streams implement the outboxes of Outbox: whatever changes of user, tokens that
\* are late, broken calls, requests that arrive after all and restarts there are, the
\* backend takes the writes of each user in order and in that user's name.
THEOREM OutboxIsKept == Spec => ImplementsOutbox
<1>1. Init => Promised!Init
  BY DEF Init, Promised!Init
<1>2. IInv /\ OutboxInv /\ [Next]_vars => [Promised!Next]_(Promised!box)
  BY NextBox, OutboxMoves
<1>3. Spec => Promised!Init /\ [][Promised!Next]_(Promised!box)
  BY <1>1, <1>2, Inductive, OutboxInvHolds, PTL DEF Spec
<1> QED
  BY <1>3 DEF ImplementsOutbox, Promised!Spec
=============================================================================
