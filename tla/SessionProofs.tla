---------------------------- MODULE SessionProofs ----------------------------
(***************************************************************************)
(* What holds of Session for any users, any number of requests, spendings, *)
(* revocations and kills.                                                  *)
(***************************************************************************)
EXTENDS Session, TLAPS, FiniteSetTheorems, FunctionTheorems, SequenceTheorems

-----------------------------------------------------------------------------
(* The invariant of the blocks on the main thread.                         *)

\* The blocks that carry a request on.
Answering(b) == b.kind \in {"answered", "getDocument", "gotDocument"}

Stages == {"free", "auth", "answered", "document", "failed", "late", "done", "lost"}

Requests ==
  [stage : Stages, kind : {"signIn", "create"}, user : MaybeUser, display : MaybeUser,
   onStack : BOOLEAN]

\* No block carries request i on.
Free(m, i) == \A k \in DOMAIN m : Answering(m[k]) => m[k].id # i

\* A block carries on a request that waits for it, and names its user or nobody; no
\* two blocks carry on the same.
Matched(m, rs) ==
  /\ \A k \in DOMAIN m : Answering(m[k]) =>
       /\ m[k].id \in Ids /\ rs[m[k].id].stage = "answered"
       /\ m[k].user = rs[m[k].id].user \/ (m[k].kind = "gotDocument" /\ m[k].user = None)
  /\ \A j, k \in DOMAIN m :
       Answering(m[j]) /\ Answering(m[k]) /\ m[j].id = m[k].id => j = k
  /\ \A i \in Ids : rs[i].stage \notin {"free", "lost"} => rs[i].user \in Users

\* Blocks carry lists and documents of users in S.
Carries(m, S) == \A k \in DOMAIN m : m[k].kind \in {"list", "userDoc"} => m[k].user \in S

Queue(m, rs, S) == m \in Seq(Blocks) /\ Matched(m, rs) /\ Carries(m, S)

\* Nothing of an app that is not running is there.
Dead ==
  screen = "dead" =>
    /\ main = <<>> /\ listOf = None /\ currentUser = None
    /\ \A i \in Ids : requests[i].stage \in {"free", "lost"}
    /\ \A u \in Users : lists[u] = "none" /\ docs[u] = "none"

\* What is shown, added to, listened to and on its way is of users of this process.
Own ==
  /\ {listOf, currentUser} \subseteq sessions \cup {None}
  /\ \A u \in Users : lists[u] # "none" \/ docs[u] # "none" => u \in sessions
  /\ Carries(main, sessions)
  /\ screen # "dead" => auth \in sessions \cup {None}

Finite == \A c \in MaybeUser : IsFiniteSet(unsent[c])

IInv == TypeOK /\ Finite /\ Matched(main, requests) /\ Dead /\ Own

-----------------------------------------------------------------------------
(* Sequences.                                                              *)

\* A sequence followed by another.
LEMMA JoinIs ==
  ASSUME NEW S, NEW p \in Seq(S), NEW q \in Seq(S)
  PROVE  /\ p \o q \in Seq(S) /\ Len(p) \in Nat /\ Len(p \o q) = Len(p) + Len(q)
         /\ \A k \in DOMAIN p : k \in DOMAIN (p \o q) /\ (p \o q)[k] = p[k] /\ k <= Len(p)
         /\ \A k \in DOMAIN q : Len(p) + k \in DOMAIN (p \o q) /\ (p \o q)[Len(p) + k] = q[k]
         /\ \A k \in DOMAIN (p \o q) :
              \/ k \in DOMAIN p
              \/ k - Len(p) \in DOMAIN q /\ Len(p) + (k - Len(p)) = k /\ k > Len(p)
  OBVIOUS

\* A sequence with one more element.
LEMMA AppendIs ==
  ASSUME NEW S, NEW p \in Seq(S), NEW b \in S
  PROVE  /\ Append(p, b) \in Seq(S) /\ Append(p, b) = p \o <<b>>
         /\ Len(p) \in Nat /\ Len(Append(p, b)) = Len(p) + 1
         /\ \A k \in DOMAIN p : k \in DOMAIN Append(p, b) /\ Append(p, b)[k] = p[k] /\ k \in 1..Len(p)
         /\ Len(p) + 1 \in DOMAIN Append(p, b) /\ Append(p, b)[Len(p) + 1] = b
         /\ \A k \in DOMAIN Append(p, b) : k \in DOMAIN p \/ k = Len(p) + 1
  OBVIOUS

\* The tail of a sequence.
LEMMA TailIs ==
  ASSUME NEW S, NEW p \in Seq(S), p # <<>>
  PROVE  /\ Tail(p) \in Seq(S) /\ Head(p) \in S /\ Head(p) = p[1] /\ 1 \in DOMAIN p
         /\ \A k \in DOMAIN Tail(p) : k + 1 \in DOMAIN p /\ Tail(p)[k] = p[k + 1] /\ k + 1 # 1
         /\ \A k \in DOMAIN p : k # 1 => k - 1 \in DOMAIN Tail(p) /\ (k - 1) + 1 = k
         /\ DOMAIN p \subseteq Nat /\ DOMAIN Tail(p) \subseteq Nat
  OBVIOUS

\* n is m with more blocks of B.
Grown(m, n, B) == \E more \in Seq(B) : n = m \o more

\* The blocks of m keep their places, and the others come behind.
LEMMA GrownIs ==
  ASSUME NEW m \in Seq(Blocks), NEW n, NEW B \in SUBSET Blocks, Grown(m, n, B)
  PROVE  /\ n \in Seq(Blocks)
         /\ \A k \in DOMAIN m : k \in DOMAIN n /\ n[k] = m[k]
         /\ \A k \in DOMAIN n : k \in DOMAIN m \/ (n[k] \in B /\ \A j \in DOMAIN m : j < k)
<1>1. PICK more \in Seq(B) : n = m \o more
  BY DEF Grown
<1>2. more \in Seq(Blocks)
  BY <1>1
<1>3. /\ m \o more \in Seq(Blocks) /\ Len(m) \in Nat
      /\ \A k \in DOMAIN m : k \in DOMAIN (m \o more) /\ (m \o more)[k] = m[k] /\ k <= Len(m)
      /\ \A k \in DOMAIN more : (m \o more)[Len(m) + k] = more[k]
      /\ \A k \in DOMAIN (m \o more) :
           \/ k \in DOMAIN m
           \/ k - Len(m) \in DOMAIN more /\ Len(m) + (k - Len(m)) = k /\ k > Len(m)
  BY <1>2, JoinIs
<1>4. n \in Seq(Blocks) /\ \A k \in DOMAIN m : k \in DOMAIN n /\ n[k] = m[k] /\ k <= Len(m)
  BY <1>1, <1>3
<1>5. ASSUME NEW k \in DOMAIN n, k \notin DOMAIN m
      PROVE  n[k] \in B /\ \A j \in DOMAIN m : j < k
  <2>1. k - Len(m) \in DOMAIN more /\ Len(m) + (k - Len(m)) = k /\ k > Len(m)
    BY <1>1, <1>3, <1>5
  <2>2. n[k] = more[k - Len(m)]
    BY <1>1, <1>3, <2>1
  <2>3. \A j \in DOMAIN m : j \in Nat /\ k \in Nat
    BY <1>4, <1>5
  <2>4. more[k - Len(m)] \in B
    BY <1>1, <2>1
  <2> QED
    BY <1>3, <1>4, <2>1, <2>2, <2>3, <2>4
<1> QED
  BY <1>4, <1>5

\* Nothing more.
LEMMA GrownSame ==
  ASSUME NEW m \in Seq(Blocks), NEW B
  PROVE  Grown(m, m, B)
<1>1. <<>> \in Seq(B) /\ m \o <<>> = m
  OBVIOUS
<1> QED
  BY <1>1 DEF Grown

\* One more.
LEMMA GrownOne ==
  ASSUME NEW m \in Seq(Blocks), NEW B \in SUBSET Blocks, NEW b \in B
  PROVE  Grown(m, Append(m, b), B) /\ Grown(m, m \o <<b>>, B)
<1>1. <<b>> \in Seq(B) /\ Append(m, b) = m \o <<b>>
  OBVIOUS
<1> QED
  BY <1>1 DEF Grown

\* Of more kinds.
LEMMA GrownIn ==
  ASSUME NEW m, NEW n, NEW B, NEW C, B \subseteq C, Grown(m, n, B)
  PROVE  Grown(m, n, C)
<1>1. Seq(B) \subseteq Seq(C)
  OBVIOUS
<1> QED
  BY <1>1 DEF Grown

\* More and more.
LEMMA GrownMore ==
  ASSUME NEW m \in Seq(Blocks), NEW B \in SUBSET Blocks, NEW n, Grown(m, n, B),
         NEW more \in Seq(B)
  PROVE  Grown(m, n \o more, B)
<1>1. PICK x \in Seq(B) : n = m \o x
  BY DEF Grown
<1>2. m \in Seq(Blocks) /\ x \in Seq(Blocks) /\ more \in Seq(Blocks) /\ x \o more \in Seq(B)
  BY <1>1
<1>3. (m \o x) \o more = m \o (x \o more)
  BY <1>2, ConcatAssociative
<1> QED
  BY <1>1, <1>2, <1>3 DEF Grown

-----------------------------------------------------------------------------
(* The queue of the main thread.                                           *)

\* Notifications, and blocks that show what is of users in S.
Events(S) ==
  {b \in Blocks : b.kind = "authChanged" \/ (b.kind \in {"list", "userDoc"} /\ b.user \in S)}

\* These, and loads.
Harmless(S) == Events(S) \cup {b \in Blocks : b.kind = "load"}

\* The blocks that are not a request's.
LEMMA BlockTypes ==
  ASSUME NEW u \in MaybeUser, NEW S
  PROVE  /\ Load \in Harmless(S) /\ Load \in Blocks
         /\ AuthChanged(u) \in Events(S) /\ AuthChanged(u) \in Harmless(S) /\ AuthChanged(u) \in Blocks
         /\ AuthChanged(u).kind = "authChanged" /\ AuthChanged(u).user = u
         /\ u \in S => List(u) \in Events(S) /\ UserDoc(u) \in Events(S)
         /\ u \in S => List(u) \in Harmless(S) /\ UserDoc(u) \in Harmless(S)
         /\ List(u) \in Blocks /\ UserDoc(u) \in Blocks
         /\ Events(S) \subseteq Harmless(S) /\ Harmless(S) \subseteq Blocks
         /\ Load.kind = "load" /\ List(u).kind = "list" /\ UserDoc(u).kind = "userDoc"
         /\ List(u).user = u /\ UserDoc(u).user = u
  BY DEF Load, AuthChanged, List, UserDoc, Block, Events, Harmless, Blocks, MaybeUser

\* Such blocks at the end disturb nobody.
LEMMA QueueGrown ==
  ASSUME NEW m, NEW rs, NEW S, Queue(m, rs, S), NEW T, S \subseteq T,
         NEW n, Grown(m, n, Harmless(T))
  PROVE  Queue(n, rs, T) /\ \A i : Free(m, i) => Free(n, i)
<1>1. m \in Seq(Blocks) /\ Harmless(T) \in SUBSET Blocks
  BY DEF Queue, Harmless, Events
<1>2. /\ n \in Seq(Blocks)
      /\ \A k \in DOMAIN m : k \in DOMAIN n /\ n[k] = m[k]
      /\ \A k \in DOMAIN n : k \in DOMAIN m \/ n[k] \in Harmless(T)
  BY <1>1, GrownIs
<1>3. \A b \in Harmless(T) : ~Answering(b) /\ (b.kind \in {"list", "userDoc"} => b.user \in T)
  BY DEF Harmless, Events, Answering
<1>4. Matched(n, rs)
  BY <1>2, <1>3 DEF Queue, Matched
<1>5. Carries(n, T)
  BY <1>2, <1>3 DEF Queue, Carries
<1> QED
  BY <1>2, <1>3, <1>4, <1>5 DEF Queue, Free

\* The first block leaves the queue, and its request free.
LEMMA QueueTail ==
  ASSUME NEW m, NEW rs, NEW S, Queue(m, rs, S), m # <<>>
  PROVE  /\ Queue(Tail(m), rs, S) /\ Head(m) \in Blocks
         /\ Head(m).kind \in {"list", "userDoc"} => Head(m).user \in S
         /\ Answering(Head(m)) =>
              /\ Head(m).id \in Ids /\ rs[Head(m).id].stage = "answered"
              /\ rs[Head(m).id].user \in Users
              /\ \/ Head(m).user = rs[Head(m).id].user
                 \/ Head(m).kind = "gotDocument" /\ Head(m).user = None
              /\ Free(Tail(m), Head(m).id)
         /\ \A i : Free(m, i) => Free(Tail(m), i)
<1> DEFINE t == Tail(m)
           h == Head(m)
<1>1. m \in Seq(Blocks) /\ Matched(m, rs) /\ Carries(m, S)
  BY DEF Queue
<1>2. /\ t \in Seq(Blocks) /\ h \in Blocks /\ h = m[1] /\ 1 \in DOMAIN m
      /\ \A k \in DOMAIN t : k + 1 \in DOMAIN m /\ t[k] = m[k + 1] /\ k + 1 # 1
      /\ DOMAIN t \subseteq Nat
  BY <1>1, TailIs
<1> HIDE DEF t, h
<1>3. \A j, k \in DOMAIN t : j + 1 = k + 1 => j = k
  BY <1>2
<1>4. Matched(t, rs)
  BY <1>1, <1>2, <1>3 DEF Matched
<1>5. Carries(t, S)
  BY <1>1, <1>2 DEF Carries
<1>6. h.kind \in {"list", "userDoc"} => h.user \in S
  BY <1>1, <1>2 DEF Carries
<1>7. Answering(h) =>
        /\ h.id \in Ids /\ rs[h.id].stage = "answered" /\ rs[h.id].user \in Users
        /\ h.user = rs[h.id].user \/ (h.kind = "gotDocument" /\ h.user = None)
        /\ Free(t, h.id)
  BY <1>1, <1>2 DEF Matched, Free
<1>8. \A i : Free(m, i) => Free(t, i)
  BY <1>2 DEF Free
<1> QED
  BY <1>2, <1>4, <1>5, <1>6, <1>7, <1>8 DEF Queue, t, h

\* A request changes that no block carries on.
LEMMA QueueRequests ==
  ASSUME NEW m, NEW rs, NEW S, Queue(m, rs, S), NEW ss,
         \A i \in Ids : Free(m, i) \/ (ss[i].stage = rs[i].stage /\ ss[i].user = rs[i].user),
         \A i \in Ids : ss[i].stage \notin {"free", "lost"} => ss[i].user \in Users
  PROVE  Queue(m, ss, S)
  BY DEF Queue, Matched, Free

\* It is only one that waits for a block.
LEMMA WaitsOrFree ==
  ASSUME NEW m, NEW rs, NEW S, Queue(m, rs, S), NEW i \in Ids, rs[i].stage # "answered"
  PROVE  Free(m, i)
  BY DEF Queue, Matched, Free

\* A block is queued for it.
LEMMA QueueAnswer ==
  ASSUME NEW m, NEW rs, NEW S, Queue(m, rs, S), NEW b \in Blocks, Answering(b), b.id \in Ids,
         Free(m, b.id), rs[b.id].stage = "answered",
         b.user = rs[b.id].user \/ (b.kind = "gotDocument" /\ b.user = None)
  PROVE  Queue(Append(m, b), rs, S) /\ \A i : Free(m, i) /\ i # b.id => Free(Append(m, b), i)
<1> DEFINE a == Append(m, b)
<1>1. m \in Seq(Blocks) /\ Matched(m, rs) /\ Carries(m, S)
  BY DEF Queue
<1>2. /\ a \in Seq(Blocks)
      /\ \A k \in DOMAIN m : a[k] = m[k]
      /\ a[Len(m) + 1] = b
      /\ \A k \in DOMAIN a : k \in DOMAIN m \/ k = Len(m) + 1
  BY <1>1, AppendIs
<1> HIDE DEF a
<1>3. Matched(a, rs)
  <2>1. ASSUME NEW k \in DOMAIN a, Answering(a[k])
        PROVE  /\ a[k].id \in Ids /\ rs[a[k].id].stage = "answered"
               /\ \/ a[k].user = rs[a[k].id].user
                  \/ a[k].kind = "gotDocument" /\ a[k].user = None
    BY <1>1, <1>2, <2>1 DEF Matched
  <2>2. ASSUME NEW j \in DOMAIN a, NEW k \in DOMAIN a, Answering(a[j]), Answering(a[k]),
               a[j].id = a[k].id
        PROVE  j = k
    BY <1>1, <1>2, <2>2 DEF Matched, Free
  <2> QED
    BY <1>1, <2>1, <2>2 DEF Matched
<1>4. Carries(a, S)
  BY <1>1, <1>2 DEF Carries, Answering
<1>5. \A i : Free(m, i) /\ i # b.id => Free(a, i)
  BY <1>2 DEF Free
<1> QED
  BY <1>2, <1>3, <1>4, <1>5 DEF Queue, a

-----------------------------------------------------------------------------
(* Listeners.                                                              *)

Listeners == [Users -> {"none", "new", "live", "refused"}]

\* Only users in S are listened for.
Only(ls, S) == \A u \in Users : ls[u] # "none" => u \in S

\* What a live listener hears is what is told it.
LEMMA HearsIs ==
  ASSUME NEW ls, NEW u, NEW e, NEW B, u # None /\ ls[u] = "live" => e \in B
  PROVE  Hears(ls, u, e) \in Seq(B)
  BY DEF Hears

\* One more listener, for nobody or for a user in S.
LEMMA WatchedIs ==
  ASSUME NEW ls \in Listeners, NEW S, Only(ls, S), NEW u \in MaybeUser, u \in S \cup {None}
  PROVE  Watched(ls, u) \in Listeners /\ Only(Watched(ls, u), S)
<1>1. CASE u = None \/ Listening(ls, u)
  BY <1>1 DEF Watched
<1>2. CASE u # None /\ ~ Listening(ls, u)
  <2>1. Watched(ls, u) = [ls EXCEPT ![u] = "new"] /\ u \in Users
    BY <1>2 DEF Watched, MaybeUser
  <2> QED
    BY <1>2, <2>1 DEF Listeners, Only
<1> QED
  BY <1>1, <1>2

\* Home appears after the blocks q, for a user in S.
LEMMA AppearIs ==
  ASSUME lists \in Listeners, NEW S, Only(lists, S), auth \in MaybeUser, auth \in S \cup {None},
         NEW q \in Seq(Blocks), Appear(q)
  PROVE  lists' \in Listeners /\ Only(lists', S) /\ Grown(q, main', Harmless(S))
<1>1. auth # None /\ lists[auth] = "live" => List(auth) \in Harmless(S)
  BY BlockTypes
<1>2. Hears(lists, auth, List(auth)) \in Seq(Harmless(S))
  BY <1>1, HearsIs
<1>3. Load \in Harmless(S) /\ Harmless(S) \in SUBSET Blocks
  BY BlockTypes, auth \in MaybeUser
<1>4. Grown(q, q \o <<Load>>, Harmless(S))
  BY <1>3, GrownOne
<1>5. Grown(q, (q \o <<Load>>) \o Hears(lists, auth, List(auth)), Harmless(S))
  BY <1>2, <1>3, <1>4, GrownMore
<1>6. main' = (q \o <<Load>>) \o Hears(lists, auth, List(auth)) /\ lists' = Watched(lists, auth)
  BY DEF Appear, Observed
<1> QED
  BY <1>5, <1>6, WatchedIs

-----------------------------------------------------------------------------
(* The invariant, put together.                                            *)

\* The variables, but for the queue and the requests, have their types.
Typed ==
  /\ auth \in MaybeUser /\ name \in MaybeUser
  /\ accounts \subseteq Users /\ userDoc \subseteq Users
  /\ profile \in [Users -> MaybeUser]
  /\ commits \subseteq [of : Users, as : Users]
  /\ cred \in MaybeUser /\ told \in MaybeUser \cup {"never"}
  /\ lists \in Listeners /\ docs \in Listeners
  /\ unsent \in [MaybeUser -> SUBSET Users]
  /\ screen \in {"dead", "home", "add", "settings", "signingOut", "onboarding"} \cup Forms
  /\ currentUser \in MaybeUser /\ listOf \in MaybeUser
  /\ sessions \subseteq Users
  /\ adds \in Seq(BOOLEAN)
  /\ trapped \in BOOLEAN
  /\ {revocations, kills} \subseteq Nat

Owned ==
  /\ {listOf, currentUser} \subseteq sessions \cup {None}
  /\ Only(lists, sessions) /\ Only(docs, sessions)
  /\ screen # "dead" => auth \in sessions \cup {None}

\* The queue and the requests belong together.
Queued == requests \in [Ids -> Requests] /\ Queue(main, requests, sessions)

\* The parts are the whole.
LEMMA Parts == IInv <=> Typed /\ Queued /\ Finite /\ Dead /\ Owned
<1>1. TypeOK <=> Typed /\ main \in Seq(Blocks) /\ requests \in [Ids -> Requests]
  BY DEF TypeOK, Typed, Listeners, Requests, Stages
<1>2. Own <=> Owned /\ Carries(main, sessions)
  BY DEF Own, Owned, Only
<1> QED
  BY <1>1, <1>2 DEF IInv, Queued, Queue

\* ... after a step as well.
LEMMA PartsNext == (IInv <=> Typed /\ Queued /\ Finite /\ Dead /\ Owned)'
  BY Parts, PTL

\* An app that was never launched.
LEMMA InitInv == Init => IInv
<1> SUFFICES ASSUME Init PROVE Typed /\ Queued /\ Finite /\ Dead /\ Owned
  BY Parts
<1>1. Typed
  <2>1. profile \in [Users -> MaybeUser]
    BY DEF Init, MaybeUser
  <2>2. lists \in Listeners /\ docs \in Listeners /\ unsent \in [MaybeUser -> SUBSET Users]
    BY DEF Init, Listeners
  <2>3. /\ auth \in MaybeUser /\ name \in MaybeUser /\ cred \in MaybeUser
        /\ currentUser \in MaybeUser /\ listOf \in MaybeUser
        /\ accounts \subseteq Users /\ userDoc \subseteq Users
        /\ commits \subseteq [of : Users, as : Users]
        /\ adds \in Seq(BOOLEAN)
        /\ sessions \subseteq Users
    BY SessionAssumption DEF Init, MaybeUser
  <2>5. trapped \in BOOLEAN
    BY ZenonT(20) DEF Init
  <2>4. /\ told \in MaybeUser \cup {"never"}
        /\ screen \in {"dead", "home", "add", "settings", "signingOut", "onboarding"} \cup Forms
        /\ {revocations, kills} \subseteq Nat
    BY DEF Init
  <2> QED
    BY <2>1, <2>2, <2>3, <2>4, <2>5 DEF Typed
<1>2. Queued
  <2>1. requests \in [Ids -> Requests] /\ \A i \in Ids : requests[i].stage = "free"
    BY DEF Init, NoRequest, Requests, Stages, MaybeUser
  <2>2. main \in Seq(Blocks) /\ main = <<>>
    BY DEF Init
  <2> QED
    BY <2>1, <2>2 DEF Queued, Queue, Matched, Carries
<1>3. Finite
  BY FS_EmptySet DEF Init, Finite
<1>4. Dead
  BY DEF Init, Dead, NoRequest
<1>5. Owned
  BY DEF Init, Owned, Only
<1> QED
  BY <1>1, <1>2, <1>3, <1>4, <1>5

-----------------------------------------------------------------------------
(* The steps keep it.                                                      *)

\* Starting the app.
LEMMA LaunchKeeps == IInv /\ Launch => IInv'
<1> SUFFICES ASSUME Typed, Queued, Finite, Dead, Owned, Launch PROVE (Typed /\ Queued /\ Finite /\ Dead /\ Owned)'
  BY Parts, PartsNext
<1>1. screen = "dead" /\ screen' = "home" /\ sessions' = {auth} \ {None} /\ requests' = requests
  BY DEF Launch, Typed
<1>2. auth \in MaybeUser /\ lists \in Listeners /\ Only(lists, sessions') /\ auth \in sessions' \cup {None}
  BY <1>1 DEF Typed, Dead, Only
<1>3. lists' \in Listeners /\ Only(lists', sessions')
  BY <1>2, WatchedIs DEF Launch, Observed
<1>4. Typed'
  <2>1. unsent' \in [MaybeUser -> SUBSET Users]
    BY DEF Launch, Typed
  <2>2. sessions' \subseteq Users
    BY <1>1, <1>2 DEF MaybeUser
  <2> QED
    BY <1>1, <1>3, <2>1, <2>2 DEF Launch, Typed, server, budgets, repos
<1>5. Queued'
  <2>1. main = <<>> /\ \A i \in Ids : requests[i].stage \in {"free", "lost"}
    BY <1>1 DEF Dead
  <2>2. main' = <<AuthChanged(auth), Load, Load>>
    BY DEF Launch
  <2>3. <<AuthChanged(auth), Load, Load>> \in Seq(Harmless(sessions')) /\ <<>> \in Seq(Blocks)
    BY <1>2, BlockTypes
  <2>4. <<>> \o main' = main'
    BY <2>2, <2>3
  <2>5. Grown(<<>>, main', Harmless(sessions'))
    BY <2>2, <2>3, <2>4 DEF Grown
  <2>6. Queue(<<>>, requests, {})
    BY <2>1, <2>3 DEF Queue, Matched, Carries
  <2>7. Queue(main', requests, sessions')
    BY <2>5, <2>6, QueueGrown
  <2> QED
    BY <1>1, <2>7 DEF Queued
<1>6. Finite'
  BY FS_EmptySet DEF Finite, Launch
<1>7. Dead'
  BY <1>1 DEF Dead
<1>8. Owned'
  <2>1. listOf' = None /\ currentUser' = None /\ Only(docs', sessions') /\ auth' = auth
    BY <1>1 DEF Launch, Dead, Only, repos
  <2> QED
    BY <1>2, <1>3, <2>1 DEF Owned
<1> QED
  BY <1>4, <1>5, <1>6, <1>7, <1>8

\* Nothing is left in memory.
LEMMA MemoryEmpties ==
  ASSUME Typed, Queued, Memory
  PROVE  /\ Queued' /\ Dead' /\ Owned'
         /\ lists' \in Listeners /\ docs' \in Listeners /\ sessions' = {} /\ screen' = "dead"
         /\ currentUser' = None /\ listOf' = None /\ told' = "never" /\ accounts' \subseteq Users
<1>1. /\ requests' \in [Ids -> Requests] /\ \A i \in Ids : requests'[i].stage \in {"free", "lost"}
      /\ main' \in Seq(Blocks) /\ main' = <<>>
  <2>1. NoRequest \in Requests /\ NoRequest.stage = "free"
    BY DEF NoRequest, Requests, Stages, MaybeUser
  <2>2. LostRequest \in Requests /\ LostRequest.stage = "lost"
    BY DEF LostRequest, NoRequest, Requests, Stages, MaybeUser
  <2> QED
    BY <2>1, <2>2 DEF Memory
<1>2. Queued'
  BY <1>1 DEF Queued, Queue, Matched, Carries
<1>3. Dead'
  BY <1>1 DEF Memory, Dead
<1>4. Owned'
  BY DEF Memory, Owned, Only
<1>5. PICK S \in SUBSET {requests[i].user : i \in SigningUp} : accounts' = accounts \cup S
  BY DEF Memory
<1>6. S \subseteq Users
  BY <1>5 DEF SigningUp, Queued, Queue, Matched
<1>7. accounts' \subseteq Users
  BY <1>5, <1>6 DEF Typed
<1> QED
  BY <1>2, <1>3, <1>4, <1>7 DEF Memory, Listeners

\* The end of the app.
LEMMA KillKeeps == IInv /\ Kill => IInv'
<1> SUFFICES ASSUME Typed, Queued, Finite, Dead, Owned, Kill PROVE (Typed /\ Queued /\ Finite /\ Dead /\ Owned)'
  BY Parts, PartsNext
<1>1. Queued' /\ Dead' /\ Owned'
  BY MemoryEmpties DEF Kill
<1>4. /\ lists' \in Listeners /\ docs' \in Listeners /\ sessions' = {} /\ screen' = "dead"
      /\ currentUser' = None /\ listOf' = None /\ told' = "never" /\ accounts' \subseteq Users
  BY MemoryEmpties DEF Kill
<1>5. kills' \in Nat
  BY DEF Typed, Kill
<1>6. Typed'
  BY <1>4, <1>5 DEF Kill, Typed, MaybeUser
<1>7. Finite'
  BY DEF Kill, Finite
<1> QED
  BY <1>1, <1>6, <1>7

\* A step that leaves the queue, the requests, Firestore and the repositories alone.
LEMMA ScreenKeeps ==
  ASSUME Typed, Queued, Finite, Dead, Owned, screen # "dead", screen' # "dead",
         screen' \in {"dead", "home", "add", "settings", "signingOut", "onboarding"} \cup Forms,
         UNCHANGED <<auth, name, server, store, main, requests, repos, sessions, adds, trapped, budgets>>
  PROVE  (Typed /\ Queued /\ Finite /\ Dead /\ Owned)'
<1>1. Typed'
  BY DEF Typed, server, store, repos, budgets
<1>2. Queued'
  BY DEF Queued
<1>3. Finite' /\ Dead' /\ Owned'
  BY DEF Finite, Dead, Owned, store, repos
<1> QED
  BY <1>1, <1>2, <1>3

\* Opening a form, and leaving AddSpending.
LEMMA GoKeeps == IInv /\ (Open \/ CancelAdd) => IInv'
<1> SUFFICES ASSUME Typed, Queued, Finite, Dead, Owned, Open \/ CancelAdd PROVE (Typed /\ Queued /\ Finite /\ Dead /\ Owned)'
  BY Parts, PartsNext
<1>1. /\ screen # "dead" /\ screen' # "dead"
      /\ screen' \in {"dead", "home", "add", "settings", "signingOut", "onboarding"} \cup Forms
      /\ UNCHANGED <<auth, name, server, store, main, requests, repos, sessions, adds, trapped, budgets>>
  BY DEF Open, CancelAdd, Go, Forms
<1> QED
  BY <1>1, ScreenKeeps

\* A queue that grows by harmless blocks, next to the same requests.
LEMMA GrowsKeeps ==
  ASSUME Queued, UNCHANGED requests, sessions \subseteq sessions', Grown(main, main', Harmless(sessions'))
  PROVE  Queued'
<1>1. Queue(main', requests, sessions')
  BY QueueGrown DEF Queued
<1> QED
  BY <1>1 DEF Queued

\* Leaving a form.
LEMMA BackKeeps == IInv /\ Back => IInv'
<1> SUFFICES ASSUME Typed, Queued, Finite, Dead, Owned, Back PROVE (Typed /\ Queued /\ Finite /\ Dead /\ Owned)'
  BY Parts, PartsNext
<1>1. screen # "dead" /\ screen' = "onboarding"
  BY DEF Back, Forms
<1>2. /\ requests' \in [Ids -> Requests]
      /\ \A i \in Ids : requests'[i].stage = requests[i].stage /\ requests'[i].user = requests[i].user
  BY DEF Back, OffStack, Queued, Requests
<1>3. \A i \in Ids : requests'[i].stage \notin {"free", "lost"} => requests'[i].user \in Users
  BY <1>2 DEF Queued, Queue, Matched
<1>4. Queue(main, requests', sessions)
  BY <1>2, <1>3, QueueRequests DEF Queued
<1>5. Queued'
  BY <1>2, <1>4 DEF Queued, Back
<1>6. Typed'
  BY <1>1 DEF Back, Typed, server, store, repos, budgets
<1>7. Finite' /\ Dead' /\ Owned'
  BY <1>1 DEF Back, Finite, Dead, Owned, store, repos
<1> QED
  BY <1>5, <1>6, <1>7

\* Sending a form.
LEMMA AskKeeps == ASSUME NEW i \in Ids, NEW u \in Users PROVE IInv /\ Ask(i, u) => IInv'
<1> SUFFICES ASSUME Typed, Queued, Finite, Dead, Owned, Ask(i, u) PROVE (Typed /\ Queued /\ Finite /\ Dead /\ Owned)'
  BY Parts, PartsNext
<1>1. screen # "dead" /\ screen' = screen
  BY DEF Ask, Forms
<1> DEFINE r == [stage |-> "auth", kind |-> IF screen = "login" THEN "signIn" ELSE "create",
                 user |-> u, display |-> None, onStack |-> TRUE]
<1>2. r \in Requests /\ r.user \in Users
  BY DEF Requests, Stages, MaybeUser
<1>3. requests' = [requests EXCEPT ![i] = r] /\ requests[i].stage = "free"
  BY DEF Ask
<1> HIDE DEF r
<1>4. /\ requests' \in [Ids -> Requests] /\ requests'[i] = r
      /\ \A j \in Ids \ {i} : requests'[j] = requests[j]
  BY <1>2, <1>3 DEF Queued
<1>5. \A j \in Ids : requests'[j].stage \notin {"free", "lost"} => requests'[j].user \in Users
  BY <1>2, <1>4 DEF Queued, Queue, Matched
<1>6. Free(main, i)
  BY <1>3, WaitsOrFree DEF Queued
<1>7. Queue(main, requests', sessions)
  BY <1>4, <1>5, <1>6, QueueRequests DEF Queued
<1>8. Queued'
  BY <1>4, <1>7 DEF Queued, Ask
<1>9. Typed'
  BY DEF Ask, Typed, server, store, repos, budgets
<1>10. Finite' /\ Dead' /\ Owned'
  BY <1>1 DEF Ask, Finite, Dead, Owned, store, repos
<1> QED
  BY <1>8, <1>9, <1>10

\* Closing Settings.
LEMMA CloseSettingsKeeps == IInv /\ CloseSettings => IInv'
<1> SUFFICES ASSUME Typed, Queued, Finite, Dead, Owned, CloseSettings PROVE (Typed /\ Queued /\ Finite /\ Dead /\ Owned)'
  BY Parts, PartsNext
<1>1. screen # "dead" /\ screen' = "home" /\ Appear(main)
  BY DEF CloseSettings
<1>2. lists' \in Listeners /\ Only(lists', sessions) /\ Grown(main, main', Harmless(sessions))
  BY <1>1, AppearIs DEF Typed, Owned, Queued, Queue
<1>3. Queued'
  BY <1>2, GrowsKeeps DEF CloseSettings
<1>4. Typed'
  BY <1>1, <1>2 DEF CloseSettings, Typed, server, repos, budgets
<1>5. Finite' /\ Dead' /\ Owned'
  BY <1>1, <1>2 DEF CloseSettings, Finite, Dead, Owned, repos
<1> QED
  BY <1>3, <1>4, <1>5

\* Signing out, first of Auth ...
LEMMA SignOutKeeps == IInv /\ SignOut => IInv'
<1> SUFFICES ASSUME Typed, Queued, Finite, Dead, Owned, SignOut PROVE (Typed /\ Queued /\ Finite /\ Dead /\ Owned)'
  BY Parts, PartsNext
<1>1. /\ screen # "dead" /\ screen' = "signingOut" /\ auth' = None
      /\ UNCHANGED <<requests, sessions>>
      /\ main' = main \o (IF auth = None THEN <<>> ELSE <<AuthChanged(None)>>)
  BY DEF SignOut
<1>2. None \in MaybeUser /\ main \in Seq(Blocks)
  BY DEF MaybeUser, Queued, Queue
<1>3. AuthChanged(None) \in Harmless(sessions) /\ Harmless(sessions) \in SUBSET Blocks
  BY <1>2, BlockTypes
<1>4. Grown(main, main', Harmless(sessions))
  <2>1. CASE auth = None
    <3>1. main' = main
      BY <1>1, <1>2, <2>1
    <3> QED
      BY <1>2, <3>1, GrownSame
  <2>2. CASE auth # None
    BY <1>1, <1>2, <1>3, <2>2, GrownOne
  <2> QED
    BY <2>1, <2>2
<1>5. Queued'
  BY <1>1, <1>4, GrowsKeeps
<1>6. Typed'
  BY <1>1, <1>2 DEF SignOut, Typed, server, store, repos, budgets
<1>7. Finite' /\ Dead' /\ Owned'
  BY <1>1 DEF SignOut, Finite, Dead, Owned, store, repos
<1> QED
  BY <1>5, <1>6, <1>7

\* ... then of UserDefaults.
LEMMA RemoveNameKeeps == IInv /\ RemoveName => IInv'
<1> SUFFICES ASSUME Typed, Queued, Finite, Dead, Owned, RemoveName PROVE (Typed /\ Queued /\ Finite /\ Dead /\ Owned)'
  BY Parts, PartsNext
<1>1. /\ screen # "dead" /\ screen' = "home" /\ name' = None /\ Appear(main)
  BY DEF RemoveName
<1>2. lists' \in Listeners /\ Only(lists', sessions) /\ Grown(main, main', Harmless(sessions))
  BY <1>1, AppearIs DEF Typed, Owned, Queued, Queue
<1>3. Queued'
  BY <1>2, GrowsKeeps DEF RemoveName
<1>4. Typed'
  BY <1>1, <1>2 DEF RemoveName, Typed, server, repos, budgets, MaybeUser
<1>5. Finite' /\ Dead' /\ Owned'
  BY <1>1, <1>2 DEF RemoveName, Finite, Dead, Owned, repos
<1> QED
  BY <1>3, <1>4, <1>5

\* Adding a spending.
LEMMA AddKeeps == IInv /\ Add => IInv'
<1> SUFFICES ASSUME Typed, Queued, Finite, Dead, Owned, Add PROVE (Typed /\ Queued /\ Finite /\ Dead /\ Owned)'
  BY Parts, PartsNext
<1>1. /\ screen # "dead" /\ screen' = "home" /\ sessions' = sessions /\ UNCHANGED requests
      /\ currentUser \in Users /\ currentUser \in sessions
  BY DEF Add, Typed, MaybeUser, Owned
<1> DEFINE h == Hears(lists, currentUser, List(currentUser))
<1>2. List(currentUser) \in Harmless(sessions) /\ Harmless(sessions) \in SUBSET Blocks
  BY <1>1, BlockTypes DEF MaybeUser
<1>3. h \in Seq(Harmless(sessions))
  BY <1>2, HearsIs
<1>4. main' = main \o h
  BY DEF Add
<1> HIDE DEF h
<1>5. Grown(main, main', Harmless(sessions))
  BY <1>3, <1>4 DEF Grown
<1>6. Queued'
  BY <1>1, <1>5, GrowsKeeps
<1>7. adds' = Append(adds, currentUser = auth) /\ (currentUser = auth) \in BOOLEAN
  BY DEF Add
<1>8. adds' \in Seq(BOOLEAN)
  BY <1>7, AppendIs DEF Typed
<1>9. cred \in MaybeUser /\ unsent \in [MaybeUser -> SUBSET Users]
      /\ unsent' = [unsent EXCEPT ![cred] = @ \cup {currentUser}]
  BY DEF Typed, Add
<1>10. unsent' \in [MaybeUser -> SUBSET Users]
  BY <1>1, <1>9
<1>11. Typed'
  BY <1>1, <1>8, <1>10 DEF Add, Typed, server, repos, budgets
<1>12. Finite'
  <2>1. ASSUME NEW c \in MaybeUser PROVE IsFiniteSet(unsent'[c])
    <3>1. unsent'[c] = unsent[c] \/ unsent'[c] = unsent[c] \cup {currentUser}
      BY <1>9
    <3>2. IsFiniteSet(unsent[c])
      BY DEF Finite
    <3> QED
      BY <3>1, <3>2, FS_AddElement
  <2> QED
    BY <2>1 DEF Finite
<1>13. Dead' /\ Owned'
  BY <1>1 DEF Add, Dead, Owned, repos
<1> QED
  BY <1>6, <1>11, <1>12, <1>13

\* One request changes that no block carries on.
LEMMA OneChanges ==
  ASSUME NEW m, NEW S, NEW rs \in [Ids -> Requests], Queue(m, rs, S),
         NEW i \in Ids, Free(m, i), rs[i].stage \notin {"free", "lost"},
         NEW r \in Requests, r.user = rs[i].user
  PROVE  [rs EXCEPT ![i] = r] \in [Ids -> Requests] /\ Queue(m, [rs EXCEPT ![i] = r], S)
<1> DEFINE ss == [rs EXCEPT ![i] = r]
<1>1. ss \in [Ids -> Requests] /\ ss[i] = r /\ \A j \in Ids \ {i} : ss[j] = rs[j]
  OBVIOUS
<1> HIDE DEF ss
<1>2. \A j \in Ids : Free(m, j) \/ (ss[j].stage = rs[j].stage /\ ss[j].user = rs[j].user)
  BY <1>1
<1>3. \A j \in Ids : ss[j].stage \notin {"free", "lost"} => ss[j].user \in Users
  BY <1>1 DEF Queue, Matched
<1>4. Queue(m, ss, S)
  BY <1>2, <1>3, QueueRequests
<1> QED
  BY <1>1, <1>4 DEF ss

\* The stage of a request.
LEMMA StageIs ==
  ASSUME NEW rs \in [Ids -> Requests], NEW i \in Ids,
         NEW s \in Stages
  PROVE  LET r == [rs[i] EXCEPT !.stage = s]
         IN /\ r \in Requests /\ r.user = rs[i].user /\ r.stage = s
            /\ [rs EXCEPT ![i].stage = s] = [rs EXCEPT ![i] = r]
  BY DEF Requests, Stages

\* A request's completion, once its block has left the queue.
LEMMA DismissIs ==
  ASSUME Queued, Typed, Owned, screen # "dead", main # <<>>, UNCHANGED sessions,
         NEW i \in Ids, Free(Tail(main), i), requests[i].stage \notin {"free", "lost"}, Dismiss(i)
  PROVE  /\ Queued' /\ lists' \in Listeners /\ Only(lists', sessions) /\ screen' \in {screen, "home"}
<1> DEFINE m == Tail(main)
<1>1. requests \in [Ids -> Requests] /\ Queue(m, requests, sessions)
  BY QueueTail DEF Queued
<1> HIDE DEF m
<1>2. \A s \in {"done", "late"} :
        /\ [requests EXCEPT ![i].stage = s] \in [Ids -> Requests]
        /\ Queue(m, [requests EXCEPT ![i].stage = s], sessions)
  <2>1. ASSUME NEW s \in {"done", "late"}
        PROVE  /\ [requests EXCEPT ![i].stage = s] \in [Ids -> Requests]
               /\ Queue(m, [requests EXCEPT ![i].stage = s], sessions)
    <3>1. s \in Stages
      BY DEF Stages
    <3> DEFINE r == [requests[i] EXCEPT !.stage = s]
    <3>2. /\ r \in Requests /\ r.user = requests[i].user
          /\ [requests EXCEPT ![i].stage = s] = [requests EXCEPT ![i] = r]
      BY <1>1, <3>1, StageIs
    <3> HIDE DEF r
    <3> QED
      BY <1>1, <3>2, OneChanges DEF m
  <2> QED
    BY <2>1
<1>3. m \in Seq(Blocks)
  BY <1>1 DEF Queue
<1>4. CASE requests[i].onStack
  <2> DEFINE rs == [requests EXCEPT ![i].stage = "done"]
  <2>1. rs \in [Ids -> Requests] /\ Queue(m, rs, sessions)
    BY <1>2
  <2>2. requests' = OffStack(rs) /\ screen' = "home" /\ Appear(m)
    BY <1>4 DEF Dismiss, m
  <2> HIDE DEF rs
  <2>3. /\ requests' \in [Ids -> Requests]
        /\ \A j \in Ids : requests'[j].stage = rs[j].stage /\ requests'[j].user = rs[j].user
    BY <2>1, <2>2 DEF OffStack, Requests
  <2>4. \A j \in Ids : requests'[j].stage \notin {"free", "lost"} => requests'[j].user \in Users
    BY <2>1, <2>3 DEF Queue, Matched
  <2>5. Queue(m, requests', sessions)
    BY <2>1, <2>3, <2>4, QueueRequests
  <2>6. lists' \in Listeners /\ Only(lists', sessions) /\ Grown(m, main', Harmless(sessions))
    BY <1>3, <2>2, AppearIs DEF Typed, Owned
  <2>7. Queue(main', requests', sessions)
    BY <2>5, <2>6, QueueGrown
  <2> QED
    BY <2>2, <2>3, <2>6, <2>7 DEF Queued
<1>5. CASE ~ requests[i].onStack
  <2>1. requests' = [requests EXCEPT ![i].stage = "late"] /\ main' = m /\ UNCHANGED <<screen, lists>>
    BY <1>5 DEF Dismiss, m
  <2> QED
    BY <1>2, <2>1 DEF Queued, Typed, Owned
<1> QED
  BY <1>4, <1>5

\* Auth accepts.
LEMMA AuthSucceedsKeeps == ASSUME NEW i \in Ids PROVE IInv /\ AuthSucceeds(i) => IInv'
<1> SUFFICES ASSUME Typed, Queued, Finite, Dead, Owned, AuthSucceeds(i) PROVE (Typed /\ Queued /\ Finite /\ Dead /\ Owned)'
  BY Parts, PartsNext
<1> DEFINE u == requests[i].user
           b == Block("answered", u, i)
           r == [requests[i] EXCEPT !.stage = "answered", !.display = profile[u]]
           m == Append(main, AuthChanged(u))
<1>1. /\ requests[i].stage = "auth" /\ accounts' = accounts \cup {u} /\ auth' = u
      /\ sessions' = sessions \cup {u} /\ requests' = [requests EXCEPT ![i] = r]
      /\ main' = main \o <<AuthChanged(u), b>> /\ screen' = screen
  <2>1. requests \in [Ids -> Requests]
    BY DEF Queued
  <2>2. requests' = [requests EXCEPT ![i] = r]
    BY <2>1 DEF AuthSucceeds, Requests
  <2> QED
    BY <2>2 DEF AuthSucceeds, Posted
<1>2. u \in Users /\ u \in MaybeUser /\ screen # "dead"
  BY <1>1 DEF Queued, Queue, Matched, Dead, MaybeUser
<1>3. /\ b \in Blocks /\ Answering(b) /\ b.id = i /\ b.user = u
  BY <1>2 DEF Blocks, Block, Answering
<1>4. r \in Requests /\ r.user = u /\ r.stage = "answered"
  BY <1>2 DEF Requests, Stages, Queued, Typed
<1>5. main \in Seq(Blocks) /\ AuthChanged(u) \in Blocks
      /\ Harmless(sessions') \in SUBSET Blocks /\ AuthChanged(u) \in Harmless(sessions')
  BY <1>2, BlockTypes DEF Queued, Queue
<1> HIDE DEF b, r, u
<1>6. main' = Append(m, b) /\ Grown(main, m, Harmless(sessions'))
  <2>1. main \o <<AuthChanged(u), b>> = Append(Append(main, AuthChanged(u)), b)
    BY <1>3, <1>5
  <2>2. Grown(main, Append(main, AuthChanged(u)), Harmless(sessions'))
    BY <1>5, GrownOne
  <2> QED
    BY <1>1, <2>1, <2>2
<1> HIDE DEF m
<1>7. Free(main, i)
  BY <1>1, WaitsOrFree DEF Queued
<1>8. Queue(main, requests', sessions) /\ requests' \in [Ids -> Requests]
  BY <1>1, <1>4, <1>7, OneChanges DEF Queued, u
<1>9. Queue(m, requests', sessions') /\ Free(m, i)
  BY <1>1, <1>6, <1>7, <1>8, QueueGrown
<1>10. requests'[i] = r
  BY <1>1 DEF Queued
<1>11. Queue(main', requests', sessions')
  BY <1>3, <1>4, <1>6, <1>9, <1>10, QueueAnswer
<1>12. Queued'
  BY <1>8, <1>11 DEF Queued
<1>13. Typed'
  BY <1>1, <1>2 DEF AuthSucceeds, Typed, store, repos, budgets
<1>14. Finite' /\ Dead'
  BY <1>1, <1>2 DEF AuthSucceeds, Finite, Dead, store
<1>15. Owned'
  BY <1>1 DEF AuthSucceeds, Owned, Only, store, repos
<1> QED
  BY <1>12, <1>13, <1>14, <1>15

\* Auth refuses.
LEMMA AuthFailsKeeps == ASSUME NEW i \in Ids PROVE IInv /\ AuthFails(i) => IInv'
<1> SUFFICES ASSUME Typed, Queued, Finite, Dead, Owned, AuthFails(i) PROVE (Typed /\ Queued /\ Finite /\ Dead /\ Owned)'
  BY Parts, PartsNext
<1>1. requests[i].stage = "auth" /\ requests' = [requests EXCEPT ![i].stage = "failed"]
      /\ UNCHANGED <<main, sessions, screen>>
  BY DEF AuthFails
<1>2. requests[i].user \in Users /\ screen # "dead"
  BY <1>1 DEF Queued, Queue, Matched, Dead
<1>3. Free(main, i)
  BY <1>1, WaitsOrFree DEF Queued
<1>4. Queue(main, requests', sessions) /\ requests' \in [Ids -> Requests]
  BY <1>1, <1>3, StageIs, OneChanges DEF Queued, Stages
<1>5. Queued'
  BY <1>1, <1>4 DEF Queued
<1>6. accounts' \subseteq Users
  BY <1>2 DEF AuthFails, Typed
<1>7. Typed'
  BY <1>6 DEF AuthFails, Typed, store, repos, budgets
<1>8. Finite' /\ Dead' /\ Owned'
  BY <1>1, <1>2 DEF AuthFails, Finite, Dead, Owned, store, repos
<1> QED
  BY <1>5, <1>7, <1>8

\* A token is revoked.
LEMMA RevokeKeeps == IInv /\ Revoke => IInv'
<1> SUFFICES ASSUME Typed, Queued, Finite, Dead, Owned, Revoke PROVE (Typed /\ Queued /\ Finite /\ Dead /\ Owned)'
  BY Parts, PartsNext
<1>1. /\ screen # "dead" /\ screen' = screen /\ auth' = None /\ UNCHANGED <<requests, sessions>>
      /\ main' = Append(main, AuthChanged(None)) /\ revocations' = revocations + 1
  BY DEF Revoke
<1>2. None \in MaybeUser /\ main \in Seq(Blocks)
  BY DEF MaybeUser, Queued, Queue
<1>3. AuthChanged(None) \in Harmless(sessions) /\ Harmless(sessions) \in SUBSET Blocks
  BY <1>2, BlockTypes
<1>4. Grown(main, main', Harmless(sessions))
  BY <1>1, <1>2, <1>3, GrownOne
<1>5. Queued'
  BY <1>1, <1>4, GrowsKeeps
<1>6. Typed'
  BY <1>1, <1>2 DEF Revoke, Typed, server, store, repos
<1>7. Finite' /\ Dead' /\ Owned'
  BY <1>1 DEF Revoke, Finite, Dead, Owned, store, repos
<1> QED
  BY <1>5, <1>6, <1>7

\* A display name is committed, or not.
LEMMA CommitKeeps == ASSUME NEW c \in commits PROVE IInv /\ CommitProfile(c) => IInv'
<1> SUFFICES ASSUME Typed, Queued, Finite, Dead, Owned, CommitProfile(c) PROVE (Typed /\ Queued /\ Finite /\ Dead /\ Owned)'
  BY Parts, PartsNext
<1>1. c \in [of : Users, as : Users] /\ profile \in [Users -> MaybeUser]
  BY DEF Typed
<1>2. profile' \in [Users -> MaybeUser] /\ commits' \subseteq commits
  BY <1>1 DEF CommitProfile, MaybeUser
<1>3. Typed'
  BY <1>2 DEF CommitProfile, Typed, store, repos, budgets
<1>4. Queued'
  BY DEF CommitProfile, Queued
<1>5. Finite' /\ Dead' /\ Owned'
  BY DEF CommitProfile, Finite, Dead, Owned, store, repos
<1> QED
  BY <1>3, <1>4, <1>5

\* The first block leaves the queue and changes what is shown.
LEMMA TailKeeps ==
  ASSUME Queued, main # <<>>, main' = Tail(main), UNCHANGED <<requests, sessions>>
  PROVE  Queued'
  BY QueueTail DEF Queued

\* A block to run.
LEMMA DueIs ==
  ASSUME Queued, Dead, NEW k, Due(k)
  PROVE  main # <<>> /\ screen # "dead" /\ Head(main) \in Blocks /\ Head(main).kind = k
  BY QueueTail DEF Due, Dead, Queued

\* loadData.
LEMMA LoadKeeps == IInv /\ DeliverLoad => IInv'
<1> SUFFICES ASSUME Typed, Queued, Finite, Dead, Owned, DeliverLoad PROVE (Typed /\ Queued /\ Finite /\ Dead /\ Owned)'
  BY Parts, PartsNext
<1>1. main # <<>> /\ screen # "dead" /\ screen' # "dead" /\ screen' \in {screen, "onboarding"}
  BY DueIs DEF DeliverLoad
<1>2. Queued'
  BY <1>1, TailKeeps DEF DeliverLoad
<1>3. Typed'
  BY <1>1 DEF DeliverLoad, Typed, server, store, repos, budgets
<1>4. Finite' /\ Dead' /\ Owned'
  BY <1>1 DEF DeliverLoad, Finite, Dead, Owned, store, repos
<1> QED
  BY <1>2, <1>3, <1>4

\* A user document arrives.
LEMMA UserDocKeeps == IInv /\ DeliverUserDoc => IInv'
<1> SUFFICES ASSUME Typed, Queued, Finite, Dead, Owned, DeliverUserDoc PROVE (Typed /\ Queued /\ Finite /\ Dead /\ Owned)'
  BY Parts, PartsNext
<1>1. main # <<>> /\ screen # "dead" /\ Head(main) \in Blocks /\ Head(main).kind = "userDoc"
  BY DueIs DEF DeliverUserDoc
<1>2. Head(main).user \in sessions /\ Head(main).user \in MaybeUser
  BY <1>1, QueueTail DEF Queued, Blocks
<1>3. currentUser' = Head(main).user /\ screen' = screen
  BY DEF DeliverUserDoc
<1>4. Queued'
  BY <1>1, TailKeeps DEF DeliverUserDoc
<1>5. Typed'
  BY <1>2, <1>3 DEF DeliverUserDoc, Typed, server, store, budgets
<1>6. Finite' /\ Dead' /\ Owned'
  BY <1>1, <1>2, <1>3 DEF DeliverUserDoc, Finite, Dead, Owned, store
<1> QED
  BY <1>4, <1>5, <1>6

\* A list arrives.
LEMMA ListKeeps == IInv /\ DeliverList => IInv'
<1> SUFFICES ASSUME Typed, Queued, Finite, Dead, Owned, DeliverList PROVE (Typed /\ Queued /\ Finite /\ Dead /\ Owned)'
  BY Parts, PartsNext
<1>1. main # <<>> /\ screen # "dead" /\ Head(main) \in Blocks /\ Head(main).kind = "list"
  BY DueIs DEF DeliverList
<1>2. Head(main).user \in sessions /\ Head(main).user \in MaybeUser
  BY <1>1, QueueTail DEF Queued, Blocks
<1>3. listOf' = Head(main).user /\ screen' = screen
  BY DEF DeliverList
<1>4. Queued'
  BY <1>1, TailKeeps DEF DeliverList
<1>5. Typed'
  BY <1>2, <1>3 DEF DeliverList, Typed, server, store, budgets
<1>6. Finite' /\ Dead' /\ Owned'
  BY <1>1, <1>2, <1>3 DEF DeliverList, Finite, Dead, Owned, store
<1> QED
  BY <1>4, <1>5, <1>6

\* A block that answers a request, to run.
LEMMA AnswerIs ==
  ASSUME Queued, Dead, NEW k \in {"answered", "getDocument", "gotDocument"}, Due(k)
  PROVE  LET i == Head(main).id IN
         /\ main # <<>> /\ screen # "dead" /\ Head(main) \in Blocks
         /\ i \in Ids /\ requests[i] \in Requests /\ requests[i].stage = "answered"
         /\ requests[i].user \in Users /\ Free(Tail(main), i)
         /\ Head(main).user = requests[i].user \/ (k = "gotDocument" /\ Head(main).user = None)
         /\ Queue(Tail(main), requests, sessions)
<1>1. main # <<>> /\ screen # "dead" /\ Head(main) \in Blocks /\ Head(main).kind = k
  BY DueIs
<1>2. Answering(Head(main)) /\ requests \in [Ids -> Requests] /\ Queue(main, requests, sessions)
  BY <1>1 DEF Answering, Queued
<1> QED
  BY <1>1, <1>2, QueueTail

\* A sign-in's completion.
LEMMA SignedInKeeps == IInv /\ DeliverSignedIn => IInv'
<1> SUFFICES ASSUME Typed, Queued, Finite, Dead, Owned, DeliverSignedIn PROVE (Typed /\ Queued /\ Finite /\ Dead /\ Owned)'
  BY Parts, PartsNext
<1> DEFINE i == Head(main).id
<1>1. /\ main # <<>> /\ screen # "dead" /\ i \in Ids /\ requests[i] \in Requests
      /\ requests[i].stage = "answered" /\ Free(Tail(main), i)
  BY AnswerIs DEF DeliverSignedIn
<1>2. name' = requests[i].display /\ Dismiss(i) /\ UNCHANGED sessions
  BY DEF DeliverSignedIn, repos
<1> HIDE DEF i
<1>3. Queued' /\ lists' \in Listeners /\ Only(lists', sessions) /\ screen' \in {screen, "home"}
  BY <1>1, <1>2, DismissIs
<1>4. name' \in MaybeUser
  BY <1>1, <1>2 DEF Requests
<1>5. Typed'
  BY <1>3, <1>4 DEF DeliverSignedIn, Typed, server, repos, budgets
<1>6. Finite' /\ Dead' /\ Owned'
  BY <1>1, <1>3 DEF DeliverSignedIn, Finite, Dead, Owned, repos
<1> QED
  BY <1>3, <1>5, <1>6

\* getDocument is called.
LEMMA GetDocumentKeeps == IInv /\ DeliverGetDocument => IInv'
<1> SUFFICES ASSUME Typed, Queued, Finite, Dead, Owned, DeliverGetDocument PROVE (Typed /\ Queued /\ Finite /\ Dead /\ Owned)'
  BY Parts, PartsNext
<1> DEFINE i == Head(main).id
<1>1. /\ main # <<>> /\ screen # "dead" /\ i \in Ids /\ requests[i].stage = "answered"
      /\ Free(Tail(main), i) /\ Queue(Tail(main), requests, sessions)
      /\ requests \in [Ids -> Requests]
  BY AnswerIs DEF DeliverGetDocument, Queued
<1>2. /\ requests' = [requests EXCEPT ![i].stage = "document"] /\ main' = Tail(main)
      /\ screen' = screen /\ sessions' = sessions
  BY DEF DeliverGetDocument
<1> HIDE DEF i
<1>3. Queue(Tail(main), requests', sessions) /\ requests' \in [Ids -> Requests]
  BY <1>1, <1>2, StageIs, OneChanges DEF Stages
<1>4. Queued'
  BY <1>2, <1>3 DEF Queued
<1>5. Typed'
  BY DEF DeliverGetDocument, Typed, server, store, repos, budgets
<1>6. Finite' /\ Dead' /\ Owned'
  BY <1>1, <1>2 DEF DeliverGetDocument, Finite, Dead, Owned, store, repos
<1> QED
  BY <1>4, <1>5, <1>6

\* getDocument's completion.
LEMMA GotDocumentKeeps == IInv /\ DeliverGotDocument => IInv'
<1> SUFFICES ASSUME Typed, Queued, Finite, Dead, Owned, DeliverGotDocument PROVE (Typed /\ Queued /\ Finite /\ Dead /\ Owned)'
  BY Parts, PartsNext
<1> DEFINE i == Head(main).id
<1>1. /\ main # <<>> /\ screen # "dead" /\ i \in Ids /\ requests[i].stage = "answered"
      /\ Free(Tail(main), i) /\ Queue(Tail(main), requests, sessions)
      /\ requests \in [Ids -> Requests] /\ Head(main).user \in MaybeUser
  BY AnswerIs DEF DeliverGotDocument, Queued, Blocks
<1>2. /\ \/ Head(main).user # None /\ name' = Head(main).user /\ Dismiss(i)
         \/ /\ requests' = [requests EXCEPT ![i].stage = "failed"]
            /\ main' = Tail(main) /\ UNCHANGED <<name, screen, lists>>
      /\ UNCHANGED sessions
  BY DEF DeliverGotDocument
<1>3. name' \in MaybeUser
  BY <1>1, <1>2 DEF Typed
<1> HIDE DEF i
<1>4. Queued' /\ lists' \in Listeners /\ Only(lists', sessions) /\ screen' \in {screen, "home"}
  <2>1. CASE Dismiss(i)
    BY <1>1, <1>2, <2>1, DismissIs
  <2>2. CASE /\ requests' = [requests EXCEPT ![i].stage = "failed"]
             /\ main' = Tail(main) /\ UNCHANGED <<name, screen, lists>>
    <3>1. Queue(Tail(main), requests', sessions) /\ requests' \in [Ids -> Requests]
      BY <1>1, <2>2, StageIs, OneChanges DEF Stages
    <3> QED
      BY <1>2, <2>2, <3>1 DEF Queued, Typed, Owned
  <2> QED
    BY <1>2, <2>1, <2>2
<1>5. Typed'
  BY <1>3, <1>4 DEF DeliverGotDocument, Typed, server, repos, budgets
<1>6. Finite' /\ Dead' /\ Owned'
  BY <1>1, <1>4 DEF DeliverGotDocument, Finite, Dead, Owned, repos
<1> QED
  BY <1>4, <1>5, <1>6

-----------------------------------------------------------------------------
(* Sets as sequences.                                                      *)

\* The elements of a finite set in some order.
LEMMA SetToSeqIs ==
  ASSUME NEW S, IsFiniteSet(S)
  PROVE  SetToSeq(S) \in Seq(S)
<1> DEFINE n == Cardinality(S)
<1>1. n \in Nat /\ ExistsBijection(1..n, S)
  BY FS_CardinalityType
<1>2. \E f \in [1..n -> S] : IsInjective(f)
  BY <1>1 DEF ExistsBijection, Bijection, Injection
<1>3. SetToSeq(S) \in [1..n -> S]
  BY <1>2 DEF SetToSeq
<1> HIDE DEF n
<1> QED
  BY <1>1, <1>3

\* The lists of finitely many users are finitely many.
LEMMA ListsAreFinite ==
  ASSUME NEW W, IsFiniteSet(W)
  PROVE  IsFiniteSet({List(v) : v \in W})
<1> DEFINE f == [v \in W |-> List(v)]
           L == {List(v) : v \in W}
<1>1. f \in [W -> L] /\ \A t \in L : \E v \in W : f[v] = t
  OBVIOUS
<1>2. f \in Surjection(W, L)
  BY <1>1 DEF Surjection
<1> HIDE DEF f, L
<1>3. IsFiniteSet(L)
  BY <1>2, FS_Surjection
<1> QED
  BY <1>3 DEF L

\* The queue after Auth's notification, and the document listened for.
LEMMA AuthChangedIs ==
  ASSUME Typed, Queued, Finite, Dead, Owned, DeliverAuthChanged
  PROVE  /\ main # <<>> /\ screen # "dead" /\ Queue(Tail(main), requests, sessions)
         /\ Grown(Tail(main), main', Events(sessions))
         /\ docs' \in Listeners /\ Only(docs', sessions) /\ cred' \in MaybeUser
         /\ told' = auth /\ UNCHANGED <<requests, screen, sessions, lists>>
<1> DEFINE u == Head(main).user
           S == IF u = cred THEN {} ELSE unsent[cred] \cup unsent[u]
           W == {w \in S : lists[w] = "live"}
           changed == SetToSeq({List(v) : v \in W})
           news == IF told = auth THEN None ELSE auth
           heard == IF news \in userDoc THEN Hears(docs, news, UserDoc(news)) ELSE <<>>
           B == Events(sessions)
<1>1. main # <<>> /\ screen # "dead" /\ u \in MaybeUser /\ Queue(Tail(main), requests, sessions)
  BY DueIs, QueueTail DEF DeliverAuthChanged, Queued, Blocks
<1>2. /\ cred' = u /\ main' = (Tail(main) \o changed) \o heard
      /\ docs' = Watched(docs, news) /\ told' = auth
      /\ UNCHANGED <<requests, screen, sessions, lists>>
  BY DEF DeliverAuthChanged
<1>3. news \in MaybeUser /\ news \in sessions \cup {None} /\ None \in MaybeUser
  BY <1>1 DEF Typed, Owned, MaybeUser
<1>4. S \subseteq Users /\ IsFiniteSet(S)
  <2>1. cred \in MaybeUser /\ unsent \in [MaybeUser -> SUBSET Users]
    BY DEF Typed
  <2>2. IsFiniteSet(unsent[cred]) /\ IsFiniteSet(unsent[u])
    BY <1>1, <2>1 DEF Finite
  <2>3. IsFiniteSet(unsent[cred] \cup unsent[u]) /\ IsFiniteSet({})
    BY <2>2, FS_Union, FS_EmptySet
  <2> QED
    BY <1>1, <2>1, <2>3
<1> HIDE DEF u, news, S
<1>5. W \subseteq sessions /\ IsFiniteSet(W) /\ W \subseteq MaybeUser
  <2>1. W \in SUBSET S
    OBVIOUS
  <2>2. IsFiniteSet(W)
    BY <1>4, <2>1, FS_Subset
  <2> QED
    BY <1>4, <2>2 DEF Owned, Only, MaybeUser
<1> HIDE DEF W
<1>6. B \in SUBSET Blocks /\ \A v \in sessions : v \in MaybeUser => List(v) \in B /\ UserDoc(v) \in B
  BY <1>3, BlockTypes
<1> HIDE DEF B
<1>7. changed \in Seq(B)
  <2>1. changed \in Seq({List(v) : v \in W})
    BY <1>5, ListsAreFinite, SetToSeqIs
  <2>2. {List(v) : v \in W} \subseteq B
    BY <1>5, <1>6
  <2> HIDE DEF changed
  <2> QED
    BY <2>1, <2>2
<1>8. heard \in Seq(B)
  <2>1. news \in userDoc => news \in Users /\ news # None
    BY SessionAssumption DEF Typed
  <2>2. CASE news \in userDoc
    <3>1. UserDoc(news) \in B
      BY <1>3, <1>6, <2>1, <2>2
    <3> QED
      BY <2>2, <3>1, HearsIs
  <2>3. CASE news \notin userDoc
    BY <2>3
  <2> QED
    BY <2>2, <2>3
<1> HIDE DEF changed, heard
<1>9. Tail(main) \in Seq(Blocks)
  BY <1>1 DEF Queue
<1>10. Grown(Tail(main), Tail(main) \o changed, B)
  BY <1>7 DEF Grown
<1>11. Grown(Tail(main), main', B)
  BY <1>2, <1>6, <1>8, <1>9, <1>10, GrownMore
<1>12. docs' \in Listeners /\ Only(docs', sessions)
  BY <1>2, <1>3, WatchedIs DEF Typed, Owned
<1> QED
  BY <1>1, <1>2, <1>11, <1>12 DEF B, u

\* Auth's notification.
LEMMA AuthChangedKeeps == IInv /\ DeliverAuthChanged => IInv'
<1> SUFFICES ASSUME Typed, Queued, Finite, Dead, Owned, DeliverAuthChanged PROVE (Typed /\ Queued /\ Finite /\ Dead /\ Owned)'
  BY Parts, PartsNext
<1>1. /\ main # <<>> /\ screen # "dead" /\ Queue(Tail(main), requests, sessions)
      /\ Grown(Tail(main), main', Events(sessions))
      /\ docs' \in Listeners /\ Only(docs', sessions) /\ cred' \in MaybeUser
      /\ told' = auth /\ UNCHANGED <<requests, screen, sessions, lists>>
  BY AuthChangedIs
<1>2. Queue(main', requests, sessions)
  <2>1. Events(sessions) \subseteq Harmless(sessions)
    BY DEF Harmless
  <2>2. Grown(Tail(main), main', Harmless(sessions))
    BY <1>1, <2>1, GrownIn
  <2> QED
    BY <1>1, <2>2, QueueGrown
<1>3. Queued'
  BY <1>1, <1>2 DEF Queued
<1>4. Typed'
  BY <1>1 DEF DeliverAuthChanged, Typed, server, budgets
<1>5. Finite' /\ Dead' /\ Owned'
  BY <1>1 DEF DeliverAuthChanged, Finite, Dead, Owned
<1> QED
  BY <1>3, <1>4, <1>5

\* A sign-up's completion.
LEMMA CreatedKeeps == IInv /\ DeliverCreated => IInv'
<1> SUFFICES ASSUME Typed, Queued, Finite, Dead, Owned, DeliverCreated PROVE (Typed /\ Queued /\ Finite /\ Dead /\ Owned)'
  BY Parts, PartsNext
<1> DEFINE i == Head(main).id
           u == Head(main).user
           b == Block("getDocument", u, i)
           t == Tail(main)
           heard == IF Listening(docs, u) THEN <<UserDoc(u)>> ELSE <<>>
           B == Harmless(sessions)
<1>1. /\ main # <<>> /\ screen # "dead" /\ i \in Ids /\ requests[i].stage = "answered"
      /\ Free(t, i) /\ Queue(t, requests, sessions) /\ u = requests[i].user /\ u \in Users
  BY AnswerIs DEF DeliverCreated
<1>2. /\ auth # None /\ main' = (t \o <<b>>) \o heard
      /\ userDoc' \in {userDoc, userDoc \cup {u}}
      /\ commits' = commits \cup {[of |-> auth, as |-> u]}
      /\ docs' = IF Listening(docs, u) THEN [docs EXCEPT ![u] = "live"] ELSE docs
      /\ UNCHANGED <<requests, screen, sessions, lists>>
  BY DEF DeliverCreated, Unwraps
<1>3. b \in Blocks /\ Answering(b) /\ b.id = i /\ b.user = u
  BY <1>1 DEF Blocks, Block, Answering, MaybeUser
<1>4. B \in SUBSET Blocks /\ (u \in sessions => UserDoc(u) \in B)
  BY <1>1, BlockTypes DEF MaybeUser
<1>5. Listening(docs, u) => u \in sessions
  BY <1>1 DEF Owned, Only, Listening
<1>6. heard \in Seq(B)
  BY <1>4, <1>5
<1> HIDE DEF b, t, heard, u, i
<1>7. Queue(Append(t, b), requests, sessions)
  BY <1>1, <1>3, QueueAnswer
<1>8. t \o <<b>> = Append(t, b)
  BY <1>1, <1>3 DEF Queue
<1>9. Grown(Append(t, b), main', B)
  BY <1>2, <1>6, <1>8 DEF Grown
<1>10. Queue(main', requests, sessions)
  BY <1>7, <1>9, QueueGrown
<1>11. Queued'
  BY <1>2, <1>10 DEF Queued
<1>12. docs' \in Listeners /\ Only(docs', sessions)
  BY <1>1, <1>2, <1>5 DEF Typed, Owned, Only, Listeners
<1>13. userDoc' \subseteq Users /\ commits' \subseteq [of : Users, as : Users]
  BY <1>1, <1>2 DEF Typed, MaybeUser
<1>14. Typed'
  BY <1>2, <1>12, <1>13 DEF DeliverCreated, Typed, repos, budgets
<1>15. Finite' /\ Dead' /\ Owned'
  BY <1>1, <1>12 DEF DeliverCreated, Finite, Dead, Owned, repos
<1> QED
  BY <1>11, <1>14, <1>15

\* ... or the app traps.
LEMMA TrapKeeps == IInv /\ TrapInCreated => IInv'
<1> SUFFICES ASSUME Typed, Queued, Finite, Dead, Owned, TrapInCreated PROVE (Typed /\ Queued /\ Finite /\ Dead /\ Owned)'
  BY Parts, PartsNext
<1>1. Queued' /\ Dead' /\ Owned'
  BY MemoryEmpties DEF TrapInCreated
<1>4. /\ lists' \in Listeners /\ docs' \in Listeners /\ sessions' = {} /\ screen' = "dead"
      /\ currentUser' = None /\ listOf' = None /\ told' = "never" /\ accounts' \subseteq Users
  BY MemoryEmpties DEF TrapInCreated
<1>5. userDoc' \subseteq Users
  <2>1. CASE userDoc' = userDoc
    BY <2>1 DEF Typed
  <2>2. CASE userDoc' = userDoc \cup {Head(main).user}
    <3>1. Head(main).user \in Users
      BY AnswerIs DEF TrapInCreated
    <3> QED
      BY <2>2, <3>1 DEF Typed
  <2> QED
    BY <2>1, <2>2 DEF TrapInCreated
<1>6. Typed'
  BY <1>4, <1>5 DEF TrapInCreated, Typed, MaybeUser, budgets
<1>7. Finite'
  BY DEF TrapInCreated, Finite
<1> QED
  BY <1>1, <1>6, <1>7

\* A listener's first event, of a list.
LEMMA FirstListKeeps == ASSUME NEW u \in Users PROVE IInv /\ FirstList(u) => IInv'
<1> SUFFICES ASSUME Typed, Queued, Finite, Dead, Owned, FirstList(u) PROVE (Typed /\ Queued /\ Finite /\ Dead /\ Owned)'
  BY Parts, PartsNext
<1>1. /\ screen # "dead" /\ lists[u] = "new" /\ lists' = [lists EXCEPT ![u] = "live"]
      /\ main' = Append(main, List(u)) /\ UNCHANGED <<requests, sessions, screen>>
  BY DEF FirstList, Same
<1>2. u \in sessions /\ u \in MaybeUser /\ main \in Seq(Blocks)
  BY <1>1 DEF Owned, Only, MaybeUser, Queued, Queue
<1>3. List(u) \in Harmless(sessions) /\ Harmless(sessions) \in SUBSET Blocks
  BY <1>2, BlockTypes
<1>4. Grown(main, main', Harmless(sessions))
  BY <1>1, <1>2, <1>3, GrownOne
<1>5. Queued'
  BY <1>1, <1>4, GrowsKeeps
<1>6. lists' \in Listeners /\ Only(lists', sessions)
  BY <1>1, <1>2 DEF Typed, Owned, Only, Listeners
<1>7. Typed'
  BY <1>6 DEF FirstList, Same, Typed, server, repos, budgets
<1>8. Finite' /\ Dead' /\ Owned'
  BY <1>1, <1>6 DEF FirstList, Same, Finite, Dead, Owned, repos
<1> QED
  BY <1>5, <1>7, <1>8

\* ... of a user document.
LEMMA FirstUserDocKeeps == ASSUME NEW u \in Users PROVE IInv /\ FirstUserDoc(u) => IInv'
<1> SUFFICES ASSUME Typed, Queued, Finite, Dead, Owned, FirstUserDoc(u) PROVE (Typed /\ Queued /\ Finite /\ Dead /\ Owned)'
  BY Parts, PartsNext
<1>1. /\ screen # "dead" /\ docs[u] = "new" /\ docs' = [docs EXCEPT ![u] = "live"]
      /\ main' = Append(main, UserDoc(u)) /\ UNCHANGED <<requests, sessions, screen>>
  BY DEF FirstUserDoc, Same
<1>2. u \in sessions /\ u \in MaybeUser /\ main \in Seq(Blocks)
  BY <1>1 DEF Owned, Only, MaybeUser, Queued, Queue
<1>3. UserDoc(u) \in Harmless(sessions) /\ Harmless(sessions) \in SUBSET Blocks
  BY <1>2, BlockTypes
<1>4. Grown(main, main', Harmless(sessions))
  BY <1>1, <1>2, <1>3, GrownOne
<1>5. Queued'
  BY <1>1, <1>4, GrowsKeeps
<1>6. docs' \in Listeners /\ Only(docs', sessions)
  BY <1>1, <1>2 DEF Typed, Owned, Only, Listeners
<1>7. Typed'
  BY <1>6 DEF FirstUserDoc, Same, Typed, server, repos, budgets
<1>8. Finite' /\ Dead' /\ Owned'
  BY <1>1, <1>6 DEF FirstUserDoc, Same, Finite, Dead, Owned, repos
<1> QED
  BY <1>5, <1>7, <1>8

\* A listen is refused.
LEMMA DeniedKeeps == ASSUME NEW u \in Users PROVE IInv /\ Denied(u) => IInv'
<1> SUFFICES ASSUME Typed, Queued, Finite, Dead, Owned, Denied(u) PROVE (Typed /\ Queued /\ Finite /\ Dead /\ Owned)'
  BY Parts, PartsNext
<1>1. /\ screen # "dead" /\ UNCHANGED <<requests, sessions, screen, main>>
      /\ lists' = lists \/ (Listening(lists, u) /\ lists' = [lists EXCEPT ![u] = "refused"])
      /\ docs' = docs \/ (Listening(docs, u) /\ docs' = [docs EXCEPT ![u] = "refused"])
  BY DEF Denied, Same
<1>2. lists' \in Listeners /\ Only(lists', sessions) /\ docs' \in Listeners /\ Only(docs', sessions)
  BY <1>1 DEF Typed, Owned, Only, Listeners, Listening
<1>3. Queued'
  BY <1>1 DEF Queued
<1>4. Typed'
  BY <1>2 DEF Denied, Same, Typed, server, repos, budgets
<1>5. Finite' /\ Dead' /\ Owned'
  BY <1>1, <1>2 DEF Denied, Same, Finite, Dead, Owned, repos
<1> QED
  BY <1>3, <1>4, <1>5

\* Another device writes.
LEMMA RemoteKeeps == ASSUME NEW u \in Users PROVE IInv /\ RemoteChange(u) => IInv'
<1> SUFFICES ASSUME Typed, Queued, Finite, Dead, Owned, RemoteChange(u) PROVE (Typed /\ Queued /\ Finite /\ Dead /\ Owned)'
  BY Parts, PartsNext
<1>1. /\ screen # "dead" /\ lists[u] = "live"
      /\ main' = Append(main, List(u)) /\ UNCHANGED <<requests, sessions, screen>>
  BY DEF RemoteChange, Same
<1>2. u \in sessions /\ u \in MaybeUser /\ main \in Seq(Blocks)
  BY <1>1 DEF Owned, Only, MaybeUser, Queued, Queue
<1>3. List(u) \in Harmless(sessions) /\ Harmless(sessions) \in SUBSET Blocks
  BY <1>2, BlockTypes
<1>4. Grown(main, main', Harmless(sessions))
  BY <1>1, <1>2, <1>3, GrownOne
<1>5. Queued'
  BY <1>1, <1>4, GrowsKeeps
<1>6. Typed'
  BY <1>1 DEF RemoteChange, Same, Typed, server, store, repos, budgets
<1>7. Finite' /\ Dead' /\ Owned'
  BY <1>1 DEF RemoteChange, Same, Finite, Dead, Owned, store, repos
<1> QED
  BY <1>5, <1>6, <1>7

\* Writes are answered.
LEMMA WriteAnsweredKeeps == ASSUME NEW u \in Users PROVE IInv /\ WriteAnswered(u) => IInv'
<1> SUFFICES ASSUME Typed, Queued, Finite, Dead, Owned, WriteAnswered(u) PROVE (Typed /\ Queued /\ Finite /\ Dead /\ Owned)'
  BY Parts, PartsNext
<1> DEFINE h == Hears(lists, u, List(u))
           B == Harmless(sessions)
<1>1. /\ screen # "dead" /\ unsent' = [unsent EXCEPT ![cred] = @ \ {u}]
      /\ main' = main \/ main' = main \o h
      /\ UNCHANGED <<requests, sessions, screen, adds, listOf, currentUser, lists, docs>>
  BY DEF WriteAnswered, Same, repos
<1>2. u \in MaybeUser /\ main \in Seq(Blocks) /\ cred \in MaybeUser
      /\ unsent \in [MaybeUser -> SUBSET Users]
  BY DEF MaybeUser, Queued, Queue, Typed
<1>3. lists[u] = "live" => List(u) \in B
  <2>1. lists[u] = "live" => u \in sessions
    BY DEF Owned, Only
  <2> QED
    BY <1>2, <2>1, BlockTypes
<1>4. h \in Seq(B)
  BY <1>3, HearsIs
<1> HIDE DEF h
<1>5. Grown(main, main', B)
  BY <1>1, <1>2, <1>4, GrownSame DEF Grown
<1>6. Queued'
  BY <1>1, <1>5, GrowsKeeps
<1>7. unsent' \in [MaybeUser -> SUBSET Users] /\ \A c \in MaybeUser : unsent'[c] \in SUBSET unsent[c]
  BY <1>1, <1>2
<1>8. Typed'
  BY <1>7 DEF WriteAnswered, Same, Typed, server, repos, budgets
<1>9. \A c \in MaybeUser : IsFiniteSet(unsent'[c])
  BY <1>7, FS_Subset DEF Finite
<1>10. Finite'
  BY <1>1, <1>9 DEF Finite
<1>11. Dead' /\ Owned'
  BY <1>1 DEF WriteAnswered, Same, Dead, Owned, repos
<1> QED
  BY <1>6, <1>8, <1>10, <1>11

\* A document is answered.
LEMMA DocumentKeeps == ASSUME NEW i \in Ids PROVE IInv /\ DocumentAnswers(i) => IInv'
<1> SUFFICES ASSUME Typed, Queued, Finite, Dead, Owned, DocumentAnswers(i) PROVE (Typed /\ Queued /\ Finite /\ Dead /\ Owned)'
  BY Parts, PartsNext
<1>1. /\ requests[i].stage = "document" /\ requests' = [requests EXCEPT ![i].stage = "answered"]
      /\ UNCHANGED <<sessions, screen>>
  BY DEF DocumentAnswers, Same
<1>2. PICK r \in {requests[i].user, None} : main' = Append(main, Block("gotDocument", r, i))
  BY DEF DocumentAnswers
<1> DEFINE b == Block("gotDocument", r, i)
<1>3. requests[i].user \in Users /\ screen # "dead" /\ requests \in [Ids -> Requests]
  BY <1>1 DEF Queued, Queue, Matched, Dead
<1>4. r \in MaybeUser
  BY <1>2, <1>3 DEF MaybeUser
<1>5. b \in Blocks /\ Answering(b) /\ b.id = i /\ b.user = r /\ b.kind = "gotDocument"
  BY <1>4 DEF Blocks, Block, Answering
<1> HIDE DEF b
<1>6. Free(main, i)
  BY <1>1, WaitsOrFree DEF Queued
<1>7. Queue(main, requests', sessions) /\ requests' \in [Ids -> Requests]
  BY <1>1, <1>3, <1>6, StageIs, OneChanges DEF Queued, Stages
<1>8. requests'[i].stage = "answered" /\ requests'[i].user = requests[i].user
  BY <1>1, <1>3 DEF Requests
<1>9. b.user = requests'[b.id].user \/ (b.kind = "gotDocument" /\ b.user = None)
  BY <1>2, <1>5, <1>8
<1>10. Queue(Append(main, b), requests', sessions)
  BY <1>5, <1>6, <1>7, <1>8, <1>9, QueueAnswer
<1>11. Queued'
  BY <1>1, <1>2, <1>7, <1>10 DEF Queued, b
<1>12. Typed'
  BY DEF DocumentAnswers, Same, Typed, server, store, repos, budgets
<1>13. Finite' /\ Dead' /\ Owned'
  BY <1>1, <1>3 DEF DocumentAnswers, Same, Finite, Dead, Owned, store, repos
<1> QED
  BY <1>11, <1>12, <1>13

-----------------------------------------------------------------------------
(* Every step.                                                             *)

\* The invariant is inductive.
LEMMA StepInv == IInv /\ [Next]_vars => IInv'
<1> SUFFICES ASSUME IInv, [Next]_vars PROVE IInv'
  OBVIOUS
<1>1. CASE Launch \/ Kill \/ Revoke
  BY <1>1, LaunchKeeps, KillKeeps, RevokeKeeps
<1>2. CASE Tap
  BY <1>2, GoKeeps, BackKeeps, CloseSettingsKeeps, SignOutKeeps, AddKeeps, AskKeeps DEF Tap
<1>3. CASE MainThread
  BY <1>3, AuthChangedKeeps, LoadKeeps, SignedInKeeps, CreatedKeeps, TrapKeeps,
     GetDocumentKeeps, GotDocumentKeeps, UserDocKeeps, ListKeeps, RemoveNameKeeps DEF MainThread
<1>4. CASE AuthBackend \/ Profiles
  BY <1>4, AuthSucceedsKeeps, AuthFailsKeeps, CommitKeeps DEF AuthBackend, Profiles
<1>5. CASE Firestore \/ \E u \in Users : Denied(u) \/ RemoteChange(u) \/ WriteAnswered(u)
  BY <1>5, FirstListKeeps, FirstUserDocKeeps, DocumentKeeps, DeniedKeeps, RemoteKeeps,
     WriteAnsweredKeeps DEF Firestore, Answers
<1>6. CASE UNCHANGED vars
  <2>1. UNCHANGED <<auth, name, server, store, main, requests, screen, repos, sessions, adds,
                    trapped, budgets>>
    BY <1>6 DEF vars
  <2>2. TypeOK'
    BY <2>1 DEF IInv, TypeOK, server, store, repos, budgets
  <2>3. Matched(main, requests)'
    BY <2>1 DEF IInv
  <2>4. Finite' /\ Dead' /\ Own'
    BY <2>1 DEF IInv, Finite, Dead, Own, store, repos
  <2> QED
    BY <2>2, <2>3, <2>4 DEF IInv
<1> QED
  BY <1>1, <1>2, <1>3, <1>4, <1>5, <1>6 DEF Next

\* The invariant of every behaviour.
THEOREM InvHolds == Spec => []IInv
  BY InitInv, StepInv, PTL DEF Spec

\* Every variable keeps the shape the code gives it, for any number of users and
\* requests: no block of the main thread refers to a request or a user that is not there.
THEOREM TypeCorrect == Spec => []TypeOK
  BY InvHolds, PTL DEF IInv

\* What a process shows, listens to or adds to belongs to somebody signed in since
\* its launch, however sign-ins, revocations, kills and late answers interleave, and
\* whatever the rules and the cache give away.
THEOREM ShownWereSignedIn == Spec => []OwnSessionsOnly
<1>1. IInv => OwnSessionsOnly
  BY DEF IInv, Own, OwnSessionsOnly, Listening
<1> QED
  BY <1>1, InvHolds, PTL

-----------------------------------------------------------------------------
(* Names.                                                                  *)

\* Requests that Auth has accepted or refused, and those that wait for a block.
Decided(r) == r.stage \notin {"free", "lost", "auth"}
Waiting(r) == r.stage \in {"answered", "document"}

\* A sign-in without a display name, answered when its form had gone.
Nameless(r) == r.stage = "late" /\ r.kind = "signIn" /\ r.display = None

HasLoad(m) == \E k \in DOMAIN m : m[k].kind = "load"

\* Behind every answer on the queue m, or in its place, is one for u.
EndsWith(m, u) ==
  \A k \in DOMAIN m : m[k].kind = "answered" =>
    \E j \in DOMAIN m : k <= j /\ m[j].kind = "answered" /\ m[j].user = u

\* The last answer on the queue is for Auth's user ...
LastAnswer == auth # None => EndsWith(main, auth)

\* ... who was one of those whose requests Auth has decided, if one still waits.
AuthDecided ==
  auth # None /\ (\E i \in Ids : Waiting(requests[i])) =>
    \E j \in Ids : Decided(requests[j]) /\ requests[j].user = auth

\* Somebody who is signed in in the middle of signOut has an answer queued.
LateSignIn == screen = "signingOut" /\ auth # None => Answered(auth)

\* No load is queued behind the controllers that a touch has opened over Home.
LoadsAtHome == HasLoad(main) => screen \notin {"add", "settings", "signingOut"}

\* Home is left by a load, or nameless by a sign-in whose form had gone.
NamelessLeaves ==
  screen \in {"home", "add", "settings"} /\ name = None =>
    HasLoad(main) \/ \E i \in Ids : Nameless(requests[i])

NInv == LastAnswer /\ AuthDecided /\ LateSignIn /\ LoadsAtHome /\ NamelessLeaves

\* Blocks that neither answer a request nor look for a name.
Quiet == {b \in Blocks : b.kind \notin {"answered", "load"}}
Unasked == {b \in Blocks : b.kind # "answered"}

\* n is m, or m without its first block, with more blocks of B.
After(m, n, B) == Grown(m, n, B) \/ (m # <<>> /\ Grown(Tail(m), n, B))

\* Answers stay last when others are queued, ...
LEMMA LastGrown ==
  ASSUME NEW m \in Seq(Blocks), NEW n, NEW u, Grown(m, n, Unasked), EndsWith(m, u)
  PROVE  EndsWith(n, u) /\ n \in Seq(Blocks)
<1>1. Unasked \in SUBSET Blocks /\ \A b \in Unasked : b.kind # "answered"
  BY DEF Unasked
<1>2. /\ n \in Seq(Blocks)
      /\ \A k \in DOMAIN m : k \in DOMAIN n /\ n[k] = m[k]
      /\ \A k \in DOMAIN n : k \in DOMAIN m \/ n[k] \in Unasked
  BY <1>1, GrownIs
<1>3. ASSUME NEW k \in DOMAIN n, n[k].kind = "answered"
      PROVE  \E j \in DOMAIN n : k <= j /\ n[j].kind = "answered" /\ n[j].user = u
  <2>1. k \in DOMAIN m /\ m[k].kind = "answered"
    BY <1>1, <1>2, <1>3
  <2>2. PICK j \in DOMAIN m : k <= j /\ m[j].kind = "answered" /\ m[j].user = u
    BY <2>1 DEF EndsWith
  <2> QED
    BY <1>2, <2>2
<1> QED
  BY <1>2, <1>3 DEF EndsWith

\* ... and when the first block has run.
LEMMA LastTail ==
  ASSUME NEW m \in Seq(Blocks), m # <<>>, NEW u, EndsWith(m, u)
  PROVE  EndsWith(Tail(m), u) /\ Tail(m) \in Seq(Blocks)
<1> DEFINE t == Tail(m)
<1>1. /\ t \in Seq(Blocks)
      /\ \A k \in DOMAIN t : k + 1 \in DOMAIN m /\ t[k] = m[k + 1] /\ k + 1 # 1
      /\ \A k \in DOMAIN m : k # 1 => k - 1 \in DOMAIN t /\ (k - 1) + 1 = k
      /\ DOMAIN m \subseteq Nat /\ DOMAIN t \subseteq Nat
  BY TailIs
<1> HIDE DEF t
<1>2. ASSUME NEW k \in DOMAIN t, t[k].kind = "answered"
      PROVE  \E j \in DOMAIN t : k <= j /\ t[j].kind = "answered" /\ t[j].user = u
  <2>1. k + 1 \in DOMAIN m /\ m[k + 1].kind = "answered"
    BY <1>1, <1>2
  <2>2. PICK j \in DOMAIN m : k + 1 <= j /\ m[j].kind = "answered" /\ m[j].user = u
    BY <2>1 DEF EndsWith
  <2>3. j # 1 /\ k <= j - 1
    BY <1>1, <2>2
  <2>4. j - 1 \in DOMAIN t /\ t[j - 1] = m[j]
    BY <1>1, <2>3
  <2> QED
    BY <2>2, <2>3, <2>4
<1> QED
  BY <1>1, <1>2 DEF EndsWith, t

\* Together.
LEMMA LastAfter ==
  ASSUME NEW m \in Seq(Blocks), NEW n, NEW u, After(m, n, Unasked), EndsWith(m, u)
  PROVE  EndsWith(n, u)
  BY LastGrown, LastTail DEF After

\* Loads that are queued stay, ...
LEMMA HasLoadGrown ==
  ASSUME NEW m \in Seq(Blocks), NEW n, NEW B \in SUBSET Blocks, Grown(m, n, B), HasLoad(m)
  PROVE  HasLoad(n)
<1>1. \A k \in DOMAIN m : k \in DOMAIN n /\ n[k] = m[k]
  BY GrownIs
<1> QED
  BY <1>1 DEF HasLoad

\* ... another block ahead of them does not take them along, ...
LEMMA HasLoadTail ==
  ASSUME NEW m \in Seq(Blocks), m # <<>>, Head(m).kind # "load", HasLoad(m)
  PROVE  HasLoad(Tail(m))
<1>1. PICK k \in DOMAIN m : m[k].kind = "load"
  BY DEF HasLoad
<1>3. k # 1
  BY <1>1, TailIs
<1>4. k - 1 \in DOMAIN Tail(m) /\ Tail(m)[k - 1] = m[(k - 1) + 1] /\ (k - 1) + 1 = k
  BY <1>3, TailIs
<1> QED
  BY <1>1, <1>4 DEF HasLoad

\* ... none come out of nothing ...
LEMMA NoLoadAfter ==
  ASSUME NEW m \in Seq(Blocks), NEW n, After(m, n, Quiet), HasLoad(n)
  PROVE  HasLoad(m)
<1>1. Quiet \in SUBSET Blocks /\ \A b \in Quiet : b.kind # "load"
  BY DEF Quiet
<1>3. ASSUME NEW l \in Seq(Blocks), Grown(l, n, Quiet) PROVE HasLoad(l)
  <2>1. \A k \in DOMAIN l : n[k] = l[k]
    BY <1>1, <1>3, GrownIs
  <2>2. \A k \in DOMAIN n : k \in DOMAIN l \/ n[k] \in Quiet
    BY <1>1, <1>3, GrownIs
  <2> QED
    BY <1>1, <2>1, <2>2 DEF HasLoad
<1>4. CASE Grown(m, n, Quiet)
  BY <1>3, <1>4
<1>5. CASE m # <<>> /\ Grown(Tail(m), n, Quiet)
  <2>1. Tail(m) \in Seq(Blocks)
    BY <1>5, TailIs
  <2>2. PICK k \in DOMAIN Tail(m) : Tail(m)[k].kind = "load"
    BY <1>3, <1>5, <2>1 DEF HasLoad
  <2>3. k + 1 \in DOMAIN m /\ m[k + 1].kind = "load"
    BY <1>5, <2>2, TailIs
  <2> QED
    BY <2>3 DEF HasLoad
<1> QED
  BY <1>4, <1>5 DEF After

\* ... and Home's appearance queues one, and no answer.
LEMMA AppearLoads ==
  ASSUME auth \in MaybeUser, NEW q \in Seq(Blocks), Appear(q)
  PROVE  HasLoad(main') /\ Grown(q, main', Unasked)
<1>1. List(auth) \in Unasked /\ Load \in Unasked /\ Unasked \in SUBSET Blocks
  <2>1. List(auth) \in Blocks /\ Load \in Blocks /\ List(auth).kind = "list" /\ Load.kind = "load"
    BY BlockTypes
  <2> QED
    BY <2>1 DEF Unasked
<1> DEFINE h == Hears(lists, auth, List(auth))
<1>2. h \in Seq(Unasked)
  BY <1>1, HearsIs
<1>3. main' = (q \o <<Load>>) \o h
  BY DEF Appear, Observed
<1> HIDE DEF h
<1>4. Load \in Blocks /\ Grown(q, q \o <<Load>>, Unasked)
  BY <1>1, GrownOne
<1>5. q \o <<Load>> \in Seq(Blocks) /\ HasLoad(q \o <<Load>>)
  BY <1>4, AppendIs DEF HasLoad, Load, Block
<1>6. Grown(q \o <<Load>>, main', Unasked)
  BY <1>2, <1>3 DEF Grown
<1>7. HasLoad(main')
  BY <1>1, <1>5, <1>6, HasLoadGrown
<1>8. Grown(q, main', Unasked)
  BY <1>1, <1>2, <1>3, <1>4, GrownMore
<1> QED
  BY <1>7, <1>8

\* Requests move on from rs to ss: none is undecided again, and none waits anew.
Moved(rs, ss) ==
  \A i \in Ids :
    /\ Decided(rs[i]) => Decided(ss[i]) /\ ss[i].user = rs[i].user
    /\ Waiting(ss[i]) => Waiting(rs[i])
    /\ Nameless(rs[i]) => Nameless(ss[i])

\* The screen does not go to where a load or a name matters.
Aside ==
  /\ screen' \in {"home", "add", "settings"} => screen \in {"home", "add", "settings"}
  /\ screen' \in {"add", "settings", "signingOut"} => screen' = screen

\* Auth's user stays the one of the last answer, and one that was decided.
LEMMA UserStays ==
  ASSUME Queued, NInv, UNCHANGED auth, After(main, main', Unasked), Moved(requests, requests')
  PROVE  LastAnswer' /\ AuthDecided'
<1>1. main \in Seq(Blocks)
  BY DEF Queued, Queue
<1>2. LastAnswer'
  BY <1>1, LastAfter DEF NInv, LastAnswer
<1>3. AuthDecided'
  BY DEF NInv, AuthDecided, Moved
<1> QED
  BY <1>2, <1>3

\* A step that neither answers a request nor looks for a name.
LEMMA QuietKeeps ==
  ASSUME Queued, NInv, UNCHANGED <<auth, name>>, Moved(requests, requests'), Aside,
         \/ Grown(main, main', Quiet)
         \/ /\ main # <<>> /\ screen # "signingOut" /\ Head(main).kind # "load"
            /\ Grown(Tail(main), main', Quiet)
  PROVE  NInv'
<1>1. main \in Seq(Blocks) /\ Quiet \in SUBSET Blocks /\ Quiet \subseteq Unasked
  BY DEF Queued, Queue, Quiet, Unasked
<1>2. After(main, main', Quiet)
  BY DEF After
<1>3. After(main, main', Unasked)
  BY <1>1, <1>2, GrownIn DEF After
<1>4. LastAnswer' /\ AuthDecided'
  BY <1>3, UserStays
<1>5. LateSignIn'
  <2>1. CASE screen' = "signingOut" /\ auth' # None
    <3>1. screen = "signingOut" /\ Grown(main, main', Quiet) /\ Answered(auth)
      BY <2>1 DEF Aside, NInv, LateSignIn
    <3>2. \A k \in DOMAIN main : k \in DOMAIN main' /\ main'[k] = main[k]
      BY <1>1, <3>1, GrownIs
    <3> QED
      BY <3>1, <3>2 DEF Answered, LateSignIn
  <2> QED
    BY <2>1 DEF LateSignIn
<1>6. LoadsAtHome'
  BY <1>1, <1>2, NoLoadAfter DEF LoadsAtHome, NInv, Aside
<1>7. NamelessLeaves'
  <2>1. CASE HasLoad(main)
    <3>1. CASE Grown(main, main', Quiet)
      BY <1>1, <2>1, <3>1, HasLoadGrown DEF NamelessLeaves
    <3>2. CASE main # <<>> /\ Head(main).kind # "load" /\ Grown(Tail(main), main', Quiet)
      <4>1. HasLoad(Tail(main)) /\ Tail(main) \in Seq(Blocks)
        BY <1>1, <2>1, <3>2, HasLoadTail, TailIs
      <4> QED
        BY <1>1, <3>2, <4>1, HasLoadGrown DEF NamelessLeaves
    <3> QED
      BY <3>1, <3>2
  <2>2. CASE \E i \in Ids : Nameless(requests[i])
    BY <2>2 DEF NamelessLeaves, Moved
  <2> QED
    BY <2>1, <2>2 DEF NInv, NamelessLeaves, Aside
<1> QED
  BY <1>4, <1>5, <1>6, <1>7 DEF NInv

\* Home appears, with a load queued.
LEMMA HomeKeeps ==
  ASSUME Queued, NInv, UNCHANGED auth, Moved(requests, requests'),
         After(main, main', Unasked), screen' = "home", HasLoad(main')
  PROVE  NInv'
<1>1. LastAnswer' /\ AuthDecided'
  BY UserStays
<1>2. LateSignIn' /\ LoadsAtHome' /\ NamelessLeaves'
  BY DEF LateSignIn, LoadsAtHome, NamelessLeaves
<1> QED
  BY <1>1, <1>2 DEF NInv

\* An app that is not running has no names to keep apart.
LEMMA DeadKeeps ==
  ASSUME main' = <<>>, screen' = "dead", \A i \in Ids : ~ Waiting(requests'[i])
  PROVE  NInv'
<1>1. LastAnswer' /\ AuthDecided'
  BY DEF LastAnswer, AuthDecided, EndsWith
<1>2. LateSignIn' /\ LoadsAtHome' /\ NamelessLeaves'
  BY DEF LateSignIn, LoadsAtHome, HasLoad, NamelessLeaves
<1> QED
  BY <1>1, <1>2 DEF NInv

\* Nobody is signed in any more.
LEMMA NobodyKeeps ==
  ASSUME Queued, NInv, auth' = None, UNCHANGED <<name, requests>>,
         Grown(main, main', Quiet),
         screen' = screen \/ (screen = "settings" /\ screen' = "signingOut")
  PROVE  NInv'
<1>1. main \in Seq(Blocks) /\ Quiet \in SUBSET Blocks
  BY DEF Queued, Queue, Quiet
<1>2. LastAnswer' /\ AuthDecided' /\ LateSignIn'
  BY DEF LastAnswer, AuthDecided, LateSignIn
<1>3. LoadsAtHome'
  <2>1. After(main, main', Quiet)
    BY DEF After
  <2> QED
    BY <1>1, <2>1, NoLoadAfter DEF LoadsAtHome, NInv
<1>4. NamelessLeaves'
  BY <1>1, HasLoadGrown DEF NamelessLeaves, NInv
<1> QED
  BY <1>2, <1>3, <1>4 DEF NInv

\* One request changes its stage, and no user.
LEMMA OneMoves ==
  ASSUME requests \in [Ids -> Requests], NEW i \in Ids, NEW s \in Stages \ {"free", "lost", "auth"},
         requests[i].stage # "late",
         Waiting(requests[i]) \/ s \notin {"answered", "document"}
  PROVE  LET ss == [requests EXCEPT ![i].stage = s]
         IN  Moved(requests, ss) /\ Moved(requests, OffStack(ss))
<1> DEFINE ss == [requests EXCEPT ![i].stage = s]
<1>1. /\ ss[i].stage = s /\ ss[i].user = requests[i].user
      /\ \A j \in Ids \ {i} : ss[j] = requests[j]
  BY DEF Requests, Stages
<1>2. \A j \in Ids : /\ OffStack(ss)[j].stage = ss[j].stage /\ OffStack(ss)[j].user = ss[j].user
                     /\ OffStack(ss)[j].kind = ss[j].kind /\ OffStack(ss)[j].display = ss[j].display
  <2>1. ss \in [Ids -> Requests]
    BY StageIs
  <2> HIDE DEF ss
  <2> QED
    BY <2>1 DEF OffStack, Requests
<1> HIDE DEF ss
<1>3. Moved(requests, ss)
  BY <1>1 DEF Moved, Decided, Waiting, Nameless
<1>4. Moved(requests, OffStack(ss))
  BY <1>2, <1>3 DEF Moved, Decided, Waiting, Nameless
<1> QED
  BY <1>3, <1>4 DEF ss

\* Nothing moves.
LEMMA NoneMoves == Moved(requests, requests)
  BY DEF Moved

-----------------------------------------------------------------------------
(* The steps keep it.                                                      *)

\* Notifications, lists and documents are quiet; and some blocks of requests.
LEMMA QuietBlocks ==
  ASSUME NEW u \in MaybeUser, NEW i \in Ids, NEW S
  PROVE  /\ {AuthChanged(u), List(u), UserDoc(u)} \subseteq Quiet
         /\ {Block("getDocument", u, i), Block("gotDocument", u, i)} \subseteq Quiet
         /\ Events(S) \subseteq Quiet /\ Quiet \in SUBSET Blocks
  BY DEF AuthChanged, List, UserDoc, Block, Quiet, Blocks, Events, MaybeUser

\* An app that was never launched.
LEMMA InitNames == Init => NInv
<1> SUFFICES ASSUME Init PROVE NInv
  OBVIOUS
<1>1. main = <<>> /\ screen = "dead" /\ auth = None
  BY DEF Init
<1> QED
  BY <1>1 DEF NInv, LastAnswer, AuthDecided, LateSignIn, LoadsAtHome, HasLoad, NamelessLeaves

\* Starting the app, ...
LEMMA LaunchNames == IInv /\ NInv /\ Launch => NInv'
<1> SUFFICES ASSUME Typed, Queued, Dead, NInv, Launch PROVE NInv'
  BY Parts
<1>1. /\ main = <<>> /\ UNCHANGED <<auth, requests>> /\ screen' = "home" /\ auth \in MaybeUser
      /\ main' = <<AuthChanged(auth), Load, Load>>
  BY DEF Launch, Dead, Typed
<1>2. <<AuthChanged(auth), Load, Load>> \in Seq(Unasked)
  <2>1. /\ AuthChanged(auth) \in Blocks /\ AuthChanged(auth).kind = "authChanged"
        /\ Load \in Blocks /\ Load.kind = "load"
    BY <1>1, BlockTypes
  <2>2. AuthChanged(auth) \in Unasked /\ Load \in Unasked
    BY <2>1 DEF Unasked
  <2> QED
    BY <2>2
<1>3. Grown(main, main', Unasked)
  <2>1. <<>> \o main' = main'
    BY <1>1
  <2> QED
    BY <1>1, <1>2, <2>1 DEF Grown
<1>4. HasLoad(main')
  <2>1. 2 \in DOMAIN main' /\ main'[2].kind = "load"
    BY <1>1 DEF Load, Block
  <2> QED
    BY <2>1 DEF HasLoad
<1> QED
  BY <1>1, <1>3, <1>4, HomeKeeps, NoneMoves DEF After

\* ... and its end.
LEMMA MemoryNames ==
  ASSUME Memory
  PROVE  NInv'
<1>1. main' = <<>> /\ screen' = "dead"
  BY DEF Memory
<1>2. \A i \in Ids : ~ Waiting(requests'[i])
  BY DEF Memory, NoRequest, LostRequest, Waiting
<1> QED
  BY <1>1, <1>2, DeadKeeps

\* Touches that open a controller.
LEMMA OpenNames == IInv /\ NInv /\ (Open \/ CancelAdd) => NInv'
<1> SUFFICES ASSUME Queued, NInv, Open \/ CancelAdd PROVE NInv'
  BY Parts
<1>1. UNCHANGED <<auth, name, main, requests>> /\ ~ HasLoad(main)
  BY DEF Open, CancelAdd, Go, Touchable, HasLoad
<1>2. /\ screen' # "signingOut"
      /\ screen' \in {"home", "add", "settings"} => screen \in {"home", "add", "settings"}
  BY DEF Open, CancelAdd, Go
<1>3. LastAnswer' /\ AuthDecided' /\ LateSignIn' /\ LoadsAtHome'
  BY <1>1, <1>2 DEF NInv, LastAnswer, AuthDecided, LateSignIn, LoadsAtHome
<1>4. NamelessLeaves'
  BY <1>1, <1>2 DEF NInv, NamelessLeaves
<1> QED
  BY <1>3, <1>4 DEF NInv

\* Leaving a form, ...
LEMMA BackNames == IInv /\ NInv /\ Back => NInv'
<1> SUFFICES ASSUME Queued, NInv, Back PROVE NInv'
  BY Parts
<1>1. UNCHANGED <<auth, name, main>> /\ requests' = OffStack(requests) /\ Aside
  BY DEF Back, Aside
<1>2. Moved(requests, requests')
  BY <1>1 DEF OffStack, Moved, Decided, Waiting, Nameless, Queued, Requests
<1>3. Grown(main, main', Quiet)
  BY <1>1, GrownSame DEF Queued, Queue
<1> QED
  BY <1>1, <1>2, <1>3, QuietKeeps

\* ... sending it, ...
LEMMA AskNames == ASSUME NEW i \in Ids, NEW u \in Users PROVE IInv /\ NInv /\ Ask(i, u) => NInv'
<1> SUFFICES ASSUME Queued, NInv, Ask(i, u) PROVE NInv'
  BY Parts
<1>1. /\ UNCHANGED <<auth, name, main, screen>> /\ Aside
      /\ requests[i].stage = "free"
  BY DEF Ask, Aside
<1>2. /\ requests'[i].stage = "auth"
      /\ \A j \in Ids \ {i} : requests'[j] = requests[j]
  BY DEF Ask, Queued
<1>3. Moved(requests, requests')
  BY <1>1, <1>2 DEF Moved, Decided, Waiting, Nameless
<1>4. Grown(main, main', Quiet)
  BY <1>1, GrownSame DEF Queued, Queue
<1> QED
  BY <1>1, <1>3, <1>4, QuietKeeps

\* ... and closing Settings.
LEMMA CloseSettingsNames == IInv /\ NInv /\ CloseSettings => NInv'
<1> SUFFICES ASSUME Typed, Queued, NInv, CloseSettings PROVE NInv'
  BY Parts
<1>1. UNCHANGED <<auth, requests>> /\ screen' = "home" /\ Appear(main)
  BY DEF CloseSettings
<1>2. HasLoad(main') /\ Grown(main, main', Unasked)
  BY <1>1, AppearLoads DEF Typed, Queued, Queue
<1> QED
  BY <1>1, <1>2, HomeKeeps, NoneMoves DEF After

\* Signing out, of Auth and of UserDefaults.
LEMMA SignOutNames == IInv /\ NInv /\ SignOut => NInv'
<1> SUFFICES ASSUME Queued, NInv, SignOut PROVE NInv'
  BY Parts
<1>1. /\ auth' = None /\ UNCHANGED <<name, requests>> /\ screen = "settings" /\ screen' = "signingOut"
      /\ main' = main \o (IF auth = None THEN <<>> ELSE <<AuthChanged(None)>>)
  BY DEF SignOut
<1>2. AuthChanged(None) \in Quiet /\ main \in Seq(Blocks)
  BY DEF AuthChanged, Block, Quiet, Blocks, MaybeUser, Queued, Queue
<1>3. (IF auth = None THEN <<>> ELSE <<AuthChanged(None)>>) \in Seq(Quiet)
  BY <1>2
<1>4. Grown(main, main', Quiet)
  BY <1>1, <1>3 DEF Grown
<1> QED
  BY <1>1, <1>4, NobodyKeeps

\* ...
LEMMA RemoveNameNames == IInv /\ NInv /\ RemoveName => NInv'
<1> SUFFICES ASSUME Typed, Queued, NInv, RemoveName PROVE NInv'
  BY Parts
<1>1. UNCHANGED <<auth, requests>> /\ screen' = "home" /\ Appear(main)
  BY DEF RemoveName
<1>2. HasLoad(main') /\ Grown(main, main', Unasked)
  BY <1>1, AppearLoads DEF Typed, Queued, Queue
<1> QED
  BY <1>1, <1>2, HomeKeeps, NoneMoves DEF After

\* Adding a spending.
LEMMA AddNames == IInv /\ NInv /\ Add => NInv'
<1> SUFFICES ASSUME Typed, Queued, NInv, Add PROVE NInv'
  BY Parts
<1>1. UNCHANGED <<auth, name, requests>> /\ Aside
      /\ main' = main \o Hears(lists, currentUser, List(currentUser))
  BY DEF Add, Aside
<1>2. List(currentUser) \in Quiet
  BY DEF List, Block, Quiet, Blocks, Typed
<1>3. Hears(lists, currentUser, List(currentUser)) \in Seq(Quiet)
  BY <1>2, HearsIs
<1>4. Grown(main, main', Quiet)
  BY <1>1, <1>3 DEF Grown
<1> QED
  BY <1>1, <1>4, QuietKeeps, NoneMoves

\* Auth accepts.
LEMMA AuthSucceedsNames == ASSUME NEW i \in Ids PROVE IInv /\ NInv /\ AuthSucceeds(i) => NInv'
<1> SUFFICES ASSUME Typed, Queued, NInv, AuthSucceeds(i) PROVE NInv'
  BY Parts
<1> DEFINE u == requests[i].user
           b == Block("answered", u, i)
           a == AuthChanged(u)
<1>1. /\ requests[i].stage = "auth" /\ auth' = u /\ UNCHANGED <<name, screen>>
      /\ main' = main \o <<a, b>>
  BY DEF AuthSucceeds, Posted
<1>2. /\ requests'[i].stage = "answered" /\ requests'[i].user = u
      /\ \A j \in Ids \ {i} : requests'[j] = requests[j]
  <2>1. requests \in [Ids -> Requests]
    BY DEF Queued
  <2>2. requests' = [requests EXCEPT ![i].stage = "answered", ![i].display = profile[u]]
    BY DEF AuthSucceeds
  <2> QED
    BY <2>1, <2>2 DEF Requests
<1>3. u \in Users /\ main \in Seq(Blocks)
  BY <1>1 DEF Queued, Queue, Matched
<1>4. /\ a \in Blocks /\ b \in Blocks /\ a.kind = "authChanged"
      /\ b.kind = "answered" /\ b.user = u
  BY <1>3 DEF AuthChanged, Block, Blocks, MaybeUser
<1> HIDE DEF a, b, u
<1>5. /\ Len(main) \in Nat
      /\ \A k \in DOMAIN main : k \in DOMAIN main' /\ main'[k] = main[k] /\ k <= Len(main)
      /\ Len(main) + 2 \in DOMAIN main' /\ main'[Len(main) + 2] = b
      /\ \A k \in DOMAIN main' :
           k <= Len(main) + 2 /\ (k \in DOMAIN main \/ main'[k] = a \/ main'[k] = b)
  <2>1. <<a, b>> \in Seq(Blocks) /\ DOMAIN <<a, b>> = 1..2 /\ <<a, b>>[1] = a /\ <<a, b>>[2] = b
    BY <1>4
  <2>2. /\ Len(main) \in Nat /\ Len(main') = Len(main) + 2 /\ main' \in Seq(Blocks)
        /\ \A k \in DOMAIN main : k \in DOMAIN main' /\ main'[k] = main[k] /\ k <= Len(main)
        /\ main'[Len(main) + 1] = a /\ main'[Len(main) + 2] = b
    BY <1>1, <1>3, <1>4
  <2>3. \A k \in DOMAIN main' : k \in DOMAIN main \/ k = Len(main) + 1 \/ k = Len(main) + 2
    BY <1>3, <2>2
  <2> QED
    BY <1>3, <2>2, <2>3
<1>6. LastAnswer'
  BY <1>1, <1>4, <1>5 DEF LastAnswer, EndsWith
<1>7. AuthDecided'
  BY <1>1, <1>2 DEF AuthDecided, Decided
<1>8. LateSignIn'
  BY <1>1, <1>4, <1>5 DEF LateSignIn, Answered
<1>9. LoadsAtHome'
  BY <1>1, <1>4, <1>5 DEF LoadsAtHome, HasLoad, NInv
<1>10. NamelessLeaves'
  <2>1. HasLoad(main) => HasLoad(main')
    BY <1>5 DEF HasLoad
  <2>2. \A j \in Ids : Nameless(requests[j]) => Nameless(requests'[j])
    BY <1>1, <1>2 DEF Nameless
  <2> QED
    BY <1>1, <2>1, <2>2 DEF NamelessLeaves, NInv
<1> QED
  BY <1>6, <1>7, <1>8, <1>9, <1>10 DEF NInv

\* Auth refuses.
LEMMA AuthFailsNames == ASSUME NEW i \in Ids PROVE IInv /\ NInv /\ AuthFails(i) => NInv'
<1> SUFFICES ASSUME Queued, NInv, AuthFails(i) PROVE NInv'
  BY Parts
<1>1. /\ UNCHANGED <<auth, name, main, screen>> /\ Aside /\ requests[i].stage = "auth"
      /\ requests' = [requests EXCEPT ![i].stage = "failed"]
  BY DEF AuthFails, Aside
<1>2. Moved(requests, requests')
  BY <1>1, OneMoves DEF Queued, Stages
<1>3. Grown(main, main', Quiet)
  BY <1>1, GrownSame DEF Queued, Queue
<1> QED
  BY <1>1, <1>2, <1>3, QuietKeeps

\* A token is revoked.
LEMMA RevokeNames == IInv /\ NInv /\ Revoke => NInv'
<1> SUFFICES ASSUME Queued, NInv, Revoke PROVE NInv'
  BY Parts
<1>1. auth' = None /\ UNCHANGED <<name, requests, screen>> /\ main' = Append(main, AuthChanged(None))
  BY DEF Revoke
<1>2. AuthChanged(None) \in Quiet /\ main \in Seq(Blocks) /\ Quiet \in SUBSET Blocks
  BY DEF AuthChanged, Block, Quiet, Blocks, MaybeUser, Queued, Queue
<1>3. Grown(main, main', Quiet)
  BY <1>1, <1>2, GrownOne
<1> QED
  BY <1>1, <1>3, NobodyKeeps

\* A display name is committed, or not; or nothing at all happens.
LEMMA StillNames ==
  ASSUME Queued, NInv, UNCHANGED <<auth, name, main, requests, screen>>
  PROVE  NInv'
<1>1. Grown(main, main', Quiet)
  BY GrownSame DEF Queued, Queue
<1> QED
  BY <1>1, QuietKeeps, NoneMoves DEF Aside

\* Auth's notification.
LEMMA AuthChangedNames == IInv /\ NInv /\ DeliverAuthChanged => NInv'
<1> SUFFICES ASSUME Typed, Queued, Finite, Dead, Owned, NInv, DeliverAuthChanged PROVE NInv'
  BY Parts
<1>1. Grown(Tail(main), main', Events(sessions)) /\ UNCHANGED <<requests, screen>>
  BY AuthChangedIs
<1>2. /\ main # <<>> /\ screen # "signingOut" /\ Head(main).kind # "load"
      /\ UNCHANGED <<auth, name>> /\ Aside
  BY <1>1 DEF DeliverAuthChanged, Due, Aside
<1>3. Events(sessions) \subseteq Quiet
  BY DEF Events, Quiet
<1>4. Grown(Tail(main), main', Quiet)
  BY <1>1, <1>3, GrownIn
<1> QED
  BY <1>1, <1>2, <1>4, QuietKeeps, NoneMoves

\* loadData.
LEMMA LoadNames == IInv /\ NInv /\ DeliverLoad => NInv'
<1> SUFFICES ASSUME Queued, NInv, DeliverLoad PROVE NInv'
  BY Parts
<1>1. /\ main # <<>> /\ screen # "signingOut" /\ Head(main).kind = "load"
      /\ UNCHANGED <<auth, name, requests>> /\ main' = Tail(main)
      /\ screen' = IF name = None /\ screen = "home" THEN "onboarding" ELSE screen
  BY DEF DeliverLoad, Due
<1>2. main \in Seq(Blocks) /\ Tail(main) \in Seq(Blocks) /\ Head(main) = main[1] /\ 1 \in DOMAIN main
  BY <1>1, TailIs DEF Queued, Queue
<1>3. Grown(Tail(main), main', Quiet) /\ Grown(Tail(main), main', Unasked)
  BY <1>1, <1>2, GrownSame
<1>4. LastAnswer' /\ AuthDecided'
  BY <1>1, <1>3, UserStays, NoneMoves DEF After
<1>5. LateSignIn'
  BY <1>1 DEF LateSignIn
<1>6. HasLoad(main') => HasLoad(main)
  BY <1>1, <1>2, <1>3, NoLoadAfter DEF After
<1>7. LoadsAtHome'
  BY <1>1, <1>6 DEF LoadsAtHome, NInv
<1>8. HasLoad(main)
  BY <1>1, <1>2 DEF HasLoad
<1>9. NamelessLeaves'
  BY <1>1, <1>8 DEF NamelessLeaves, LoadsAtHome, NInv
<1> QED
  BY <1>4, <1>5, <1>7, <1>9 DEF NInv

\* A sign-in's completion.
LEMMA SignedInNames == IInv /\ NInv /\ DeliverSignedIn => NInv'
<1> SUFFICES ASSUME Typed, Queued, Dead, NInv, DeliverSignedIn PROVE NInv'
  BY Parts
<1> DEFINE i == Head(main).id
<1>1. /\ main # <<>> /\ screen # "signingOut" /\ Head(main).kind = "answered"
      /\ requests[i].kind = "signIn" /\ name' = requests[i].display
      /\ Dismiss(i) /\ UNCHANGED auth
  BY DEF DeliverSignedIn, Due
<1>2. i \in Ids /\ requests[i].stage = "answered" /\ requests \in [Ids -> Requests]
  BY AnswerIs DEF DeliverSignedIn, Queued
<1>3. main \in Seq(Blocks) /\ Tail(main) \in Seq(Blocks)
  BY <1>1, TailIs DEF Queued, Queue
<1> HIDE DEF i
<1>4. CASE requests[i].onStack
  <2>1. /\ requests' = OffStack([requests EXCEPT ![i].stage = "done"])
        /\ screen' = "home" /\ Appear(Tail(main))
    BY <1>1, <1>4 DEF Dismiss
  <2>2. Moved(requests, requests')
    BY <1>2, <2>1, OneMoves DEF Stages
  <2>3. HasLoad(main') /\ Grown(Tail(main), main', Unasked)
    BY <1>3, <2>1, AppearLoads DEF Typed
  <2> QED
    BY <1>1, <2>1, <2>2, <2>3, HomeKeeps DEF After
<1>5. CASE ~ requests[i].onStack
  <2>1. /\ requests' = [requests EXCEPT ![i].stage = "late"]
        /\ main' = Tail(main) /\ UNCHANGED screen
    BY <1>1, <1>5 DEF Dismiss
  <2>2. Moved(requests, requests')
    BY <1>2, <2>1, OneMoves DEF Stages
  <2>3. Grown(Tail(main), main', Quiet) /\ Grown(Tail(main), main', Unasked)
    BY <1>3, <2>1, GrownSame
  <2>4. LastAnswer' /\ AuthDecided'
    BY <1>1, <2>2, <2>3, UserStays DEF After
  <2>5. LateSignIn'
    BY <1>1, <2>1 DEF LateSignIn
  <2>6. LoadsAtHome'
    BY <1>1, <1>3, <2>1, <2>3, NoLoadAfter DEF LoadsAtHome, NInv, After
  <2>7. NamelessLeaves'
    <3>1. CASE requests[i].display = None
      <4>1. Nameless(requests'[i])
        BY <1>1, <1>2, <2>1, <3>1 DEF Nameless, Requests
      <4> QED
        BY <1>2, <4>1 DEF NamelessLeaves
    <3>2. CASE requests[i].display # None
      BY <1>1, <3>2 DEF NamelessLeaves
    <3> QED
      BY <3>1, <3>2
  <2> QED
    BY <2>4, <2>5, <2>6, <2>7 DEF NInv
<1> QED
  BY <1>4, <1>5

\* A sign-up's completion.
LEMMA CreatedNames == IInv /\ NInv /\ DeliverCreated => NInv'
<1> SUFFICES ASSUME Queued, Dead, NInv, DeliverCreated PROVE NInv'
  BY Parts
<1> DEFINE i == Head(main).id
           u == Head(main).user
           b == Block("getDocument", u, i)
           heard == IF Listening(docs, u) THEN <<UserDoc(u)>> ELSE <<>>
<1>1. /\ main # <<>> /\ screen # "signingOut" /\ Head(main).kind = "answered"
      /\ UNCHANGED <<auth, name, requests, screen>> /\ Aside
      /\ main' = (Tail(main) \o <<b>>) \o heard
  BY DEF DeliverCreated, Due, Aside
<1>2. i \in Ids /\ u \in MaybeUser
  BY AnswerIs DEF DeliverCreated, MaybeUser
<1>3. b \in Quiet /\ UserDoc(u) \in Quiet /\ Quiet \in SUBSET Blocks
  BY <1>2, QuietBlocks
<1>4. Tail(main) \in Seq(Blocks)
  BY <1>1, TailIs DEF Queued, Queue
<1>5. heard \in Seq(Quiet)
  BY <1>3
<1> HIDE DEF b, heard
<1>6. Grown(Tail(main), Tail(main) \o <<b>>, Quiet)
  BY <1>3, <1>4, GrownOne
<1>7. Grown(Tail(main), main', Quiet)
  BY <1>1, <1>3, <1>4, <1>5, <1>6, GrownMore
<1> QED
  BY <1>1, <1>7, QuietKeeps, NoneMoves

\* getDocument is called, ...
LEMMA GetDocumentNames == IInv /\ NInv /\ DeliverGetDocument => NInv'
<1> SUFFICES ASSUME Queued, Dead, NInv, DeliverGetDocument PROVE NInv'
  BY Parts
<1> DEFINE i == Head(main).id
<1>1. /\ main # <<>> /\ screen # "signingOut" /\ Head(main).kind = "getDocument"
      /\ UNCHANGED <<auth, name, screen>> /\ Aside /\ main' = Tail(main)
      /\ requests' = [requests EXCEPT ![i].stage = "document"]
  BY DEF DeliverGetDocument, Due, Aside
<1>2. i \in Ids /\ requests[i].stage = "answered" /\ requests \in [Ids -> Requests]
  BY AnswerIs DEF DeliverGetDocument, Queued
<1> HIDE DEF i
<1>3. Moved(requests, requests')
  BY <1>1, <1>2, OneMoves DEF Stages, Waiting
<1>4. Grown(Tail(main), main', Quiet)
  BY <1>1, TailIs, GrownSame DEF Queued, Queue
<1> QED
  BY <1>1, <1>3, <1>4, QuietKeeps

\* ... answered by Firestore, ...
LEMMA DocumentNames == ASSUME NEW i \in Ids PROVE IInv /\ NInv /\ DocumentAnswers(i) => NInv'
<1> SUFFICES ASSUME Queued, NInv, DocumentAnswers(i) PROVE NInv'
  BY Parts
<1>1. /\ requests[i].stage = "document" /\ requests' = [requests EXCEPT ![i].stage = "answered"]
      /\ UNCHANGED <<auth, name, screen>> /\ Aside /\ requests \in [Ids -> Requests]
  BY DEF DocumentAnswers, Same, Aside, Queued
<1>2. PICK r \in {requests[i].user, None} : main' = Append(main, Block("gotDocument", r, i))
  BY DEF DocumentAnswers
<1>3. r \in MaybeUser /\ main \in Seq(Blocks)
  BY <1>1, <1>2 DEF Requests, MaybeUser, Queued, Queue
<1>4. Block("gotDocument", r, i) \in Quiet /\ Quiet \in SUBSET Blocks
  BY <1>3, QuietBlocks
<1>5. Grown(main, main', Quiet)
  BY <1>2, <1>3, <1>4, GrownOne
<1>6. Moved(requests, requests')
  BY <1>1, OneMoves DEF Stages, Waiting
<1> QED
  BY <1>1, <1>5, <1>6, QuietKeeps

\* ... and its completion.
LEMMA GotDocumentNames == IInv /\ NInv /\ DeliverGotDocument => NInv'
<1> SUFFICES ASSUME Typed, Queued, Dead, NInv, DeliverGotDocument PROVE NInv'
  BY Parts
<1> DEFINE i == Head(main).id
<1>1. /\ main # <<>> /\ screen # "signingOut" /\ Head(main).kind = "gotDocument" /\ UNCHANGED auth
      /\ \/ Head(main).user # None /\ name' = Head(main).user /\ Dismiss(i)
         \/ /\ requests' = [requests EXCEPT ![i].stage = "failed"]
            /\ main' = Tail(main) /\ UNCHANGED <<name, screen, lists>>
  BY DEF DeliverGotDocument, Due
<1>2. i \in Ids /\ requests[i].stage = "answered" /\ requests \in [Ids -> Requests]
  BY AnswerIs DEF DeliverGotDocument, Queued
<1>3. main \in Seq(Blocks) /\ Tail(main) \in Seq(Blocks)
  BY <1>1, TailIs DEF Queued, Queue
<1>4. \A s \in {"done", "late", "failed"} :
        /\ Moved(requests, [requests EXCEPT ![i].stage = s])
        /\ Moved(requests, OffStack([requests EXCEPT ![i].stage = s]))
  BY <1>2, OneMoves DEF Stages
<1> HIDE DEF i
<1>5. CASE name' # None /\ Dismiss(i) /\ requests[i].onStack
  <2>1. /\ requests' = OffStack([requests EXCEPT ![i].stage = "done"])
        /\ screen' = "home" /\ Appear(Tail(main))
    BY <1>5 DEF Dismiss
  <2>2. HasLoad(main') /\ Grown(Tail(main), main', Unasked)
    BY <1>3, <2>1, AppearLoads DEF Typed
  <2> QED
    BY <1>1, <1>4, <2>1, <2>2, HomeKeeps DEF After
<1>6. CASE name' # None /\ Dismiss(i) /\ ~ requests[i].onStack
  <2>1. /\ requests' = [requests EXCEPT ![i].stage = "late"]
        /\ main' = Tail(main) /\ UNCHANGED screen
    BY <1>6 DEF Dismiss
  <2>2. Grown(Tail(main), main', Quiet) /\ Grown(Tail(main), main', Unasked)
    BY <1>3, <2>1, GrownSame
  <2>3. LastAnswer' /\ AuthDecided'
    BY <1>1, <1>4, <2>1, <2>2, UserStays DEF After
  <2>4. LateSignIn'
    BY <1>1, <2>1 DEF LateSignIn
  <2>5. LoadsAtHome'
    BY <1>1, <1>3, <2>1, <2>2, NoLoadAfter DEF LoadsAtHome, NInv, After
  <2>6. NamelessLeaves'
    BY <1>6 DEF NamelessLeaves
  <2> QED
    BY <2>3, <2>4, <2>5, <2>6 DEF NInv
<1>7. CASE /\ requests' = [requests EXCEPT ![i].stage = "failed"]
           /\ main' = Tail(main) /\ UNCHANGED <<name, screen>>
  <2>1. Grown(Tail(main), main', Quiet)
    BY <1>3, <1>7, GrownSame
  <2> QED
    BY <1>1, <1>4, <1>7, <2>1, QuietKeeps DEF Aside
<1> QED
  BY <1>1, <1>5, <1>6, <1>7

\* A block that is shown leaves the queue.
LEMMA ShownNames == IInv /\ NInv /\ (DeliverUserDoc \/ DeliverList) => NInv'
<1> SUFFICES ASSUME Queued, NInv, DeliverUserDoc \/ DeliverList PROVE NInv'
  BY Parts
<1>1. /\ main # <<>> /\ screen # "signingOut" /\ Head(main).kind # "load" /\ main' = Tail(main)
      /\ UNCHANGED <<auth, name, requests, screen>> /\ Aside
  BY DEF DeliverUserDoc, DeliverList, Due, Aside
<1>2. Grown(Tail(main), main', Quiet)
  BY <1>1, TailIs, GrownSame DEF Queued, Queue
<1> QED
  BY <1>1, <1>2, QuietKeeps, NoneMoves

\* What Firestore raises is quiet.
LEMMA EventNames ==
  ASSUME NEW u \in Users
  PROVE  IInv /\ NInv /\ (Answers(u) \/ Denied(u) \/ RemoteChange(u) \/ WriteAnswered(u)) => NInv'
<1> SUFFICES ASSUME Queued, NInv, Answers(u) \/ Denied(u) \/ RemoteChange(u) \/ WriteAnswered(u)
             PROVE  NInv'
  BY Parts
<1> DEFINE h == Hears(lists, u, List(u))
<1>1. /\ UNCHANGED <<auth, name, requests, screen>> /\ Aside
      /\ \/ main' = main \/ main' = Append(main, List(u)) \/ main' = Append(main, UserDoc(u))
         \/ main' = main \o h
  BY DEF Answers, FirstList, FirstUserDoc, Denied, RemoteChange, WriteAnswered, Same, Aside
<1>2. /\ List(u) \in Quiet /\ UserDoc(u) \in Quiet /\ Quiet \in SUBSET Blocks /\ main \in Seq(Blocks)
  BY DEF List, UserDoc, Block, Quiet, Blocks, MaybeUser, Queued, Queue
<1>3. h \in Seq(Quiet)
  BY <1>2, HearsIs
<1> HIDE DEF h
<1>4. Grown(main, main', Quiet)
  <2>1. CASE main' = main
    BY <1>2, <2>1, GrownSame
  <2>2. CASE main' = Append(main, List(u)) \/ main' = Append(main, UserDoc(u))
    BY <1>2, <2>2, GrownOne
  <2>3. CASE main' = main \o h
    BY <1>3, <2>3 DEF Grown
  <2> QED
    BY <1>1, <2>1, <2>2, <2>3
<1> QED
  BY <1>1, <1>4, QuietKeeps, NoneMoves

\* Every step.
LEMMA StepNames == IInv /\ NInv /\ [Next]_vars => NInv'
<1> SUFFICES ASSUME IInv, NInv, [Next]_vars PROVE NInv'
  OBVIOUS
<1>1. CASE Launch \/ Revoke
  BY <1>1, LaunchNames, RevokeNames
<1>2. CASE Kill
  BY <1>2, MemoryNames DEF Kill
<1>3. CASE Tap
  BY <1>3, OpenNames, BackNames, CloseSettingsNames, SignOutNames, AddNames, AskNames DEF Tap
<1>4. CASE MainThread
  <2>1. TrapInCreated => NInv'
    BY MemoryNames DEF TrapInCreated
  <2> QED
    BY <1>4, <2>1, AuthChangedNames, LoadNames, SignedInNames, CreatedNames, GetDocumentNames,
       GotDocumentNames, ShownNames, RemoveNameNames DEF MainThread
<1>5. CASE AuthBackend
  BY <1>5, AuthSucceedsNames, AuthFailsNames DEF AuthBackend
<1>6. CASE Profiles \/ UNCHANGED vars
  <2>1. UNCHANGED <<auth, name, main, requests, screen>>
    BY <1>6 DEF Profiles, CommitProfile, vars
  <2> QED
    BY <2>1, StillNames, Parts
<1>7. CASE Firestore \/ \E u \in Users : Denied(u) \/ RemoteChange(u) \/ WriteAnswered(u)
  BY <1>7, EventNames, DocumentNames DEF Firestore
<1> QED
  BY <1>1, <1>2, <1>3, <1>4, <1>5, <1>6, <1>7 DEF Next

\* In every behaviour.
THEOREM NamesHold == Spec => []NInv
  BY InitInv, StepInv, InitNames, StepNames, PTL DEF Spec

-----------------------------------------------------------------------------
(* What follows.                                                           *)

\* An answer at the front of the queue, of nobody who is signed in, has one of
\* Auth's user behind it.
LEMMA AnswerBehind ==
  ASSUME Queued, NInv, main # <<>>, Head(main).kind = "answered", auth # None
  PROVE  /\ Answered(auth)
         /\ Head(main).user # auth =>
              \E k \in DOMAIN Tail(main) : Tail(main)[k].kind = "answered" /\ Tail(main)[k].user = auth
<1>1. main \in Seq(Blocks) /\ Head(main) = main[1] /\ 1 \in DOMAIN main
  BY TailIs DEF Queued, Queue
<1>2. PICK j \in DOMAIN main : main[j].kind = "answered" /\ main[j].user = auth
  BY <1>1 DEF NInv, LastAnswer, EndsWith
<1>3. Head(main).user # auth => j # 1
  BY <1>1, <1>2
<1>4. j # 1 => j - 1 \in DOMAIN Tail(main) /\ Tail(main)[j - 1] = main[(j - 1) + 1] /\ (j - 1) + 1 = j
  BY <1>1, TailIs
<1> QED
  BY <1>2, <1>3, <1>4 DEF Answered

\* The name is written and removed for Auth's user, or with that user's answer still
\* queued.
LEMMA NameStep ==
  ASSUME IInv, NInv, [Next]_vars, name' # name
  PROVE  \/ auth = None
         \/ Answered(auth)
         \/ Due("gotDocument") /\ (Head(main).user = auth \/ Overtaken(Head(main).id))
<1>1. Typed /\ Queued /\ Dead
  BY Parts
<1>2. DeliverSignedIn \/ DeliverGotDocument \/ RemoveName
  <2>1. ~ (Launch \/ Kill \/ Revoke \/ Profiles \/ UNCHANGED vars)
    BY DEF Launch, Kill, Revoke, Profiles, CommitProfile, vars
  <2>2. ~ Tap
    BY DEF Tap, Open, CancelAdd, Go, Back, CloseSettings, SignOut, Add, Ask
  <2>3. ~ (AuthBackend \/ Firestore)
    BY DEF AuthBackend, AuthSucceeds, AuthFails, Firestore, Answers, FirstList, FirstUserDoc,
           DocumentAnswers, Same
  <2>4. ~ \E u \in Users : Denied(u) \/ RemoteChange(u) \/ WriteAnswered(u)
    BY DEF Denied, RemoteChange, WriteAnswered, Same
  <2>5. ~ (DeliverAuthChanged \/ DeliverLoad \/ DeliverCreated \/ TrapInCreated
             \/ DeliverGetDocument \/ DeliverUserDoc \/ DeliverList)
    BY DEF DeliverAuthChanged, DeliverLoad, DeliverCreated, TrapInCreated, DeliverGetDocument,
           DeliverUserDoc, DeliverList
  <2> QED
    BY <2>1, <2>2, <2>3, <2>4, <2>5 DEF Next, MainThread
<1>3. CASE DeliverSignedIn
  BY <1>1, <1>3, AnswerBehind DEF DeliverSignedIn, Due
<1>4. CASE RemoveName
  BY <1>4 DEF RemoveName, NInv, LateSignIn
<1>5. CASE DeliverGotDocument /\ auth # None /\ Head(main).user # auth
  <2> DEFINE i == Head(main).id
  <2>1. /\ i \in Ids /\ requests[i].stage = "answered" /\ Due("gotDocument")
        /\ Head(main).user = requests[i].user \/ Head(main).user = None
    BY <1>1, <1>5, AnswerIs DEF DeliverGotDocument
  <2>2. Due("gotDocument") /\ requests[i].user = Head(main).user
    BY <1>5, <2>1 DEF DeliverGotDocument
  <2>3. PICK j \in Ids : Decided(requests[j]) /\ requests[j].user = auth
    <3>1. \E k \in Ids : Waiting(requests[k])
      BY <2>1 DEF Waiting
    <3> HIDE DEF i
    <3> QED
      BY <1>5, <3>1 DEF NInv, AuthDecided
  <2>4. j # i
    BY <1>5, <2>2, <2>3
  <2> QED
    BY <2>2, <2>3, <2>4 DEF Overtaken, Decided
<1>6. CASE DeliverGotDocument /\ ~ (auth # None /\ Head(main).user # auth)
  BY <1>6 DEF DeliverGotDocument
<1> QED
  BY <1>2, <1>3, <1>4, <1>5, <1>6

\* The name Home tests is written and removed for the user Auth has, or with that user's
\* answer still queued - for every number of overlapping sign-ins, sign-ups,
\* revocations and kills, the one between the two halves of signOut included.  The
\* exception is the document of a sign-up that another request has overtaken.
THEOREM NameFollows == Spec => NameFollowsAuth
<1> DEFINE Follows == name' # name =>
                        \/ auth = None
                        \/ Answered(auth)
                        \/ Due("gotDocument") /\ (Head(main).user = auth \/ Overtaken(Head(main).id))
<1>1. IInv /\ NInv /\ [Next]_vars => [Follows]_vars
  BY NameStep
<1> HIDE DEF Follows
<1>2. Spec => [][Follows]_vars
  BY <1>1, InvHolds, NamesHold, PTL DEF Spec
<1> QED
  BY <1>2 DEF NameFollowsAuth, Follows

\* Home does not stay open for somebody without a name, whatever the user presses
\* and whenever the answers come: the one exception is an account without a display name,
\* signed in by an answer that found its form gone.
THEOREM HomeIsLeft == Spec => []SignedOutLeavesHome
<1>1. NInv => SignedOutLeavesHome
  BY DEF NInv, NamelessLeaves, HasLoad, Nameless, SignedOutLeavesHome
<1> QED
  BY <1>1, NamesHold, PTL

\* A name is sent for another account than the one just created only when the sign-in of
\* that account has overtaken the sign-up, and has its answer queued behind.
THEOREM NamesStayOwn == Spec => NamesAreOwn
<1> DEFINE Given == \A c \in commits' \ commits : c.of = c.as \/ Answered(c.of)'
<1>1. ASSUME IInv, NInv, [Next]_vars, NEW c \in commits' \ commits, c.of # c.as
      PROVE  Answered(c.of)'
  <2>1. Queued
    BY <1>1, Parts
  <2>2. DeliverCreated
    <3>1. ~ (Launch \/ Kill \/ Revoke \/ Profiles \/ UNCHANGED vars)
      BY <1>1 DEF Launch, Kill, Revoke, Profiles, CommitProfile, vars, server
    <3>2. ~ Tap
      BY <1>1 DEF Tap, Open, CancelAdd, Go, Back, CloseSettings, SignOut, Add, Ask, server
    <3>3. ~ (AuthBackend \/ Firestore)
      BY <1>1 DEF AuthBackend, AuthSucceeds, AuthFails, Firestore, Answers, FirstList,
                  FirstUserDoc, DocumentAnswers, Same, server
    <3>4. ~ \E u \in Users : Denied(u) \/ RemoteChange(u) \/ WriteAnswered(u)
      BY <1>1 DEF Denied, RemoteChange, WriteAnswered, Same, server
    <3>5. ~ (DeliverAuthChanged \/ DeliverLoad \/ DeliverSignedIn \/ TrapInCreated \/ RemoveName
               \/ DeliverGetDocument \/ DeliverGotDocument \/ DeliverUserDoc \/ DeliverList)
      BY <1>1 DEF DeliverAuthChanged, DeliverLoad, DeliverSignedIn, TrapInCreated, RemoveName,
             DeliverGetDocument, DeliverGotDocument, DeliverUserDoc, DeliverList, server
    <3> QED
      BY <1>1, <3>1, <3>2, <3>3, <3>4, <3>5 DEF Next, MainThread
  <2> DEFINE b == Block("getDocument", Head(main).user, Head(main).id)
             heard == IF Listening(docs, Head(main).user) THEN <<UserDoc(Head(main).user)>> ELSE <<>>
  <2>3. /\ main # <<>> /\ Head(main).kind = "answered" /\ auth # None
        /\ c.of = auth /\ c.as = Head(main).user
        /\ main' = (Tail(main) \o <<b>>) \o heard
    BY <1>1, <2>2 DEF DeliverCreated, Due, Unwraps
  <2>4. PICK k \in DOMAIN Tail(main) : Tail(main)[k].kind = "answered" /\ Tail(main)[k].user = auth
    BY <1>1, <2>1, <2>3, AnswerBehind
  <2>5. Tail(main) \in Seq(Blocks) /\ Head(main) \in Blocks
    BY <2>1, <2>3, TailIs DEF Queued, Queue
  <2>6. heard \in Seq({UserDoc(Head(main).user)})
    <3> DEFINE e == UserDoc(Head(main).user)
    <3>1. <<>> \in Seq({e}) /\ <<e>> \in Seq({e})
      OBVIOUS
    <3> QED
      BY <3>1
  <2> HIDE DEF b, heard
  <2>7. k \in DOMAIN main' /\ main'[k] = Tail(main)[k]
    BY <2>3, <2>5, <2>6
  <2> QED
    BY <2>3, <2>4, <2>7 DEF Answered
<1>2. IInv /\ NInv /\ [Next]_vars => [Given]_vars
  BY <1>1
<1> HIDE DEF Given
<1>3. Spec => [][Given]_vars
  BY <1>2, InvHolds, NamesHold, PTL DEF Spec
<1> QED
  BY <1>3 DEF NamesAreOwn, Given
=============================================================================
