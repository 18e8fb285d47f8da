------------------------------- MODULE Outbox -------------------------------
(***************************************************************************)
(* What Firestore promises of the writes of several users of one device,   *)
(* with no stream, token or process in sight: each user has an outbox,     *)
(* whose batches the backend takes in order and in the name of that user.  *)
(***************************************************************************)
EXTENDS Naturals, Sequences

CONSTANTS Users,   \* everybody who may be signed in, nobody included
          Ids      \* names of batches

VARIABLES outbox,     \* the batches of each user that have no verdict yet
          accepted,   \* all batches ever put into an outbox
          published,  \* what the backend took, and in whose name
          refused     \* what the backend refused

box == <<outbox, accepted, published, refused>>

Batch == [user : Users, id : Ids]

Taken(b) == \E k \in DOMAIN published : published[k].batch = b

Init ==
  /\ outbox = [u \in Users |-> <<>>]
  /\ accepted = {} /\ published = <<>> /\ refused = {}

Accept(b) ==
  /\ b \notin accepted
  /\ accepted' = accepted \cup {b}
  /\ outbox' = [outbox EXCEPT ![b.user] = Append(@, b)]
  /\ UNCHANGED <<published, refused>>

\* Nothing is taken before what the same user wrote earlier.  A batch may be
\* taken again, even after its verdict: delivery is at least once.
InTurn(b) ==
  \A i, j \in DOMAIN outbox[b.user] :
    i < j /\ outbox[b.user][j] = b => Taken(outbox[b.user][i])

Publish(b) ==
  /\ b \in accepted /\ InTurn(b)
  /\ published' = Append(published, [as |-> b.user, batch |-> b])
  /\ UNCHANGED <<outbox, accepted, refused>>

Refuse(b) ==
  /\ b \in accepted
  /\ refused' = refused \cup {b}
  /\ UNCHANGED <<outbox, accepted, published>>

\* The verdict arrives: it is about the oldest batch of the outbox.
Settle(u) ==
  /\ outbox[u] # <<>>
  /\ Taken(Head(outbox[u])) \/ Head(outbox[u]) \in refused
  /\ outbox' = [outbox EXCEPT ![u] = Tail(@)]
  /\ UNCHANGED <<accepted, published, refused>>

\* The device forgets all outboxes at once.
Forget ==
  /\ outbox' = [u \in Users |-> <<>>]
  /\ UNCHANGED <<accepted, published, refused>>

Next ==
  \/ \E b \in Batch : Accept(b) \/ Publish(b) \/ Refuse(b)
  \/ \E u \in Users : Settle(u)
  \/ Forget

Spec == Init /\ [][Next]_box
=============================================================================
