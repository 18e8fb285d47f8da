-------------------------- MODULE ExpenseSyncBook --------------------------
(***************************************************************************)
(* ExpenseSync implements SpendingBook: however the devices' queues and    *)
(* streams interleave, break and restart, each expense lives the life the  *)
(* book gives it.                                                          *)
(***************************************************************************)
EXTENDS ExpenseSync

InLog(m) == \E i \in DOMAIN log : log[i] = m

Life(e) ==
  CASE e \notin accepted     -> "new"
    [] e \in Stored          -> "booked"
    [] InLog(Set(e)) /\ e \notin Stored -> "removed"
    [] Set(e) \in rejected   -> "refused"
    [] e \in lost            -> "lost"
    [] OTHER                 -> "accepted"

Doubt == {e \in Expenses : InLog(Set(e)) /\
            \E d \in Devices : \E i \in DOMAIN pending[d] : pending[d][i] = Set(e)}

Book == INSTANCE SpendingBook WITH life <- [e \in Expenses |-> Life(e)], doubt <- Doubt

\* No step of a device or of the backend moves an expense outside the book's
\* transitions: nothing is booked that was not accepted, or after it was
\* refused or lost, and a removed expense comes back only while its add is
\* still unanswered.
BookTransitions == Book!Transitions

\* Moreover every accepted expense is decided in the end.
ImplementsBook == Book!Spec
=============================================================================
