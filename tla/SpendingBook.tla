---------------------------- MODULE SpendingBook ----------------------------
(***************************************************************************)
(* What the app promises of one user's spendings, with no device, queue or *)
(* stream in sight: the life of each expense the user adds.  `doubt` holds *)
(* the expenses whose add was committed and not answered yet: writes are   *)
(* delivered at least once, so such an add may be sent again.              *)
(***************************************************************************)
CONSTANT Expenses

VARIABLES life, doubt

book == <<life, doubt>>

Stages == {"new", "accepted", "booked", "removed", "refused", "lost"}

Init == life = [e \in Expenses |-> "new"] /\ doubt = {}

Move(e, from, to) == life[e] = from /\ life' = [life EXCEPT ![e] = to]

\* "success" is reported to the user.
Accept(e) == Move(e, "new", "accepted") /\ UNCHANGED doubt

\* The backend decides, once, about an accepted expense.
Book(e)   == Move(e, "accepted", "booked") /\ doubt' = doubt \cup {e}
Refuse(e) == Move(e, "accepted", "refused") /\ UNCHANGED doubt

\* The user deletes it.
Remove(e) == Move(e, "booked", "removed") /\ UNCHANGED doubt

\* An add in doubt is sent again, or its answer arrives.
BookAgain(e) == e \in doubt /\ Move(e, "removed", "booked") /\ UNCHANGED doubt
Answer(e)    == e \in doubt /\ doubt' = doubt \ {e} /\ UNCHANGED life

\* The app is killed before the adds in S are persisted.
Lose(S) ==
  /\ \A e \in S : life[e] = "accepted"
  /\ life' = [e \in Expenses |-> IF e \in S THEN "lost" ELSE life[e]]
  /\ UNCHANGED doubt

Next ==
  \/ \E e \in Expenses : \/ Accept(e) \/ Book(e) \/ Refuse(e)
                         \/ Remove(e) \/ BookAgain(e) \/ Answer(e)
  \/ \E S \in SUBSET Expenses : Lose(S)

\* Every accepted expense is decided.
Decide(e) == Book(e) \/ Refuse(e) \/ \E S \in SUBSET Expenses : e \in S /\ Lose(S)

Transitions == Init /\ [][Next]_book
Spec == Transitions /\ \A e \in Expenses : WF_book(Decide(e))
=============================================================================
