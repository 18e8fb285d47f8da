-------------------------- MODULE SpendingScreens ---------------------------
(***************************************************************************)
(* The form of AddSpending and the table of Home on one device, with the   *)
(* order of the rows, the positions a swipe names and machine integers:    *)
(* what ExpenseSync abstracts into sets and unbounded sums.                *)
(*                                                                         *)
(* Firestore is reduced to what ExpenseSync shows of it: `documents`, the  *)
(* local view of the query ordered by createdAt, newest first, and a       *)
(* snapshot on the main queue for each of its changes.  One listener       *)
(* stands for several: they deliver the same lists in the same order.      *)
(* UIKit is external: reloadData closes an open swipe and reads the rows   *)
(* anew before the next touch.                                             *)
(***************************************************************************)
EXTENDS Integers, Sequences, SequencesExt

CONSTANTS MaxInt,        \* the largest Int; Int.min is -MaxInt - 1
          Numerals,      \* the numerals that get typed, longer than an Int too
          Wordy,         \* whether a text that is no numeral can be pasted
          MaxExpenses,   \* bound: expenses added, on any device
          MaxRemotes,    \* bound: of them, plus deletions, on other devices
          MaxKills       \* bound: times iOS kills the app

ASSUME SpendingScreensAssumption ==
  /\ MaxInt \in Nat /\ Numerals \subseteq Int /\ Wordy \in BOOLEAN
  /\ {MaxExpenses, MaxRemotes, MaxKills} \subseteq Nat

Ints     == (-MaxInt - 1) .. MaxInt
Empty    == [is |-> "empty", value |-> 0]
Word     == [is |-> "word", value |-> 0]
Texts    == {Empty} \cup [is : {"numeral"}, value : Numerals]
              \cup (IF Wordy THEN {Word} ELSE {})
Forms    == [open : {TRUE}, name : BOOLEAN, ammount : Texts]
NoForm   == [open |-> FALSE, name |-> FALSE, ammount |-> Empty]
Expenses == [id : 1..MaxExpenses, ammount : Ints]
Swipes   == [row : Nat, id : 0..MaxExpenses]
NoSwipe  == [row |-> 0, id |-> 0]

VARIABLES
  process,       \* "dead", "launched" or "home" (Home is loaded)
  death,         \* what ended the last process
  user,          \* UserRepository.currentUser is there
  listening,     \* the listener has had its first event
  documents,     \* the local view of the query
  main,          \* blocks queued on the main thread
  expenses, totalExpenses,   \* ExpenseRepository
  dataSource,    \* the table has been given its data source
  rows,          \* what the table has read
  noSpending,    \* the label for an empty table is visible
  form,          \* AddSpending
  swiped,        \* the row whose Delete button is out, and the expense on it
  meant, erased, \* expenses that were on a deleted row / that were deleted
  handed, adds, remotes, kills   \* ids handed out, and the bounds used up

memory == <<expenses, totalExpenses, dataSource, rows, noSpending, swiped>>
vars   == <<process, death, user, listening, documents, main, memory, form, meant,
            erased, handed, adds, remotes, kills>>

Setup       == [kind |-> "setup", docs |-> <<>>]
Snapshot(s) == [kind |-> "snapshot", docs |-> s]

-----------------------------------------------------------------------------
(* Machine integers.                                                       *)

\* Int(text): nil for the empty text, for a word and for what does not fit.
Parses_Wide(t) == t.is = "numeral"
Parses(t) == t.is = "numeral" /\ t.value \in Ints

PartialSum(s, n) == FoldLeft(LAMBDA x, e : x + e.ammount, 0, SubSeq(s, 1, n))

\* reduce traps at the first partial sum that is no Int.
Fits_Wrapping(s) == TRUE
Fits(s) == \A n \in 1..Len(s) : PartialSum(s, n) \in Ints

\* ...and would wrap around if it did not.
Wrap(n) == ((n + MaxInt + 1) % (2 * (MaxInt + 1))) - MaxInt - 1
Reduce(s) == Wrap(PartialSum(s, Len(s)))

-----------------------------------------------------------------------------
(* The process.                                                            *)

Init ==
  /\ process = "dead" /\ death = "none" /\ user = FALSE /\ listening = FALSE
  /\ documents = <<>> /\ main = <<>>
  /\ expenses = <<>> /\ totalExpenses = 0
  /\ dataSource = FALSE /\ rows = <<>> /\ noSpending = TRUE
  /\ form = NoForm /\ swiped = NoSwipe
  /\ meant = {} /\ erased = {}
  /\ handed = 0 /\ adds = 0 /\ remotes = 0 /\ kills = 0

\* Nothing of the process outlives it but the documents.
Die(cause) ==
  /\ process' = "dead" /\ death' = cause /\ user' = FALSE /\ listening' = FALSE
  /\ main' = <<>>
  /\ expenses' = <<>> /\ totalExpenses' = 0
  /\ dataSource' = FALSE /\ rows' = <<>> /\ noSpending' = TRUE
  /\ form' = NoForm /\ swiped' = NoSwipe

Launch ==
  /\ process = "dead"
  /\ process' = "launched"
  /\ UNCHANGED <<death, user, listening, documents, main, memory, form, meant, erased,
                 handed, adds, remotes, kills>>

Kill ==
  /\ process # "dead" /\ kills < MaxKills
  /\ Die("killed")
  /\ kills' = kills + 1
  /\ UNCHANGED <<documents, meant, erased, handed, adds, remotes>>

\* viewDidLoad registers for the reloads at once; the data source comes later.
HomeLoads ==
  /\ process = "launched"
  /\ process' = "home"
  /\ main' = Append(main, Setup)
  /\ UNCHANGED <<death, user, listening, documents, memory, form, meant, erased, handed,
                 adds, remotes, kills>>

\* The document of the signed-in user arrives; currentUser is never reset.
UserArrives ==
  /\ process # "dead" /\ ~user
  /\ user' = TRUE
  /\ UNCHANGED <<process, death, listening, documents, main, memory, form, meant, erased,
                 handed, adds, remotes, kills>>

\* The listener's first event, and an event for every change after it.
FirstSnapshot ==
  /\ process # "dead" /\ ~listening
  /\ listening' = TRUE
  /\ main' = Append(main, Snapshot(documents))
  /\ UNCHANGED <<process, death, user, documents, memory, form, meant, erased, handed,
                 adds, remotes, kills>>

Change(s) ==
  /\ documents' = s
  /\ main' = IF listening /\ s # documents THEN Append(main, Snapshot(s)) ELSE main

-----------------------------------------------------------------------------
(* The table.                                                              *)

\* reloadData: numberOfRowsInSection and cellForRowAt read the repository.
Reload_None(s) == UNCHANGED <<rows, noSpending, swiped>>
Reload_Early(s) ==   \* posted by willSet
  /\ rows' = expenses /\ noSpending' = (expenses = <<>>) /\ swiped' = NoSwipe
Reload_Swiped(s) ==  \* the open swipe stays
  /\ rows' = s /\ noSpending' = (s = <<>>) /\ UNCHANGED swiped
Reload(s) ==
  /\ rows' = s /\ noSpending' = (s = <<>>) /\ swiped' = NoSwipe

DeliverSetup ==
  /\ main # <<>> /\ Head(main).kind = "setup"
  /\ main' = Tail(main)
  /\ dataSource' = TRUE
  /\ Reload(expenses)
  /\ UNCHANGED <<process, death, user, listening, documents, expenses, totalExpenses,
                 form, meant, erased, handed, adds, remotes, kills>>

\* The listener's block: the list, its didSet, then the sum.
DeliverSnapshot ==
  /\ main # <<>> /\ Head(main).kind = "snapshot" /\ Fits(Head(main).docs)
  /\ main' = Tail(main)
  /\ expenses' = Head(main).docs
  /\ totalExpenses' = Reduce(Head(main).docs)
  /\ IF dataSource
       THEN Reload(Head(main).docs)
       ELSE UNCHANGED <<rows, noSpending, swiped>>
  /\ UNCHANGED <<process, death, user, listening, documents, dataSource, form, meant,
                 erased, handed, adds, remotes, kills>>

TrapOnSum ==
  /\ main # <<>> /\ Head(main).kind = "snapshot" /\ ~Fits(Head(main).docs)
  /\ Die("sum")
  /\ UNCHANGED <<documents, meant, erased, handed, adds, remotes, kills>>

Swipe(i) ==
  /\ ~form.open
  /\ swiped' = [row |-> i, id |-> rows[i].id]
  /\ UNCHANGED <<process, death, user, listening, documents, main, expenses,
                 totalExpenses, dataSource, rows, noSpending, form, meant, erased,
                 handed, adds, remotes, kills>>

\* commit editingStyle: the row's number is looked up in the list of now, and
\* traps when the list has no such row.
CommitDelete ==
  /\ swiped # NoSwipe
  /\ meant' = meant \cup {swiped.id}
  /\ IF swiped.row \in DOMAIN expenses
       THEN LET id == expenses[swiped.row].id
            IN /\ Change(RemoveFirstMatch(documents, LAMBDA e : e.id = id))
               /\ erased' = erased \cup {id}
               /\ swiped' = NoSwipe
               /\ UNCHANGED <<process, death, user, listening, expenses, totalExpenses,
                              dataSource, rows, noSpending, form>>
       ELSE Die("index") /\ UNCHANGED <<documents, erased>>
  /\ UNCHANGED <<handed, adds, remotes, kills>>

-----------------------------------------------------------------------------
(* The form.                                                               *)

OpenForm ==
  /\ process = "home" /\ ~form.open
  /\ form' = [open |-> TRUE, name |-> FALSE, ammount |-> Empty]
  /\ swiped' = NoSwipe
  /\ UNCHANGED <<process, death, user, listening, documents, main, expenses,
                 totalExpenses, dataSource, rows, noSpending, meant, erased, handed,
                 adds, remotes, kills>>

Type(name, text) ==
  /\ form.open
  /\ form' = [open |-> TRUE, name |-> name, ammount |-> text]
  /\ UNCHANGED <<process, death, user, listening, documents, main, memory, meant, erased,
                 handed, adds, remotes, kills>>

DismissForm ==
  /\ form.open
  /\ form' = NoForm
  /\ UNCHANGED <<process, death, user, listening, documents, main, memory, meant, erased,
                 handed, adds, remotes, kills>>

\* What addButtonPressed tests before it reads the ammount: a field that is filled in,
\* and a user.  Otherwise it shows a dialog.
FilledIn == form.name \/ form.ammount # Empty
MayAdd   == form.open /\ FilledIn /\ user

\* The new expense is the newest by this device's clock, but the documents of other
\* devices may be dated later.
AddButtonPressed(i) ==
  /\ MayAdd /\ Parses(form.ammount)
  /\ handed < MaxExpenses
  /\ handed' = handed + 1 /\ adds' = adds + 1
  /\ Change(InsertAt(documents, i, [id |-> handed + 1, ammount |-> form.ammount.value]))
  /\ form' = NoForm
  /\ UNCHANGED <<process, death, user, listening, memory, meant, erased, remotes, kills>>

\* Int(...)! in addButtonPressed.
TrapOnText ==
  /\ MayAdd /\ ~Parses(form.ammount)
  /\ Die("text")
  /\ UNCHANGED <<documents, meant, erased, handed, adds, remotes, kills>>

-----------------------------------------------------------------------------
(* Other devices, through the listener.                                    *)

\* Their clocks differ: an expense may arrive anywhere in the order.
RemoteAdd(i, ammount) ==
  /\ listening /\ remotes < MaxRemotes /\ handed < MaxExpenses
  /\ remotes' = remotes + 1 /\ handed' = handed + 1
  /\ Change(InsertAt(documents, i, [id |-> handed + 1, ammount |-> ammount]))
  /\ UNCHANGED <<process, death, user, listening, memory, form, meant, erased, adds, kills>>

RemoteDelete(i) ==
  /\ listening /\ remotes < MaxRemotes
  /\ remotes' = remotes + 1
  /\ Change(RemoveAt(documents, i))
  /\ UNCHANGED <<process, death, user, listening, memory, form, meant, erased, handed, adds,
                 kills>>

-----------------------------------------------------------------------------
MainThread == Launch \/ HomeLoads \/ DeliverSetup \/ DeliverSnapshot \/ TrapOnSum

Next ==
  \/ MainThread \/ UserArrives \/ FirstSnapshot \/ Kill
  \/ OpenForm \/ DismissForm \/ TrapOnText
  \/ \E i \in 1..(Len(documents) + 1) : AddButtonPressed(i)
  \/ \E name \in BOOLEAN, text \in Texts : Type(name, text)
  \/ \E i \in DOMAIN rows : Swipe(i)
  \/ CommitDelete
  \/ \E i \in 1..(Len(documents) + 1), n \in Numerals \cap Ints : RemoteAdd(i, n)
  \/ \E i \in DOMAIN documents : RemoteDelete(i)

Spec     == Init /\ [][Next]_vars
FairSpec == Spec /\ WF_vars(MainThread) /\ WF_vars(FirstSnapshot)

-----------------------------------------------------------------------------
(* What is required of it.                                                 *)

Total(s)   == PartialSum(s, Len(s))
TooMuch(s) == Total(s) > MaxInt

TypeOK ==
  /\ process \in {"dead", "launched", "home"}
  /\ death \in {"none", "killed", "sum", "text", "index"}
  /\ {user, listening, dataSource, noSpending} \subseteq BOOLEAN
  /\ documents \in Seq(Expenses) /\ expenses \in Seq(Expenses) /\ rows \in Seq(Expenses)
  /\ main \in Seq({Setup} \cup [kind : {"snapshot"}, docs : Seq(Expenses)])
  /\ totalExpenses \in Ints
  /\ form \in Forms \cup {NoForm} /\ swiped \in Swipes
  /\ {meant, erased} \subseteq SUBSET (1..MaxExpenses)
  /\ handed \in 0..MaxExpenses /\ adds \in Nat /\ remotes \in Nat /\ kills \in Nat

\* A deletion reaches the expense on the row that was swiped and never asks the
\* list for a row it has not got, although the row's number is looked up only
\* at the commit and snapshots reorder the list meanwhile.
DeletesWhatWasSwiped == erased = meant /\ death # "index"

\* From the moment it has a data source the table shows the list, in its order,
\* and says that there are no spendings just when there are none.
TableShowsList == dataSource => rows = expenses /\ (noSpending <=> rows = <<>>)

\* The total is the sum of the list: it is never one that wrapped around.
TotalIsExact == totalExpenses = Total(expenses)

\* An overflow is not over with the process that met it: every launch ends at
\* the first snapshot until another device has deleted enough.
TooMuchEndsEveryLaunch ==
  (process = "launched" /\ TooMuch(documents)) ~>
    (process = "dead" \/ ~TooMuch(documents))

\* AddSpending adds a spending only when both of its fields are filled in: so
\* says its dialog.
AddsOnlyBoth == [][adds' # adds => form.name /\ form.ammount # Empty]_vars
=============================================================================
