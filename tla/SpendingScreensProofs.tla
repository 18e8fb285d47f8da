----------------------- MODULE SpendingScreensProofs ------------------------
(***************************************************************************)
(* The table of Home is in step with the list, and a deletion reaches the  *)
(* expense that was swiped, for every width of Int and all bounds.         *)
(***************************************************************************)
EXTENDS SpendingScreens, TLAPS, WellFoundedInduction

\* An open swipe names a row of the list, and the expense that is on it.
SwipeIsCurrent ==
  swiped # NoSwipe =>
    /\ dataSource
    /\ swiped.row \in DOMAIN expenses
    /\ swiped.id = expenses[swiped.row].id

\* There is nothing to swipe before the table has a data source.
NothingToSwipe == ~dataSource => rows = <<>>

TableInv == /\ TableShowsList
            /\ DeletesWhatWasSwiped
            /\ SwipeIsCurrent
            /\ NothingToSwipe

\* The end of a process empties the table and closes the swipe, whatever else
\* of its cause: enough for the invariant when the cause is not an index.
LEMMA DieKeepsTable ==
  ASSUME TableInv, NEW cause, cause # "index", Die(cause), UNCHANGED <<meant, erased>>
  PROVE  TableInv'
  BY DEF TableInv, TableShowsList, DeletesWhatWasSwiped, SwipeIsCurrent,
         NothingToSwipe, Die

\* A step that leaves the table, the list and the deletions alone keeps the invariant.
LEMMA TableUnchanged ==
  ASSUME TableInv,
         UNCHANGED <<death, expenses, dataSource, rows, noSpending, meant, erased>>,
         swiped' \in {swiped, NoSwipe}
  PROVE  TableInv'
  BY DEF TableInv, TableShowsList, DeletesWhatWasSwiped, SwipeIsCurrent, NothingToSwipe

\* The invariant holds before the first launch.
LEMMA InitTable == Init => TableInv
  BY DEF Init, TableInv, TableShowsList, DeletesWhatWasSwiped, SwipeIsCurrent,
         NothingToSwipe

\* Every step keeps the invariant.
LEMMA NextTable == TableInv /\ [Next]_vars => TableInv'
<1> SUFFICES ASSUME TableInv, [Next]_vars PROVE TableInv'
  OBVIOUS
<1>1. CASE Launch
  BY <1>1, TableUnchanged DEF Launch, memory
<1>2. CASE HomeLoads
  BY <1>2, TableUnchanged DEF HomeLoads, memory
<1>3. CASE DeliverSetup
  <2>1. /\ rows' = expenses /\ expenses' = expenses /\ dataSource' = TRUE
        /\ noSpending' = (expenses = <<>>) /\ swiped' = NoSwipe
        /\ UNCHANGED <<death, meant, erased>>
    BY <1>3 DEF DeliverSetup, Reload
  <2> QED
    BY <2>1 DEF TableInv, TableShowsList, DeletesWhatWasSwiped, SwipeIsCurrent,
                NothingToSwipe
<1>4. CASE DeliverSnapshot
  <2>1. UNCHANGED <<death, dataSource, meant, erased>> /\ expenses' = Head(main).docs
    BY <1>4 DEF DeliverSnapshot
  <2>2. CASE dataSource
    <3>1. /\ rows' = expenses' /\ noSpending' = (rows' = <<>>) /\ swiped' = NoSwipe
      BY <1>4, <2>1, <2>2 DEF DeliverSnapshot, Reload
    <3> QED
      BY <2>1, <2>2, <3>1 DEF TableInv, TableShowsList, DeletesWhatWasSwiped,
                              SwipeIsCurrent, NothingToSwipe
  <2>3. CASE ~dataSource
    <3>1. UNCHANGED <<rows, noSpending, swiped>>
      BY <1>4, <2>3 DEF DeliverSnapshot
    <3> QED
      BY <2>1, <2>3, <3>1 DEF TableInv, TableShowsList, DeletesWhatWasSwiped,
                              SwipeIsCurrent, NothingToSwipe
  <2> QED
    BY <2>2, <2>3
<1>5. CASE TrapOnSum
  BY <1>5, DieKeepsTable DEF TrapOnSum
<1>6. CASE UserArrives \/ FirstSnapshot
  BY <1>6, TableUnchanged DEF UserArrives, FirstSnapshot, memory
<1>7. CASE Kill
  BY <1>7, DieKeepsTable DEF Kill
<1>8. CASE OpenForm
  BY <1>8, TableUnchanged DEF OpenForm
<1>9. CASE DismissForm
  BY <1>9, TableUnchanged DEF DismissForm, memory
<1>10. ASSUME NEW i \in 1..(Len(documents) + 1), AddButtonPressed(i) PROVE TableInv'
  BY <1>10, TableUnchanged DEF AddButtonPressed, memory
<1>11. CASE TrapOnText
  BY <1>11, DieKeepsTable DEF TrapOnText
<1>12. ASSUME NEW name \in BOOLEAN, NEW text \in Texts, Type(name, text)
       PROVE  TableInv'
  BY <1>12, TableUnchanged DEF Type, memory
<1>13. ASSUME NEW i \in DOMAIN rows, Swipe(i) PROVE TableInv'
  <2>1. dataSource /\ rows = expenses
    BY DEF TableInv, NothingToSwipe, TableShowsList
  <2>2. /\ swiped' = [row |-> i, id |-> rows[i].id]
        /\ UNCHANGED <<death, expenses, dataSource, rows, noSpending, meant, erased>>
    BY <1>13 DEF Swipe
  <2> QED
    BY <2>1, <2>2 DEF TableInv, TableShowsList, DeletesWhatWasSwiped, SwipeIsCurrent,
                      NothingToSwipe
<1>14. CASE CommitDelete
  \* The row is in range, so the list is asked for the expense that was swiped.
  <2>1. swiped.row \in DOMAIN expenses /\ swiped.id = expenses[swiped.row].id
    BY <1>14 DEF CommitDelete, TableInv, SwipeIsCurrent
  <2>2. /\ erased' = erased \cup {swiped.id} /\ meant' = meant \cup {swiped.id}
        /\ swiped' = NoSwipe
        /\ UNCHANGED <<death, expenses, dataSource, rows, noSpending>>
    BY <1>14, <2>1 DEF CommitDelete
  <2> QED
    BY <2>2 DEF TableInv, TableShowsList, DeletesWhatWasSwiped, SwipeIsCurrent,
                NothingToSwipe
<1>15. ASSUME NEW i \in 1..(Len(documents) + 1), NEW n \in Numerals \cap Ints,
              RemoteAdd(i, n)
       PROVE  TableInv'
  BY <1>15, TableUnchanged DEF RemoteAdd, memory
<1>16. ASSUME NEW i \in DOMAIN documents, RemoteDelete(i) PROVE TableInv'
  BY <1>16, TableUnchanged DEF RemoteDelete, memory
<1>17. CASE UNCHANGED vars
  BY <1>17, TableUnchanged DEF vars, memory
<1> QED
  BY <1>1, <1>2, <1>3, <1>4, <1>5, <1>6, <1>7, <1>8, <1>9, <1>10, <1>11, <1>12,
     <1>13, <1>14, <1>15, <1>16, <1>17 DEF Next, MainThread

\* Home's table shows the repository's list in its order, placeholder included,
\* from the moment it has a data source.
THEOREM TableInStep == Spec => []TableShowsList
<1>1. TableInv => TableShowsList
  BY DEF TableInv
<1> QED
  BY <1>1, InitTable, NextTable, PTL DEF Spec

\* The deletion of a row deletes the expense that was on it when it was swiped,
\* and never indexes past the end of the list.
THEOREM DeletionsHit == Spec => []DeletesWhatWasSwiped
<1>1. TableInv => DeletesWhatWasSwiped
  BY DEF TableInv
<1> QED
  BY <1>1, InitTable, NextTable, PTL DEF Spec

-----------------------------------------------------------------------------
(* Machine integers and lists.                                             *)

\* The sum of no expenses.
LEMMA EmptySum == PartialSum(<<>>, 0) = 0
<1> DEFINE s == SubSeq(<<>>, 1, 0)
<1>1. DOMAIN s = {}
  OBVIOUS
<1> QED
  BY <1>1 DEF PartialSum, FoldLeft, MapThenFoldSet

\* What fits does not wrap around, and the greatest and the least Int do fit.
LEMMA WrapIs ==
  ASSUME NEW n \in Ints
  PROVE  Wrap(n) = n
  BY SpendingScreensAssumption DEF Wrap, Ints

\* A sum that reduce does not trap on is the sum.
LEMMA SumIsExact ==
  ASSUME NEW s \in Seq(Expenses), Fits(s)
  PROVE  Reduce(s) = Total(s) /\ Reduce(s) \in Ints
<1>1. PartialSum(s, Len(s)) \in Ints
  <2>1. CASE Len(s) = 0
    <3>1. s = <<>> /\ 0 \in Ints
      BY <2>1, SpendingScreensAssumption DEF Ints
    <3> QED
      BY <2>1, <3>1, EmptySum
  <2>2. CASE Len(s) # 0
    <3>1. Len(s) \in 1..Len(s)
      BY <2>2
    <3> QED
      BY <3>1 DEF Fits
  <2> QED
    BY <2>1, <2>2
<1> QED
  BY <1>1, WrapIs DEF Reduce, Total

\* A list with an element more, ...
LEMMA InsertIs ==
  ASSUME NEW S, NEW s \in Seq(S), NEW i \in 1..(Len(s) + 1), NEW e \in S
  PROVE  InsertAt(s, i, e) \in Seq(S)
<1>1. SubSeq(s, 1, i - 1) \in Seq(S) /\ SubSeq(s, i, Len(s)) \in Seq(S)
  OBVIOUS
<1> QED
  BY <1>1 DEF InsertAt

\* ... or less.
LEMMA RemoveIs ==
  ASSUME NEW S, NEW s \in Seq(S), NEW i \in DOMAIN s
  PROVE  RemoveAt(s, i) \in Seq(S)
<1>1. SubSeq(s, 1, i - 1) \in Seq(S) /\ SubSeq(s, i + 1, Len(s)) \in Seq(S)
  OBVIOUS
<1> QED
  BY <1>1 DEF RemoveAt

\* A set of naturals has a least element.
LEMMA MinIs ==
  ASSUME NEW I \in SUBSET Nat, I # {}
  PROVE  Min(I) \in I
<1> DEFINE R == {p \in Nat \X Nat : p[1] < p[2]}
<1>1. IsWellFoundedOn(R, Nat)
  <2>1. R = OpToRel(<, Nat)
    BY DEF OpToRel
  <2> QED
    BY <2>1, NatLessThanWellFounded
<1>3. \A x, y \in Nat : <<y, x>> \notin R => x <= y
  OBVIOUS
<1> HIDE DEF R
<1>4. PICK x \in I : \A y \in I : <<y, x>> \notin R
  BY <1>1, WFMin
<1>2. \E z \in I : \A y \in I : z <= y
  <2>1. \A y \in I : x <= y
    BY <1>3, <1>4
  <2> QED
    BY <2>1
<1> QED
  BY <1>2 DEF Min

\* A list without the expense of an id.
Without(s, id) == RemoveFirstMatch(s, LAMBDA e : e.id = id)

\* It is a list of expenses still.
LEMMA WithoutIs ==
  ASSUME NEW s \in Seq(Expenses), NEW id
  PROVE  Without(s, id) \in Seq(Expenses)
<1> DEFINE I == {i \in 1..Len(s) : s[i].id = id}
<1>1. CASE I # {}
  <2>1. I \in SUBSET Nat /\ I \subseteq DOMAIN s
    OBVIOUS
  <2>2. Min(I) \in DOMAIN s
    BY <1>1, <2>1, MinIs
  <2>3. Without(s, id) = RemoveAt(s, Min(I))
    BY <1>1 DEF Without, RemoveFirstMatch, SelectInSeq
  <2> QED
    BY <2>2, <2>3, RemoveIs
<1>2. CASE I = {}
  <2>1. Without(s, id) = s
    BY <1>2 DEF Without, RemoveFirstMatch
  <2> QED
    BY <2>1
<1> QED
  BY <1>1, <1>2

-----------------------------------------------------------------------------
(* Types, and the total.                                                   *)

MainBlocks == {Setup} \cup [kind : {"snapshot"}, docs : Seq(Expenses)]

\* The types of all but the lists, and the lists.
ScreenTyped ==
  /\ process \in {"dead", "launched", "home"}
  /\ death \in {"none", "killed", "sum", "text", "index"}
  /\ user \in BOOLEAN /\ listening \in BOOLEAN /\ dataSource \in BOOLEAN /\ noSpending \in BOOLEAN
  /\ form \in Forms \cup {NoForm} /\ swiped \in Swipes
  /\ meant \subseteq 1..MaxExpenses /\ erased \subseteq 1..MaxExpenses
  /\ handed \in 0..MaxExpenses /\ adds \in Nat /\ remotes \in Nat /\ kills \in Nat

ListsTyped ==
  /\ documents \in Seq(Expenses) /\ expenses \in Seq(Expenses) /\ rows \in Seq(Expenses)
  /\ main \in Seq(MainBlocks)

TotalInv == ScreenTyped /\ ListsTyped /\ TotalIsExact /\ totalExpenses \in Ints

\* The parts are the type invariant.
LEMMA TotalTypes == TotalInv => TypeOK
  BY DEF TotalInv, ScreenTyped, ListsTyped, TypeOK, MainBlocks

\* Nothing is typed, listed or summed before the first launch.
LEMMA NothingYet ==
  /\ NoForm \in Forms \cup {NoForm} /\ NoSwipe \in Swipes /\ 0 \in Ints /\ Total(<<>>) = 0
  /\ [open |-> TRUE, name |-> FALSE, ammount |-> Empty] \in Forms
<1>1. Empty \in Texts /\ 0 \in Ints
  BY SpendingScreensAssumption DEF Texts, Ints
<1>2. Total(<<>>) = 0
  BY EmptySum DEF Total
<1>3. NoSwipe \in Swipes
  BY SpendingScreensAssumption DEF NoSwipe, Swipes
<1> QED
  BY <1>1, <1>2, <1>3 DEF Forms

\* ... so the invariant holds.
LEMMA InitTotal == Init => TotalInv
<1> SUFFICES ASSUME Init PROVE TotalInv
  OBVIOUS
<1>1. ScreenTyped
  <2>1. user \in BOOLEAN /\ listening \in BOOLEAN /\ dataSource \in BOOLEAN /\ noSpending \in BOOLEAN
    BY Zenon DEF Init
  <2>2. /\ process \in {"dead", "launched", "home"}
        /\ death \in {"none", "killed", "sum", "text", "index"}
        /\ form \in Forms \cup {NoForm} /\ swiped \in Swipes
        /\ meant \subseteq 1..MaxExpenses /\ erased \subseteq 1..MaxExpenses
    BY NothingYet DEF Init
  <2>3. handed \in 0..MaxExpenses /\ adds \in Nat /\ remotes \in Nat /\ kills \in Nat
    BY SpendingScreensAssumption DEF Init
  <2> QED
    BY <2>1, <2>2, <2>3 DEF ScreenTyped
<1>2. ListsTyped /\ TotalIsExact /\ totalExpenses \in Ints
  BY NothingYet DEF Init, ListsTyped, TotalIsExact
<1> QED
  BY <1>1, <1>2 DEF TotalInv

\* The end of a process.
LEMMA DieKeepsTotal ==
  ASSUME TotalInv, NEW cause \in {"killed", "sum", "text", "index"}, Die(cause),
         documents' \in Seq(Expenses), meant' \subseteq 1..MaxExpenses, erased' \subseteq 1..MaxExpenses,
         kills' \in Nat, UNCHANGED <<handed, adds, remotes>>
  PROVE  TotalInv'
<1>1. ScreenTyped'
  BY NothingYet DEF Die, TotalInv, ScreenTyped
<1>2. ListsTyped' /\ TotalIsExact' /\ totalExpenses' \in Ints
  BY NothingYet DEF Die, ListsTyped, TotalIsExact
<1> QED
  BY <1>1, <1>2 DEF TotalInv

\* A new list, and the snapshot of it.
LEMMA ChangeKeeps ==
  ASSUME ListsTyped, NEW s \in Seq(Expenses), Change(s), UNCHANGED <<expenses, rows>>
  PROVE  ListsTyped'
<1>1. Snapshot(s) \in MainBlocks
  BY DEF Snapshot, MainBlocks
<1> QED
  BY <1>1 DEF Change, ListsTyped

\* Blocks of the main thread.
LEMMA BlockKeepsTotal ==
  ASSUME TotalInv, DeliverSetup \/ DeliverSnapshot
  PROVE  TotalInv'
<1>1. main \in Seq(MainBlocks) /\ main # <<>>
  BY DEF TotalInv, ListsTyped, DeliverSetup, DeliverSnapshot
<1>2. Tail(main) \in Seq(MainBlocks) /\ Head(main) \in MainBlocks
  BY <1>1
<1>3. CASE DeliverSetup
  <2>1. /\ main' = Tail(main) /\ dataSource' = TRUE /\ rows' = expenses
        /\ noSpending' \in BOOLEAN /\ swiped' = NoSwipe
    BY <1>3 DEF DeliverSetup, Reload
  <2>2. ScreenTyped'
    BY <1>3, <2>1, NothingYet DEF DeliverSetup, TotalInv, ScreenTyped
  <2>3. ListsTyped' /\ TotalIsExact' /\ totalExpenses' \in Ints
    BY <1>2, <1>3, <2>1 DEF DeliverSetup, TotalInv, ListsTyped, TotalIsExact
  <2> QED
    BY <2>2, <2>3 DEF TotalInv
<1>4. CASE DeliverSnapshot
  <2> DEFINE s == Head(main).docs
  <2>1. s \in Seq(Expenses) /\ Fits(s)
    BY <1>2, <1>4 DEF DeliverSnapshot, MainBlocks, Setup
  <2>2. /\ main' = Tail(main) /\ expenses' = s /\ totalExpenses' = Reduce(s)
        /\ UNCHANGED <<process, death, user, listening, documents, dataSource, form, meant,
                       erased, handed, adds, remotes, kills>>
    BY <1>4 DEF DeliverSnapshot
  <2>3. /\ rows' \in {rows, s}
        /\ noSpending' = noSpending \/ noSpending' \in BOOLEAN
        /\ swiped' \in {swiped, NoSwipe}
    BY <1>4 DEF DeliverSnapshot, Reload
  <2> HIDE DEF s
  <2>4. ScreenTyped'
    BY <2>2, <2>3, NothingYet DEF TotalInv, ScreenTyped
  <2>5. ListsTyped'
    BY <1>2, <2>1, <2>2, <2>3 DEF TotalInv, ListsTyped
  <2>6. TotalIsExact' /\ totalExpenses' \in Ints
    BY <2>1, <2>2, SumIsExact DEF TotalIsExact
  <2> QED
    BY <2>4, <2>5, <2>6 DEF TotalInv
<1> QED
  BY <1>3, <1>4

\* A deletion: the expense is one of the list's.
LEMMA CommitKeepsTotal ==
  ASSUME TotalInv, TableInv, CommitDelete
  PROVE  TotalInv'
<1>1. /\ swiped.row \in DOMAIN expenses /\ swiped.id = expenses[swiped.row].id
      /\ expenses \in Seq(Expenses)
  BY DEF CommitDelete, TableInv, SwipeIsCurrent, TotalInv, ListsTyped
<1>2. swiped.id \in 1..MaxExpenses
  <2>1. expenses[swiped.row] \in Expenses
    BY <1>1
  <2> QED
    BY <1>1, <2>1 DEF Expenses
<1> DEFINE id == expenses[swiped.row].id
           s == Without(documents, id)
<1>3. /\ meant' = meant \cup {swiped.id} /\ erased' = erased \cup {id} /\ swiped' = NoSwipe
      /\ Change(s)
      /\ UNCHANGED <<process, death, user, listening, expenses, totalExpenses, dataSource, rows,
                     noSpending, form, handed, adds, remotes, kills>>
  BY <1>1 DEF CommitDelete, Without
<1>4. s \in Seq(Expenses)
  BY WithoutIs DEF TotalInv, ListsTyped
<1> HIDE DEF s
<1>5. ListsTyped'
  BY <1>3, <1>4, ChangeKeeps DEF TotalInv
<1>6. ScreenTyped'
  BY <1>1, <1>2, <1>3, NothingYet DEF TotalInv, ScreenTyped
<1>7. TotalIsExact' /\ totalExpenses' \in Ints
  BY <1>3 DEF TotalInv, TotalIsExact
<1> QED
  BY <1>5, <1>6, <1>7 DEF TotalInv

\* A spending is added, here or elsewhere, or goes elsewhere.
LEMMA ListKeepsTotal ==
  ASSUME TotalInv, NEW s \in Seq(Expenses), Change(s),
         UNCHANGED <<process, death, user, listening, memory, meant, erased, kills>>,
         handed' \in 0..MaxExpenses, adds' \in Nat, remotes' \in Nat,
         form' \in Forms \cup {NoForm}
  PROVE  TotalInv'
<1>1. ListsTyped'
  BY ChangeKeeps DEF TotalInv, memory
<1>2. ScreenTyped'
  BY DEF TotalInv, ScreenTyped, memory
<1>3. TotalIsExact' /\ totalExpenses' \in Ints
  BY DEF TotalInv, TotalIsExact, memory
<1> QED
  BY <1>1, <1>2, <1>3 DEF TotalInv

\* A step that leaves the lists alone, but for a snapshot or the setup that is queued.
LEMMA ScreenKeepsTotal ==
  ASSUME TotalInv, ScreenTyped', UNCHANGED <<documents, expenses, totalExpenses, rows>>,
         main' = main \/ \E b \in MainBlocks : main' = Append(main, b)
  PROVE  TotalInv'
<1>1. main' \in Seq(MainBlocks)
  <2>1. main \in Seq(MainBlocks)
    BY DEF TotalInv, ListsTyped
  <2>2. \A b \in MainBlocks : Append(main, b) \in Seq(MainBlocks)
    BY <2>1
  <2> QED
    BY <2>1, <2>2
<1>2. ListsTyped' /\ TotalIsExact' /\ totalExpenses' \in Ints
  BY <1>1 DEF TotalInv, ListsTyped, TotalIsExact
<1> QED
  BY <1>2 DEF TotalInv

\* A row is swiped.
LEMMA SwipeKeepsTotal ==
  ASSUME TotalInv, NEW i \in DOMAIN rows, Swipe(i)
  PROVE  TotalInv'
<1>1. rows \in Seq(Expenses) /\ i \in Nat /\ rows[i].id \in 0..MaxExpenses
  <2>1. rows \in Seq(Expenses)
    BY DEF TotalInv, ListsTyped
  <2>2. rows[i] \in Expenses /\ i \in Nat
    BY <2>1
  <2>3. rows[i].id \in 1..MaxExpenses
    BY <2>2 DEF Expenses
  <2> QED
    BY <2>1, <2>2, <2>3, SpendingScreensAssumption
<1>2. swiped' \in Swipes
  BY <1>1 DEF Swipe, Swipes
<1>3. ScreenTyped'
  BY <1>2 DEF Swipe, TotalInv, ScreenTyped
<1> QED
  BY <1>3, ScreenKeepsTotal DEF Swipe

\* Every step keeps types and total.
LEMMA NextTotal == TableInv /\ TotalInv /\ [Next]_vars => TotalInv'
<1> SUFFICES ASSUME TableInv, TotalInv, [Next]_vars PROVE TotalInv'
  OBVIOUS
<1> USE DEF TotalInv
<1>1. CASE Launch
  <2>1. ScreenTyped'
    BY <1>1 DEF Launch, memory, ScreenTyped
  <2> QED
    BY <1>1, <2>1, ScreenKeepsTotal DEF Launch, memory
<1>2. CASE HomeLoads
  <2>1. ScreenTyped'
    BY <1>2 DEF HomeLoads, memory, ScreenTyped
  <2> QED
    BY <1>2, <2>1, ScreenKeepsTotal DEF HomeLoads, memory, MainBlocks
<1>3. CASE DeliverSetup \/ DeliverSnapshot
  BY <1>3, BlockKeepsTotal
<1>4. CASE TrapOnSum
  BY <1>4, DieKeepsTotal DEF TrapOnSum, ScreenTyped, ListsTyped
<1>5. CASE UserArrives
  <2>1. ScreenTyped'
    BY <1>5 DEF UserArrives, memory, ScreenTyped
  <2> QED
    BY <1>5, <2>1, ScreenKeepsTotal DEF UserArrives, memory
<1>17. CASE FirstSnapshot
  <2>1. ScreenTyped'
    BY <1>17 DEF FirstSnapshot, memory, ScreenTyped
  <2>2. Snapshot(documents) \in MainBlocks
    BY DEF ListsTyped, Snapshot, MainBlocks
  <2> QED
    BY <1>17, <2>1, <2>2, ScreenKeepsTotal DEF FirstSnapshot, memory
<1>6. CASE Kill
  <2>1. kills' \in Nat
    BY <1>6 DEF Kill, ScreenTyped
  <2> QED
    BY <1>6, <2>1, DieKeepsTotal DEF Kill, ScreenTyped, ListsTyped
<1>7. CASE OpenForm
  <2>1. ScreenTyped'
    BY <1>7, NothingYet DEF OpenForm, ScreenTyped
  <2> QED
    BY <1>7, <2>1, ScreenKeepsTotal DEF OpenForm
<1>8. CASE DismissForm
  <2>1. ScreenTyped'
    BY <1>8 DEF DismissForm, memory, ScreenTyped
  <2> QED
    BY <1>8, <2>1, ScreenKeepsTotal DEF DismissForm, memory
<1>9. ASSUME NEW i \in 1..(Len(documents) + 1), AddButtonPressed(i) PROVE TotalInv'
  <2> DEFINE e == [id |-> handed + 1, ammount |-> form.ammount.value]
  <2>1. handed + 1 \in 1..MaxExpenses /\ adds + 1 \in Nat
    BY <1>9, SpendingScreensAssumption DEF AddButtonPressed, ScreenTyped
  <2>2. form.ammount.value \in Ints
    BY <1>9 DEF AddButtonPressed, MayAdd, Parses
  <2>3. e \in Expenses
    BY <2>1, <2>2 DEF Expenses
  <2>4. Change(InsertAt(documents, i, e))
    BY <1>9 DEF AddButtonPressed
  <2> HIDE DEF e
  <2>5. InsertAt(documents, i, e) \in Seq(Expenses)
    BY <2>3, InsertIs DEF ListsTyped
  <2>6. /\ UNCHANGED <<process, death, user, listening, memory, meant, erased, kills, remotes>>
        /\ handed' = handed + 1 /\ adds' = adds + 1 /\ form' = NoForm
    BY <1>9 DEF AddButtonPressed
  <2>7. handed' \in 0..MaxExpenses /\ adds' \in Nat /\ remotes' \in Nat
    BY <2>1, <2>6 DEF ScreenTyped
  <2> QED
    BY <2>4, <2>5, <2>6, <2>7, ListKeepsTotal
<1>10. CASE TrapOnText
  BY <1>10, DieKeepsTotal DEF TrapOnText, ScreenTyped, ListsTyped
<1>11. ASSUME NEW name \in BOOLEAN, NEW text \in Texts, Type(name, text)
       PROVE  TotalInv'
  <2>1. ScreenTyped'
    BY <1>11 DEF Type, memory, ScreenTyped, Forms
  <2> QED
    BY <1>11, <2>1, ScreenKeepsTotal DEF Type, memory
<1>12. ASSUME NEW i \in DOMAIN rows, Swipe(i) PROVE TotalInv'
  BY <1>12, SwipeKeepsTotal
<1>13. CASE CommitDelete
  BY <1>13, CommitKeepsTotal
<1>14. ASSUME NEW i \in 1..(Len(documents) + 1), NEW n \in Numerals \cap Ints, RemoteAdd(i, n)
       PROVE  TotalInv'
  <2> DEFINE e == [id |-> handed + 1, ammount |-> n]
  <2>1. handed + 1 \in 1..MaxExpenses /\ remotes + 1 \in Nat
    BY <1>14, SpendingScreensAssumption DEF RemoteAdd, ScreenTyped
  <2>2. e \in Expenses
    BY <2>1 DEF Expenses
  <2>3. Change(InsertAt(documents, i, e))
    BY <1>14 DEF RemoteAdd
  <2> HIDE DEF e
  <2>4. InsertAt(documents, i, e) \in Seq(Expenses)
    BY <2>2, InsertIs DEF ListsTyped
  <2>5. /\ UNCHANGED <<process, death, user, listening, memory, meant, erased, kills, adds, form>>
        /\ handed' = handed + 1 /\ remotes' = remotes + 1
    BY <1>14 DEF RemoteAdd
  <2>6. /\ handed' \in 0..MaxExpenses /\ adds' \in Nat /\ remotes' \in Nat
        /\ form' \in Forms \cup {NoForm}
    BY <2>1, <2>5 DEF ScreenTyped
  <2> QED
    BY <2>3, <2>4, <2>5, <2>6, ListKeepsTotal
<1>15. ASSUME NEW i \in DOMAIN documents, RemoteDelete(i) PROVE TotalInv'
  <2>1. Change(RemoveAt(documents, i))
    BY <1>15 DEF RemoteDelete
  <2>2. RemoveAt(documents, i) \in Seq(Expenses)
    BY RemoveIs DEF ListsTyped
  <2>3. /\ UNCHANGED <<process, death, user, listening, memory, meant, erased, kills, adds, form, handed>>
        /\ remotes' = remotes + 1
    BY <1>15 DEF RemoteDelete
  <2>4. /\ handed' \in 0..MaxExpenses /\ adds' \in Nat /\ remotes' \in Nat
        /\ form' \in Forms \cup {NoForm}
    BY <2>3 DEF ScreenTyped
  <2> QED
    BY <2>1, <2>2, <2>3, <2>4, ListKeepsTotal
<1>16. CASE UNCHANGED vars
  <2>1. ScreenTyped'
    BY <1>16 DEF vars, memory, ScreenTyped
  <2> QED
    BY <1>16, <2>1, ScreenKeepsTotal DEF vars, memory
<1> QED
  BY <1>1, <1>2, <1>3, <1>4, <1>5, <1>6, <1>7, <1>8, <1>9, <1>10, <1>11, <1>12,
     <1>13, <1>14, <1>15, <1>16, <1>17 DEF Next, MainThread

\* Both, of every behaviour.
LEMMA TotalHolds == Spec => []TotalInv
<1>1. Init => TableInv /\ TotalInv
  BY InitTable, InitTotal
<1>2. (TableInv /\ TotalInv) /\ [Next]_vars => (TableInv /\ TotalInv)'
  BY NextTable, NextTotal
<1> QED
  BY <1>1, <1>2, PTL DEF Spec

\* Every variable keeps its shape for any width of Int: what is typed, listed and
\* summed is an Int, or the process has ended.
THEOREM TypeCorrect == Spec => []TypeOK
  BY TotalHolds, TotalTypes, PTL

\* The total on the way to the label is the mathematical sum of the list, for any
\* width of Int: reduce traps before a sum could wrap around.
THEOREM TotalStaysExact == Spec => []TotalIsExact
<1>1. TotalInv => TotalIsExact
  BY DEF TotalInv
<1> QED
  BY <1>1, TotalHolds, PTL
=============================================================================
