--------------------------- MODULE MCExpenseSync ---------------------------
(* Instances of ExpenseSync for TLC. *)
EXTENDS ExpenseSyncBook, TLC

CONSTANTS d1, d2, e1, e2

\* Prices that no two sets of expenses share.
MCAmmount == [e \in Expenses |-> IF e = e1 THEN 3 ELSE 5]

NothingRefused == {}
AddAndDeletionRefused == {Set(e1), Delete(e2)}

DeviceSymmetry == Permutations(Devices)
=============================================================================
