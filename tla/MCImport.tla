------------------------------ MODULE MCImport ------------------------------
(* Instances of ImportPipeline for TLC. *)
EXTENDS ImportPipeline, TLC

CONSTANTS r1, r2

TwoRuns == {r1, r2}
Symmetry == Permutations(Runs)

Row(date, amount, desc, dir, bal) ==
    [date |-> date, amount |-> amount, desc |-> desc, dir |-> dir, balance |-> bal]

Salary == Row(1, 5, "salary", "credit", 50)
Rent == Row(2, 3, "rent", "debit", 20)
Fee == Row(3, 1, "fee", "debit", 10)
\* The fee charged back on the same day: the same idempotency key as Fee.
FeeBack == Row(3, 1, "fee", "credit", NoBalance)

\* Two statements that overlap in one row; the second has two rows of one key.
Overlapping == {<<Salary, Rent>>, <<Rent, Fee, FeeBack>>}
\* One with two rows of one key.
Repeating == {<<Fee, FeeBack>>}

ASSUME StatementsOldestFirst == OldestFirst
=============================================================================
