----------------------------- MODULE MCDeposits -----------------------------
\* Instances of FixedDeposits for TLC.
EXTENDS FixedDeposits, TLC

CONSTANTS c1, c2, c3, d1, d2, n1, n2

ThreeCalls == {c1, c2, c3}
TwoNumbers == {n1, n2}

First == [month |-> 0, day |-> 1]
LastOfJanuary == [month |-> 0, day |-> 31]
TenthOfMay == [month |-> 4, day |-> 10]
FirstOnly == {First}

Held(number, renewal, maturity) ==
    [number |-> number, principal |-> 1, tenure |-> 12, start |-> First,
     maturity |-> maturity, renewal |-> renewal, status |-> "active",
     actual |-> 0, from |-> None]

TwoHeld ==
    (d1 :> Held(n1, "principal_only", LastOfJanuary)) @@
    (d2 :> Held(None, "principal_and_interest", TenthOfMay))

Symmetry == Permutations(Calls)
=============================================================================
