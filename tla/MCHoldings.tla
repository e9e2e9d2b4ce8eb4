----------------------------- MODULE MCHoldings -----------------------------
\* Instances of HoldingsCache for TLC.
EXTENDS HoldingsCache, TLC

CONSTANTS q1, q2, q3, a, b

TwoRequests == {q1, q2}
ThreeRequests == {q1, q2, q3}
TwoSymbols == {a, b}

\* All is sold and something else bought.
Traded == {{a}, {b}}
\* One of two holdings is sold or bought.
Sold == {{a}, {a, b}}

Symmetry == Permutations(Requests) \union Permutations(Symbols)
=============================================================================
