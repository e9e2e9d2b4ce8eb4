------------------------------ MODULE MCLogin -------------------------------
EXTENDS ZerodhaLogin, TLC

Symmetric == Permutations(Callbacks)

=============================================================================
