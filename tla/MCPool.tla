------------------------------- MODULE MCPool -------------------------------
(* Instances of AgentPool for TLC. *)
EXTENDS AgentPool, TLC

CONSTANTS c1, c2, c3, c4, u1, u2

\* Three messages of one user and one of another.
FourCallers == {c1, c2, c3, c4}
TwoUsers == {u1, u2}
Household == (c1 :> u1) @@ (c2 :> u1) @@ (c3 :> u1) @@ (c4 :> u2)
=============================================================================
