----------------------------- MODULE BuildOnce ------------------------------
(***************************************************************************)
(* What the pool of agents promises: a user gets at most one agent, for    *)
(* ever, and every message of the user is answered by that agent or with   *)
(* an error.                                                               *)
(***************************************************************************)
CONSTANTS
    Callers,  \* messages being handled
    Users,
    UserOf,   \* the user each message comes from
    None, Error

VARIABLES
    agent,   \* the agent of each user
    answer   \* what each message has been routed to

vars == <<agent, answer>>

Init ==
    /\ agent = [u \in Users |-> None]
    /\ answer = [c \in Callers |-> None]

Build(u) ==
    /\ agent[u] = None
    /\ \E a \in Callers : agent' = [agent EXCEPT ![u] = a]
    /\ UNCHANGED answer

\* Messages that wait for the same answer get it together.
Answer(u, together) ==
    /\ \A c \in together : UserOf[c] = u /\ answer[c] = None
    /\ \E a \in {agent[u], Error} \ {None} :
          answer' = [c \in Callers |-> IF c \in together THEN a ELSE answer[c]]
    /\ UNCHANGED agent

Next ==
    \E u \in Users : \/ Build(u)
                     \/ \E together \in SUBSET Callers : Answer(u, together)

Spec == Init /\ [][Next]_vars

=============================================================================
