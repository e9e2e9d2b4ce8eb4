----------------------------- MODULE AgentPool ------------------------------
(***************************************************************************)
(* agent.Pool: one agent per user, built by the first message that needs   *)
(* it.  Each caller is a goroutine in HandleMessage for one message.  The  *)
(* read lock, the write lock and the lock inside singleflight each protect *)
(* a single access, so each is one action; construction holds no lock.     *)
(*                                                                         *)
(* An agent is named by the caller whose factory call built it.            *)
(***************************************************************************)
EXTENDS Naturals, FiniteSets

CONSTANTS
    Callers, Users, UserOf,
    None,         \* no agent (nil, absent key)
    Error,        \* what a caller gets when the factory failed
    MaxFailures   \* bound: failing factory calls

ASSUME UserOfAssumption == UserOf \in [Callers -> Users]
ASSUME NamesAssumption ==
    None \notin Callers /\ Error \notin Callers /\ None # Error
ASSUME MaxFailuresAssumption == MaxFailures \in Nat

VARIABLES
    entries,    \* Pool.entries: the agent of each user
    flight,     \* singleflight.Group: the caller that runs the call of each user
    pc,
    got,        \* the entry each caller holds, or the error
    cancelled,  \* the caller's context has ended
    broken      \* history: callers whose own factory call returned an error

vars == <<entries, flight, pc, got, cancelled, broken>>

Leading == {"recheck", "build", "publish", "leave"}
Answered == {"served", "failed"}
PC == {"idle", "fast", "join", "waiting"} \union Leading \union Answered

Init ==
    /\ entries = [u \in Users |-> None]
    /\ flight = [u \in Users |-> None]
    /\ pc = [c \in Callers |-> "idle"]
    /\ got = [c \in Callers |-> None]
    /\ cancelled = [c \in Callers |-> FALSE]
    /\ broken = {}

Goto(c, l) == pc' = [pc EXCEPT ![c] = l]

-----------------------------------------------------------------------------
Receive(c) ==
    /\ pc[c] = "idle" /\ Goto(c, "fast")
    /\ UNCHANGED <<entries, flight, got, cancelled, broken>>

\* Under the read lock.
FastPath(c) ==
    LET e == entries[UserOf[c]] IN
    /\ pc[c] = "fast"
    /\ got' = [got EXCEPT ![c] = e]
    /\ Goto(c, IF e # None THEN "served" ELSE "join")
    /\ UNCHANGED <<entries, flight, cancelled, broken>>

\* singleflight.Do: run the call, or wait for the one that is running.
JoinFlight(c) ==
    LET u == UserOf[c] IN
    /\ pc[c] = "join"
    /\ \/ flight[u] = None /\ flight' = [flight EXCEPT ![u] = c] /\ Goto(c, "recheck")
       \/ flight[u] # None /\ UNCHANGED flight /\ Goto(c, "waiting")
    /\ UNCHANGED <<entries, got, cancelled, broken>>

\* Under the read lock again: what another flight has published since FastPath.
Published_NotRechecked(u) == None
Published(u) == entries[u]

Recheck(c) ==
    LET e == Published(UserOf[c]) IN
    /\ pc[c] = "recheck"
    /\ got' = [got EXCEPT ![c] = e]
    /\ Goto(c, IF e # None THEN "leave" ELSE "build")
    /\ UNCHANGED <<entries, flight, cancelled, broken>>

\* context.WithoutCancel: the factory does not notice that the context of the
\* caller which happens to run it has ended.
Interrupted_ByCaller(c) == cancelled[c]
Interrupted(c) == FALSE

AfterFailure == "leave"

BuildAgent(c) ==
    /\ pc[c] = "build"
    /\ \/ /\ got' = [got EXCEPT ![c] = c] /\ Goto(c, "publish")
          /\ UNCHANGED broken
       \/ /\ Cardinality(broken) < MaxFailures /\ broken' = broken \union {c}
          /\ got' = [got EXCEPT ![c] = Error] /\ Goto(c, AfterFailure)
       \/ /\ Interrupted(c) /\ UNCHANGED broken
          /\ got' = [got EXCEPT ![c] = Error] /\ Goto(c, AfterFailure)
    /\ UNCHANGED <<entries, flight, cancelled>>

\* Under the write lock.
Publish(c) ==
    /\ pc[c] = "publish" /\ Goto(c, "leave")
    /\ entries' = [entries EXCEPT ![UserOf[c]] = got[c]]
    /\ UNCHANGED <<flight, got, cancelled, broken>>

\* singleflight ends the call: it forgets it and releases all who wait for it,
\* with the result of the caller that ran it.
Released_OnlyLeader(c) == {c}
Released(c) ==
    {c} \union {w \in Callers : UserOf[w] = UserOf[c] /\ pc[w] = "waiting"}

EndFlight(c) ==
    LET verdict == IF got[c] = Error THEN "failed" ELSE "served" IN
    /\ pc[c] = "leave"
    /\ flight' = [flight EXCEPT ![UserOf[c]] = None]
    /\ got' = [w \in Callers |-> IF w \in Released(c) THEN got[c] ELSE got[w]]
    /\ pc' = [w \in Callers |-> IF w \in Released(c) THEN verdict ELSE pc[w]]
    /\ UNCHANGED <<entries, cancelled, broken>>

\* The client goes away, at any time.
Cancel(c) ==
    /\ pc[c] \notin {"idle"} \union Answered /\ ~cancelled[c]
    /\ cancelled' = [cancelled EXCEPT ![c] = TRUE]
    /\ UNCHANGED <<entries, flight, pc, got, broken>>

Settled == (\A c \in Callers : pc[c] \in Answered) /\ UNCHANGED vars

-----------------------------------------------------------------------------
Step(c) ==
    \/ FastPath(c) \/ JoinFlight(c) \/ Recheck(c) \/ BuildAgent(c)
    \/ Publish(c) \/ EndFlight(c)

Next == (\E c \in Callers : Receive(c) \/ Step(c) \/ Cancel(c)) \/ Settled

\* Goroutines are scheduled and the factory returns.
Fairness == \A c \in Callers : WF_vars(Step(c))

Spec == Init /\ [][Next]_vars
FairSpec == Spec /\ Fairness

-----------------------------------------------------------------------------
TypeOK ==
    /\ entries \in [Users -> Callers \union {None}]
    /\ flight \in [Users -> Callers \union {None}]
    /\ pc \in [Callers -> PC]
    /\ got \in [Callers -> Callers \union {None, Error}]
    /\ cancelled \in [Callers -> BOOLEAN]
    /\ broken \subseteq Callers

\* The flights and the callers agree: whoever is past JoinFlight runs the flight
\* of its user, and whoever waits, waits for a flight that somebody runs.
OneFlight ==
    /\ \A c \in Callers : pc[c] \in Leading <=> flight[UserOf[c]] = c
    /\ \A u \in Users : flight[u] # None => UserOf[flight[u]] = u
    /\ \A c \in Callers : pc[c] = "waiting" => flight[UserOf[c]] # None

\* No agent is built while the user has one, although a caller may miss the cache,
\* be delayed, and start a flight of its own long after another has published;
\* and nobody holds an agent but the one that the pool keeps for the user.
OneAgent ==
    \A c \in Callers : LET u == UserOf[c] IN
        /\ pc[c] \in {"build", "publish"} => entries[u] = None
        /\ pc[c] = "publish" => got[c] = c
        /\ pc[c] = "leave" => got[c] \in {entries[u], Error} \ {None}
        /\ pc[c] = "served" => got[c] = entries[u] /\ got[c] # None
        /\ pc[c] = "failed" => got[c] = Error

\* A message fails only when the factory itself failed for its user, never because
\* the client of some other message, which happened to run the factory, went away.
FailuresAreOwn ==
    \A c \in Callers : pc[c] = "failed" =>
        \E l \in broken : UserOf[l] = UserOf[c]

\* The pool implements BuildOnce.
B == INSTANCE BuildOnce WITH
        agent <- entries,
        answer <- [c \in Callers |-> IF pc[c] \in Answered THEN got[c] ELSE None]
BuildOnceSpec == B!Spec

\* Every message is answered: nobody waits for a flight that has ended, or for ever.
EveryMessageAnswered ==
    \A c \in Callers : pc[c] = "fast" ~> pc[c] \in Answered

=============================================================================
