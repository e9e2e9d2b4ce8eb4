-------------------------- MODULE AgentPoolProofs ---------------------------
(***************************************************************************)
(* Theorems about AgentPool, for every set of callers and users and any    *)
(* number of failures.                                                     *)
(***************************************************************************)
EXTENDS AgentPool, TLAPS

\* The caller that ends a flight with an error is one whose factory call failed.
BlameKnown == \A c \in Callers : pc[c] = "leave" /\ got[c] = Error => c \in broken

IInv == TypeOK /\ OneFlight /\ OneAgent /\ BlameKnown /\ FailuresAreOwn

LEMMA InitInvariant == Init => IInv
<1> SUFFICES ASSUME Init PROVE IInv
  OBVIOUS
<1> USE UserOfAssumption, NamesAssumption DEF Init
<1>1. TypeOK
  BY DEF TypeOK, PC
<1>2. OneFlight
  BY DEF OneFlight, Leading
<1>3. OneAgent
  BY DEF OneAgent
<1>4. BlameKnown /\ FailuresAreOwn
  BY DEF BlameKnown, FailuresAreOwn
<1> QED BY <1>1, <1>2, <1>3, <1>4 DEF IInv

\* Each step of a caller preserves the types.
LEMMA TypeStep ==
    ASSUME TypeOK, OneAgent, NEW c \in Callers, Receive(c) \/ Step(c) \/ Cancel(c)
    PROVE  TypeOK'
<1> USE UserOfAssumption DEF TypeOK, PC, Leading, Answered, Goto
<1>1. CASE Receive(c)    BY <1>1 DEF Receive
<1>2. CASE FastPath(c)   BY <1>2 DEF FastPath
<1>3. CASE JoinFlight(c) BY <1>3 DEF JoinFlight
<1>4. CASE Recheck(c)    BY <1>4 DEF Recheck, Published
<1>5. CASE BuildAgent(c) BY <1>5 DEF BuildAgent, Interrupted, AfterFailure
<1>6. CASE Publish(c)    BY <1>6 DEF Publish, OneAgent
<1>7. CASE EndFlight(c)
  <2>1. pc' \in [Callers -> PC] /\ got' \in [Callers -> Callers \union {None, Error}]
    BY <1>7 DEF EndFlight
  <2> QED BY <1>7, <2>1 DEF EndFlight
<1>8. CASE Cancel(c)     BY <1>8 DEF Cancel
<1> QED BY <1>1, <1>2, <1>3, <1>4, <1>5, <1>6, <1>7, <1>8 DEF Step

\* ... and keeps flights and callers in agreement.
LEMMA FlightStep ==
    ASSUME TypeOK, OneFlight, NEW c \in Callers, Receive(c) \/ Step(c) \/ Cancel(c)
    PROVE  OneFlight'
<1> USE UserOfAssumption, NamesAssumption DEF TypeOK, OneFlight, Leading, Goto
<1>1. CASE Receive(c)    BY <1>1 DEF Receive
<1>2. CASE FastPath(c)   BY <1>2 DEF FastPath
<1>3. CASE JoinFlight(c) BY <1>3 DEF JoinFlight
<1>4. CASE Recheck(c)    BY <1>4 DEF Recheck
<1>5. CASE BuildAgent(c) BY <1>5 DEF BuildAgent, AfterFailure
<1>6. CASE Publish(c)    BY <1>6 DEF Publish
<1>7. CASE EndFlight(c)
  <2>1. flight[UserOf[c]] = c
    BY <1>7 DEF EndFlight
  <2>2. \A w \in Callers : UserOf[w] = UserOf[c] => w \in Released(c) \/ pc[w] \notin Leading \union {"waiting"}
    BY <2>1 DEF Released
  <2>3. \A w \in Callers : UserOf[w] # UserOf[c] =>
           pc'[w] = pc[w] /\ flight'[UserOf[w]] = flight[UserOf[w]]
    BY <1>7 DEF EndFlight, Released
  <2>4. \A w \in Callers : UserOf[w] = UserOf[c] =>
           pc'[w] \notin Leading \union {"waiting"} /\ flight'[UserOf[w]] = None
    BY <1>7, <2>2 DEF EndFlight
  <2>5. \A u \in Users : flight'[u] # None => UserOf[flight'[u]] = u
    BY <1>7 DEF EndFlight
  <2> QED BY <2>3, <2>4, <2>5
<1>8. CASE Cancel(c)     BY <1>8 DEF Cancel
<1> QED BY <1>1, <1>2, <1>3, <1>4, <1>5, <1>6, <1>7, <1>8 DEF Step

\* ... and the agents unique.
LEMMA AgentStep ==
    ASSUME TypeOK, OneFlight, OneAgent, NEW c \in Callers,
           Receive(c) \/ Step(c) \/ Cancel(c)
    PROVE  OneAgent'
<1> USE UserOfAssumption, NamesAssumption DEF TypeOK, OneAgent, Goto
<1>1. CASE Receive(c)    BY <1>1 DEF Receive
<1>2. CASE FastPath(c)   BY <1>2 DEF FastPath
<1>3. CASE JoinFlight(c) BY <1>3 DEF JoinFlight
<1>4. CASE Recheck(c)    BY <1>4 DEF Recheck, Published
<1>5. CASE BuildAgent(c) BY <1>5 DEF BuildAgent, Interrupted, AfterFailure
<1>6. CASE Publish(c)
  <2>1. \A w \in Callers \ {c} : UserOf[w] = UserOf[c] => pc[w] \notin Leading
    BY <1>6 DEF Publish, OneFlight, Leading
  <2>2. entries[UserOf[c]] = None /\ got[c] = c
    BY <1>6 DEF Publish
  <2> QED BY <1>6, <2>1, <2>2 DEF Publish, Leading
<1>7. CASE EndFlight(c)
  <2>1. got[c] \in {entries[UserOf[c]], Error} \ {None}
    BY <1>7 DEF EndFlight
  <2>2. \A w \in Callers : w \notin Released(c) => pc'[w] = pc[w] /\ got'[w] = got[w]
    BY <1>7 DEF EndFlight
  <2>3. \A w \in Callers : w \in Released(c) =>
           /\ UserOf[w] = UserOf[c] /\ got'[w] = got[c]
           /\ pc'[w] = IF got[c] = Error THEN "failed" ELSE "served"
    BY <1>7 DEF EndFlight, Released
  <2>4. UNCHANGED entries
    BY <1>7 DEF EndFlight
  <2> QED BY <2>1, <2>2, <2>3, <2>4
<1>8. CASE Cancel(c)     BY <1>8 DEF Cancel
<1> QED BY <1>1, <1>2, <1>3, <1>4, <1>5, <1>6, <1>7, <1>8 DEF Step

\* ... and every failure traced to the factory.
LEMMA BlameStep ==
    ASSUME TypeOK, OneAgent, BlameKnown, FailuresAreOwn, NEW c \in Callers,
           Receive(c) \/ Step(c) \/ Cancel(c)
    PROVE  BlameKnown' /\ FailuresAreOwn'
<1> USE UserOfAssumption, NamesAssumption DEF TypeOK, BlameKnown, FailuresAreOwn, Goto
<1>1. CASE Receive(c)    BY <1>1 DEF Receive
<1>2. CASE FastPath(c)   BY <1>2 DEF FastPath
<1>3. CASE JoinFlight(c) BY <1>3 DEF JoinFlight
<1>4. CASE Recheck(c)    BY <1>4 DEF Recheck, Published
<1>5. CASE BuildAgent(c) BY <1>5 DEF BuildAgent, Interrupted, AfterFailure
<1>6. CASE Publish(c)    BY <1>6 DEF Publish, OneAgent
<1>7. CASE EndFlight(c)
  <2>1. got[c] = Error => c \in broken
    BY <1>7 DEF EndFlight
  <2>2. \A w \in Callers : w \notin Released(c) => pc'[w] = pc[w] /\ got'[w] = got[w]
    BY <1>7 DEF EndFlight
  <2>3. \A w \in Callers : w \in Released(c) =>
           /\ UserOf[w] = UserOf[c]
           /\ pc'[w] = IF got[c] = Error THEN "failed" ELSE "served"
    BY <1>7 DEF EndFlight, Released
  <2>4. UNCHANGED broken
    BY <1>7 DEF EndFlight
  <2> QED BY <2>1, <2>2, <2>3, <2>4
<1>8. CASE Cancel(c)     BY <1>8 DEF Cancel
<1> QED BY <1>1, <1>2, <1>3, <1>4, <1>5, <1>6, <1>7, <1>8 DEF Step

LEMMA StepInvariant == IInv /\ [Next]_vars => IInv'
<1> SUFFICES ASSUME IInv, [Next]_vars PROVE IInv'
  OBVIOUS
<1>1. CASE UNCHANGED vars
  BY <1>1 DEF IInv, vars, TypeOK, OneFlight, OneAgent, BlameKnown, FailuresAreOwn
<1>2. ASSUME NEW c \in Callers, Receive(c) \/ Step(c) \/ Cancel(c)
      PROVE  IInv'
  BY <1>2, TypeStep, FlightStep, AgentStep, BlameStep DEF IInv
<1> QED BY <1>1, <1>2 DEF Next, Settled

-----------------------------------------------------------------------------
\* In every behaviour.
LEMMA Invariant == Spec => []IInv
BY InitInvariant, StepInvariant, PTL DEF Spec

\* Every variable keeps its type.
THEOREM TypeCorrect == Spec => []TypeOK
<1>1. IInv => TypeOK
  BY DEF IInv
<1> QED BY <1>1, Invariant, PTL

\* A user has at most one agent under construction or in use (Pool.Get, with its
\* singleflight).
THEOREM OneAgentAlways == Spec => []OneAgent
<1>1. IInv => OneAgent
  BY DEF IInv
<1> QED BY <1>1, Invariant, PTL

\* Every failure a message is answered with is the factory's own for its user
\* (Pool.Get).
THEOREM FailuresAreOwnAlways == Spec => []FailuresAreOwn
<1>1. IInv => FailuresAreOwn
  BY DEF IInv
<1> QED BY <1>1, Invariant, PTL

\* What the messages have been answered, as BuildOnce sees it.
answers == [c \in Callers |-> IF pc[c] \in Answered THEN got[c] ELSE None]

\* A message that is answered at once or with others: an Answer of BuildOnce.
LEMMA AnswerRefines ==
    ASSUME IInv, NEW c \in Callers, NEW together \in SUBSET Callers,
           NEW a \in {entries[UserOf[c]], Error} \ {None},
           \A w \in together : UserOf[w] = UserOf[c] /\ answers[w] = None,
           answers' = [w \in Callers |-> IF w \in together THEN a ELSE answers[w]],
           UNCHANGED entries
    PROVE  B!Next
<1>1. B!Answer(UserOf[c], together)
  BY DEF B!Answer, answers
<1> QED BY <1>1, UserOfAssumption DEF B!Next

LEMMA StepRefines ==
    ASSUME IInv, NEW c \in Callers, Receive(c) \/ Step(c) \/ Cancel(c)
    PROVE  B!Next \/ UNCHANGED B!vars
<1> USE UserOfAssumption, NamesAssumption
<1>1. CASE UNCHANGED <<entries, answers>>
  BY <1>1 DEF B!vars, answers
<1>2. CASE Receive(c) \/ JoinFlight(c) \/ Recheck(c) \/ BuildAgent(c) \/ Cancel(c)
  <2>1. UNCHANGED entries
    BY <1>2 DEF Receive, JoinFlight, Recheck, BuildAgent, Cancel
  <2>2. \A w \in Callers \ {c} : pc'[w] = pc[w] /\ got'[w] = got[w]
    BY <1>2 DEF Receive, JoinFlight, Recheck, BuildAgent, Cancel, Goto, IInv, TypeOK
  <2>3. (pc[c] \notin Answered /\ pc'[c] \notin Answered) \/ UNCHANGED <<pc, got>>
    BY <1>2 DEF Receive, JoinFlight, Recheck, BuildAgent, Cancel, Goto, IInv, TypeOK, Answered,
             AfterFailure
  <2>4. UNCHANGED answers
    BY <2>2, <2>3 DEF answers
  <2> QED BY <1>1, <2>1, <2>4
<1>3. CASE FastPath(c)
  <2>1. CASE entries[UserOf[c]] = None
    <3>1. UNCHANGED answers
      BY <1>3, <2>1 DEF FastPath, Goto, answers, IInv, TypeOK, Answered
    <3> QED BY <1>1, <1>3, <3>1 DEF FastPath
  <2>2. CASE entries[UserOf[c]] # None
    <3>1. PICK alone \in SUBSET Callers : alone = {c}
      OBVIOUS
    <3>2. answers' = [w \in Callers |-> IF w \in alone THEN entries[UserOf[c]]
                                       ELSE answers[w]]
      BY <1>3, <2>2, <3>1 DEF FastPath, Goto, answers, IInv, TypeOK, Answered
    <3>3. \A w \in alone : UserOf[w] = UserOf[c] /\ answers[w] = None
      BY <1>3, <3>1 DEF FastPath, answers, Answered
    <3>4. entries[UserOf[c]] \in {entries[UserOf[c]], Error} \ {None} /\ UNCHANGED entries
      BY <1>3, <2>2 DEF FastPath
    <3>5. B!Next
      BY <3>2, <3>3, <3>4, AnswerRefines
    <3> QED BY <3>5
  <2> QED BY <2>1, <2>2
<1>4. CASE Publish(c)
  <2>1. entries[UserOf[c]] = None /\ got[c] = c
    BY <1>4 DEF Publish, IInv, OneAgent
  <2>2. UNCHANGED answers
    BY <1>4 DEF Publish, Goto, answers, IInv, TypeOK, Answered
  <2>3. B!Build(UserOf[c])
    BY <1>4, <2>1, <2>2 DEF Publish, B!Build, answers
  <2> QED BY <2>3 DEF B!Next
<1>5. CASE EndFlight(c)
  <2>1. got[c] \in {entries[UserOf[c]], Error} \ {None}
    BY <1>5 DEF EndFlight, IInv, OneAgent
  <2>2. \A w \in Released(c) : UserOf[w] = UserOf[c] /\ pc[w] \notin Answered
    BY <1>5 DEF EndFlight, Released, Answered
  <2>3. \A w \in Released(c) : UserOf[w] = UserOf[c] /\ answers[w] = None
    BY <2>2 DEF answers, Released
  <2>4. answers' = [w \in Callers |-> IF w \in Released(c) THEN got[c] ELSE answers[w]]
    BY <1>5 DEF EndFlight, answers, Answered
  <2>5. UNCHANGED entries /\ Released(c) \in SUBSET Callers
    BY <1>5 DEF EndFlight, Released
  <2>6. B!Next
    BY <2>1, <2>3, <2>4, <2>5, AnswerRefines
  <2> QED BY <2>6
<1> QED BY <1>2, <1>3, <1>4, <1>5 DEF Step

\* The pool implements BuildOnce: it gives a user one agent, for ever, and answers
\* every message of the user with that agent or an error, once.
THEOREM ImplementsBuildOnce == Spec => BuildOnceSpec
<1>1. Init => B!Init
  BY DEF Init, B!Init, Answered
<1>2. IInv /\ [Next]_vars => [B!Next]_B!vars
  <2> SUFFICES ASSUME IInv, [Next]_vars PROVE [B!Next]_B!vars
    OBVIOUS
  <2>1. CASE UNCHANGED vars
    BY <2>1 DEF vars, B!vars
  <2> QED BY <2>1, StepRefines DEF Next, Settled
<1> QED BY <1>1, <1>2, InitInvariant, StepInvariant, PTL DEF Spec, BuildOnceSpec, B!Spec

=============================================================================
