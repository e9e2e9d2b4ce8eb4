------------------------ MODULE FixedDepositsProofs -------------------------
(***************************************************************************)
(* Theorems about FixedDeposits.  Succession is the strengthening: what a   *)
(* call relies on between its statements.                                  *)
(***************************************************************************)
EXTENDS FixedDeposits, TLAPS

Renewing == {"mark", "insert", "commit"}

\* A call that has not come has no job; its row is absent until it commits; a renewal
\* is of a recorded deposit, and what it has read of the columns that nobody updates is
\* still true; a call about to commit has a number that nobody else has or is about to
\* record.
Rowless == {"idle", "get", "status", "mark", "insert", "commit"}

CallsReady ==
    \A c \in Calls : LET j == job[c] IN
        /\ pc[c] = "idle" => j = None
        /\ pc[c] \in Rowless => fd[c] = None
        /\ pc[c] = "status" => j \in MarkJob /\ j.id \in Recorded
        /\ pc[c] \in {"get", "mark"} => j \in RenewJob /\ j.id \in Recorded
        /\ pc[c] \in {"insert", "commit"} =>
              \/ j \in CreateJob
              \/ j \in RenewJob /\ j.id \in Recorded

ReadsHold ==
    \A c \in Calls : pc[c] \in Renewing /\ job[c].op = "renew" =>
        LET p == fd[job[c].id] IN
        /\ old[c] # None
        /\ old[c].maturity = p.maturity /\ old[c].renewal = p.renewal
        /\ old[c].principal = p.principal

NumbersClear ==
    \A c \in Calls : pc[c] = "commit" =>
        /\ ~Taken(job[c].number)
        /\ \A o \in Calls \ {c} : pc[o] = "commit" => ~Same(job[c].number, job[o].number)

\* The part of TermFollows that is about the deposits alone.
TermJoins ==
    \A s \in Recorded : fd[s].from # None =>
        LET p == fd[fd[s].from] IN
        /\ fd[s].start = p.maturity /\ fd[s].renewal = p.renewal
        /\ p.renewal = "principal_only" => fd[s].principal = p.principal

IInv ==
    /\ TypeOK /\ CallsReady /\ ReadsHold /\ NumbersClear
    /\ RenewedHasSuccessor /\ TermEnds /\ NumberOnce /\ TermJoins

-----------------------------------------------------------------------------
LEMMA MonthLengthRange == ASSUME NEW m \in Nat PROVE MonthLength(m) \in 28..31
<1>1. m % 12 \in 0..11
  OBVIOUS
<1> QED
  BY <1>1 DEF MonthLength

LEMMA AddMonthsDate ==
    ASSUME NEW d \in Date, NEW n \in Nat
    PROVE  AddMonths(d, n) \in Date
<1>1. d.month + n \in Nat /\ d.day \in 1..31
  BY DEF Date
<1>2. MonthLength(d.month + n) \in 28..31
  BY <1>1, MonthLengthRange
<1> QED
  BY <1>1, <1>2 DEF AddMonths, Date

LEMMA Int16Range == ASSUME NEW n \in Nat PROVE Int16(n) \in Short
<1>1. Half \in Nat \ {0}
  BY DEF Half
<1>2. 2 * Half \in Nat \ {0} /\ n + Half \in Nat
  BY <1>1
<1>3. (n + Half) % (2 * Half) \in 0..(2 * Half - 1)
  BY <1>2
<1> QED
  BY <1>1, <1>3 DEF Int16, Short

\* A mark touches two columns.
LEMMA MarkedDeposit ==
    ASSUME NEW d \in Deposit, NEW s \in Status, NEW a \in Nat
    PROVE  Marked(d, s, a) \in Deposit
<1>1. /\ d.number \in Numbers \union {None} /\ d.principal \in Nat
      /\ d.tenure \in Short /\ d.start \in Date /\ d.maturity \in Date
      /\ d.renewal \in Renewal /\ d.from \in Ids \union {None}
  BY DEF Deposit
<1> QED
  BY <1>1 DEF Marked, Deposit

LEMMA MarkAmountsNat == MarkAmounts \subseteq Nat
<1>1. Amounts \subseteq Nat
  BY ArgumentsAssumption
<1> QED
  BY <1>1 DEF MarkAmounts

LEMMA MarkedFields ==
    ASSUME NEW d, NEW s, NEW a
    PROVE  /\ Marked(d, s, a).status = s /\ Marked(d, s, a).number = d.number
           /\ Marked(d, s, a).principal = d.principal
           /\ Marked(d, s, a).start = d.start /\ Marked(d, s, a).maturity = d.maturity
           /\ Marked(d, s, a).renewal = d.renewal /\ Marked(d, s, a).from = d.from
BY DEF Marked

-----------------------------------------------------------------------------
LEMMA InitInvariant == Init => IInv
<1> SUFFICES ASSUME Init PROVE IInv
  OBVIOUS
<1>1. \A i \in Ids : fd[i] # None => i \in DOMAIN Existing /\ fd[i] = Existing[i]
  BY DEF Init
<1>2. TypeOK
  BY ExistingAssumption, FaultsAssumption DEF Init, TypeOK, Ids
<1>3. CallsReady /\ ReadsHold /\ NumbersClear
  BY NamesAssumption DEF Init, CallsReady, ReadsHold, NumbersClear, Ids, Rowless, Renewing
<1>4. RenewedHasSuccessor /\ TermEnds /\ TermJoins
  BY <1>1, ExistingAssumption
  DEF RenewedHasSuccessor, TermEnds, TermJoins, Recorded
<1>5. NumberOnce
  BY <1>1, ExistingAssumption DEF NumberOnce, Recorded
<1> QED
  BY <1>2, <1>3, <1>4, <1>5 DEF IInv

\* What is said of the rows alone survives every step that changes none.
LEMMA RowsQuiet ==
    ASSUME IInv, UNCHANGED fd
    PROVE  (RenewedHasSuccessor /\ TermEnds /\ NumberOnce /\ TermJoins)'
BY DEF IInv, RenewedHasSuccessor, TermEnds, NumberOnce, TermJoins, Recorded

LEMMA ReceiveStep == ASSUME IInv, NEW c \in Calls, Receive(c) PROVE IInv'
<1>1. PICK j \in Job :
        /\ pc[c] = "idle" /\ job' = [job EXCEPT ![c] = j]
        /\ \/ j.op = "create" /\ pc' = [pc EXCEPT ![c] = "insert"]
           \/ j.op = "mark" /\ j.id \in Recorded /\ pc' = [pc EXCEPT ![c] = "status"]
           \/ j.op = "renew" /\ j.id \in Recorded /\ pc' = [pc EXCEPT ![c] = "get"]
  BY DEF Receive, Goto
<1>2. j.op = "create" <=> j \in CreateJob
  BY DEF Job, CreateJob, MarkJob, RenewJob
<1>3. j.op = "mark" <=> j \in MarkJob
  BY DEF Job, CreateJob, MarkJob, RenewJob
<1>4. j.op = "renew" <=> j \in RenewJob
  BY DEF Job, CreateJob, MarkJob, RenewJob
<1>5. UNCHANGED <<fd, old, faults>> /\ Recorded' = Recorded
  BY DEF Receive, Recorded
<1>6. TypeOK'
  BY <1>1, <1>5 DEF IInv, TypeOK
<1>7. CallsReady'
  BY <1>1, <1>2, <1>3, <1>4, <1>5 DEF IInv, TypeOK, CallsReady, Rowless
<1>8. ReadsHold'
  BY <1>1, <1>2, <1>5 DEF IInv, TypeOK, ReadsHold, Renewing
<1>9. NumbersClear'
  BY <1>1, <1>5 DEF IInv, TypeOK, NumbersClear, Taken
<1> QED
  BY <1>5, <1>6, <1>7, <1>8, <1>9, RowsQuiet DEF IInv

LEMMA GetStep == ASSUME IInv, NEW c \in Calls, Get(c) PROVE IInv'
<1>1. /\ pc[c] = "get" /\ pc' = [pc EXCEPT ![c] = "mark"]
      /\ old' = [old EXCEPT ![c] = fd[job[c].id]]
      /\ UNCHANGED <<fd, job, faults>> /\ Recorded' = Recorded
  BY DEF Get, Goto, Recorded
<1>2. job[c] \in RenewJob /\ job[c].id \in Recorded
  BY <1>1 DEF IInv, CallsReady
<1>3. job[c].id \in Ids /\ fd[job[c].id] \in Deposit /\ fd[job[c].id] # None
  BY <1>2 DEF Recorded, IInv, TypeOK
<1>4. TypeOK'
  BY <1>1, <1>3 DEF IInv, TypeOK
<1>5. CallsReady'
  BY <1>1, <1>2 DEF IInv, TypeOK, CallsReady, Rowless
<1>6. ReadsHold'
  BY <1>1, <1>3 DEF IInv, TypeOK, ReadsHold, Renewing
<1>7. NumbersClear'
  BY <1>1 DEF IInv, TypeOK, NumbersClear, Taken
<1> QED
  BY <1>1, <1>4, <1>5, <1>6, <1>7, RowsQuiet DEF IInv

LEMMA MarkRenewedStep == ASSUME IInv, NEW c \in Calls, MarkRenewed(c) PROVE IInv'
<1>1. /\ pc[c] = "mark" /\ pc' = [pc EXCEPT ![c] = "insert"]
      /\ UNCHANGED <<fd, job, old, faults>> /\ Recorded' = Recorded
  BY DEF MarkRenewed, Goto, Recorded
<1>2. TypeOK'
  BY <1>1 DEF IInv, TypeOK
<1>3. CallsReady'
  BY <1>1 DEF IInv, TypeOK, CallsReady, Rowless
<1>4. ReadsHold'
  BY <1>1 DEF IInv, TypeOK, ReadsHold, Renewing
<1>5. NumbersClear'
  BY <1>1 DEF IInv, TypeOK, NumbersClear, Taken
<1> QED
  BY <1>1, <1>2, <1>3, <1>4, <1>5, RowsQuiet DEF IInv

\* The insert waits for open transactions with the same number and sees those that
\* have committed.
LEMMA InsertDepositStep == ASSUME IInv, NEW c \in Calls, InsertDeposit(c) PROVE IInv'
<1> DEFINE n == job[c].number
<1>1. /\ pc[c] = "insert"
      /\ pc' = [pc EXCEPT ![c] = IF Taken(n) THEN "failed" ELSE "commit"]
      /\ \A o \in Calls : pc[o] = "commit" => ~Same(n, job[o].number)
      /\ UNCHANGED <<fd, job, old, faults>> /\ Recorded' = Recorded
  BY DEF InsertDeposit, Goto, Recorded
<1>2. TypeOK'
  BY <1>1 DEF IInv, TypeOK
<1>3. CallsReady'
  BY <1>1 DEF IInv, TypeOK, CallsReady, Rowless
<1>4. ReadsHold'
  BY <1>1 DEF IInv, TypeOK, ReadsHold, Renewing
<1>5. \A m : Taken(m)' <=> Taken(m)
  BY <1>1 DEF Taken
<1>6. NumbersClear'
  BY <1>1, <1>5 DEF IInv, TypeOK, NumbersClear, Same
<1> QED
  BY <1>1, <1>2, <1>3, <1>4, <1>6, RowsQuiet DEF IInv

LEMMA BreakStep == ASSUME IInv, NEW c \in Calls, Break(c) PROVE IInv'
<1>1. /\ pc' = [pc EXCEPT ![c] = "failed"]
      /\ faults < MaxFaults /\ faults' = faults + 1
      /\ UNCHANGED <<fd, job, old>> /\ Recorded' = Recorded
  BY DEF Break, Goto, Fault, Recorded
<1>2. TypeOK'
  BY <1>1, FaultsAssumption DEF IInv, TypeOK
<1>3. CallsReady'
  BY <1>1 DEF IInv, TypeOK, CallsReady, Rowless
<1>4. ReadsHold'
  BY <1>1 DEF IInv, TypeOK, ReadsHold, Renewing
<1>5. NumbersClear'
  BY <1>1 DEF IInv, TypeOK, NumbersClear, Taken
<1> QED
  BY <1>1, <1>2, <1>3, <1>4, <1>5, RowsQuiet DEF IInv

\* A status changes; the other columns and the set of rows do not.
LEMMA UpdateStatusStep == ASSUME IInv, NEW c \in Calls, UpdateStatus(c) PROVE IInv'
<1> DEFINE j == job[c]
           row == Marked(fd[j.id], j.status, j.amount)
<1>1. /\ pc[c] = "status" /\ pc' \in {[pc EXCEPT ![c] = "done"], [pc EXCEPT ![c] = "failed"]}
      /\ \/ faults' = faults
         \/ faults < MaxFaults /\ faults' = faults + 1
      /\ UNCHANGED <<job, old>>
  BY DEF UpdateStatus, Goto, Fault
<1>2. j \in MarkJob /\ j.id \in Ids /\ fd[j.id] \in Deposit
  BY <1>1 DEF IInv, TypeOK, CallsReady, Recorded
<1>3. fd' = [fd EXCEPT ![j.id] = row]
  BY DEF UpdateStatus
<1>a. j.status \in {"matured", "prematurely_closed"} /\ j.amount \in Nat
  <2>1. j.status \in {"matured", "prematurely_closed"} /\ j.amount \in MarkAmounts
    BY <1>2 DEF MarkJob
  <2> QED
    BY <2>1, MarkAmountsNat
<1>4. row \in Deposit /\ row # None /\ row.status \in {"matured", "prematurely_closed"}
  <2>1. row \in Deposit
    BY <1>2, <1>a, MarkedDeposit DEF Status
  <2> QED
    BY <2>1, <1>a, MarkedFields, NoneAssumption
<1>5. /\ row.number = fd[j.id].number /\ row.principal = fd[j.id].principal
      /\ row.start = fd[j.id].start /\ row.maturity = fd[j.id].maturity
      /\ row.renewal = fd[j.id].renewal /\ row.from = fd[j.id].from
  BY MarkedFields
<1> HIDE DEF row
<1>6. \A i \in Ids : /\ fd'[i] = IF i = j.id THEN row ELSE fd[i]
  BY <1>3 DEF IInv, TypeOK
<1>7. \A i \in Ids :
        /\ fd'[i].number = fd[i].number /\ fd'[i].principal = fd[i].principal
        /\ fd'[i].start = fd[i].start /\ fd'[i].maturity = fd[i].maturity
        /\ fd'[i].renewal = fd[i].renewal /\ fd'[i].from = fd[i].from
  BY <1>5, <1>6
<1>b. fd[j.id] # None
  BY <1>1 DEF IInv, CallsReady, Recorded
<1>8. Recorded' = Recorded
  <2>1. \A i \in Ids : fd'[i] # None <=> fd[i] # None
    BY <1>b, <1>4, <1>6
  <2> QED
    BY <2>1 DEF Recorded
<1>9. TypeOK'
  <2>1. fd' \in [Ids -> Deposit \union {None}]
    BY <1>3, <1>4 DEF IInv, TypeOK
  <2>2. pc' \in [Calls -> {"idle", "get", "status", "mark", "insert", "commit", "done", "failed"}]
    BY <1>1 DEF IInv, TypeOK
  <2>3. faults' \in 0..MaxFaults
    BY <1>1, FaultsAssumption DEF IInv, TypeOK
  <2> QED
    BY <1>1, <2>1, <2>2, <2>3 DEF IInv, TypeOK
<1>10. CallsReady'
  BY <1>1, <1>6, <1>8, <1>b DEF IInv, TypeOK, CallsReady, Rowless, Ids
<1>11. \A o \in Calls : pc[o] \in Renewing /\ job[o].op = "renew" => job[o].id \in Ids
  BY DEF IInv, CallsReady, Recorded, Renewing, CreateJob
<1>12. ReadsHold'
  BY <1>1, <1>7, <1>11 DEF IInv, TypeOK, ReadsHold, Renewing
<1>13. \A m : Taken(m)' <=> Taken(m)
  BY <1>7, <1>8 DEF Taken, Recorded
<1>14. NumbersClear'
  BY <1>1, <1>13 DEF IInv, TypeOK, NumbersClear
<1>15. RenewedHasSuccessor'
  BY <1>4, <1>6, <1>7, <1>8 DEF IInv, RenewedHasSuccessor, Recorded
<1>16. TermEnds'
  BY <1>4, <1>6, <1>7, <1>8 DEF IInv, TermEnds, Recorded
<1>17. NumberOnce'
  BY <1>7, <1>8 DEF IInv, NumberOnce, Recorded
<1>18. TermJoins'
  <2> SUFFICES ASSUME NEW s \in Recorded, fd'[s].from # None
               PROVE  (LET p == fd[fd[s].from] IN
                        /\ fd[s].start = p.maturity /\ fd[s].renewal = p.renewal
                        /\ p.renewal = "principal_only" => fd[s].principal = p.principal)'
    BY <1>8 DEF TermJoins
  <2>1. s \in Ids /\ fd'[s].from = fd[s].from /\ fd[s].from \in Ids
    BY <1>7 DEF Recorded, IInv, TermEnds
  <2> QED
    BY <1>7, <2>1 DEF IInv, TermJoins
<1> QED
  BY <1>9, <1>10, <1>12, <1>14, <1>15, <1>16, <1>17, <1>18 DEF IInv

-----------------------------------------------------------------------------
\* What both kinds of commit do: a row with the number of the call appears, and the
\* columns that nobody updates stay.
LEMMA NewRow ==
    ASSUME IInv, NEW c \in Calls, pc[c] = "commit", UNCHANGED <<job, old>>,
           pc' \in {[pc EXCEPT ![c] = "done"], [pc EXCEPT ![c] = "failed"]},
           fd'[c] # None, fd'[c].number = job[c].number,
           \A i \in Ids \ {c} : fd[i] # None <=> fd'[i] # None,
           \A i \in Ids \ {c} :
              /\ fd'[i].number = fd[i].number /\ fd'[i].principal = fd[i].principal
              /\ fd'[i].start = fd[i].start /\ fd'[i].maturity = fd[i].maturity
              /\ fd'[i].renewal = fd[i].renewal /\ fd'[i].from = fd[i].from
    PROVE  /\ Recorded' = Recorded \union {c}
           /\ CallsReady' /\ ReadsHold' /\ NumbersClear' /\ NumberOnce'
<1>1. c \in Ids /\ fd[c] = None /\ c \notin Recorded
  BY DEF Ids, IInv, CallsReady, Rowless, Recorded
<1>2. Recorded' = Recorded \union {c}
  BY <1>1 DEF Recorded
<1>3. Recorded \subseteq Ids \ {c}
  BY <1>1 DEF Recorded
<1>4. job' = job /\ old' = old
  OBVIOUS
<1>a. \A o \in Calls : pc'[o] \notin {"done", "failed"} => o # c /\ pc'[o] = pc[o]
  BY DEF IInv, TypeOK
<1>5. CallsReady'
  <2> SUFFICES ASSUME NEW o \in Calls, pc'[o] \notin {"done", "failed"}
      PROVE  LET j == job[o] IN
             /\ pc[o] = "idle" => j = None
             /\ pc[o] \in Rowless => fd'[o] = None
             /\ pc[o] = "status" => j \in MarkJob /\ j.id \in Recorded'
             /\ pc[o] \in {"get", "mark"} => j \in RenewJob /\ j.id \in Recorded'
             /\ pc[o] \in {"insert", "commit"} =>
                   \/ j \in CreateJob
                   \/ j \in RenewJob /\ j.id \in Recorded'
    BY <1>4, <1>a DEF CallsReady, Rowless
  <2>1. fd[o] = None => fd'[o] = None
    BY <1>a DEF Ids
  <2> QED
    BY <1>2, <2>1 DEF IInv, CallsReady
<1>6. \A o \in Calls : pc[o] \in Renewing /\ job[o].op = "renew" => job[o].id \in Recorded
  BY DEF IInv, CallsReady, Renewing, CreateJob
<1>7. ReadsHold'
  <2> SUFFICES ASSUME NEW o \in Calls, pc'[o] \in Renewing, job[o].op = "renew"
      PROVE  LET p == fd'[job[o].id] IN
             /\ old[o] # None
             /\ old[o].maturity = p.maturity /\ old[o].renewal = p.renewal
             /\ old[o].principal = p.principal
    BY <1>4 DEF ReadsHold
  <2>1. pc[o] \in Renewing
    BY <1>a DEF Renewing
  <2>2. job[o].id \in Ids \ {c}
    BY <1>3, <1>6, <2>1
  <2> QED
    BY <2>1, <2>2 DEF IInv, ReadsHold
<1>8. \A m : Taken(m)' <=> Taken(m) \/ Same(m, job[c].number)
  BY <1>2, <1>3 DEF Taken
<1>9. \A o \in Calls : o # c /\ pc[o] = "commit" => ~Same(job[o].number, job[c].number)
  BY DEF IInv, NumbersClear
<1>10. NumbersClear'
  <2>1. \A o \in Calls : pc'[o] = "commit" => o # c /\ pc[o] = "commit"
    BY <1>a
  <2>2. \A o \in Calls : pc'[o] = "commit" => ~Taken(job[o].number)'
    BY <1>4, <1>8, <1>9, <2>1 DEF IInv, NumbersClear
  <2> QED
    BY <1>4, <2>1, <2>2 DEF IInv, NumbersClear
<1>11. ~Taken(job[c].number)
  BY DEF IInv, NumbersClear
<1>12. NumberOnce'
  BY <1>2, <1>3, <1>11 DEF IInv, NumberOnce, Taken, Same
<1> QED
  BY <1>2, <1>5, <1>7, <1>10, <1>12

LEMMA SuccessorDeposit ==
    ASSUME TypeOK, NEW c \in Calls, old[c] \in Deposit, job[c] \in RenewJob
    PROVE  Successor(c) \in Deposit
<1>1. /\ job[c].number \in Numbers \union {None} /\ job[c].id \in Ids
      /\ job[c].amount \in Amounts /\ job[c].tenure \in Tenures
  BY DEF RenewJob
<1>2. old[c].principal \in Nat /\ old[c].maturity \in Date /\ old[c].renewal \in Renewal
  BY DEF Deposit
<1>3. job[c].amount \in Nat /\ job[c].tenure \in Nat
  BY <1>1, ArgumentsAssumption
<1>4. Int16(job[c].tenure) \in Short /\ AddMonths(old[c].maturity, job[c].tenure) \in Date
  BY <1>2, <1>3, Int16Range, AddMonthsDate
<1> QED
  BY <1>1, <1>2, <1>3, <1>4 DEF Successor, Deposit, Status

LEMMA CreatedDeposit ==
    ASSUME TypeOK, NEW c \in Calls, job[c] \in CreateJob
    PROVE  Created(c) \in Deposit
<1>1. /\ job[c].number \in Numbers \union {None} /\ job[c].amount \in Amounts
      /\ job[c].tenure \in Tenures /\ job[c].start \in Dates
      /\ job[c].maturity \in Dates /\ job[c].renewal \in Renewal
  BY DEF CreateJob
<1>2. job[c].amount \in Nat /\ job[c].tenure \in Nat
  BY <1>1, ArgumentsAssumption
<1>3. job[c].start \in Date /\ job[c].maturity \in Date /\ Int16(job[c].tenure) \in Short
  BY <1>1, <1>2, ArgumentsAssumption, Int16Range
<1> QED
  BY <1>1, <1>2, <1>3 DEF Created, Deposit, Status

LEMMA CreateCommitStep ==
    ASSUME IInv, NEW c \in Calls, Commit(c), job[c] \in CreateJob
    PROVE  IInv'
<1>1. /\ pc[c] = "commit" /\ UNCHANGED <<job, old>>
      /\ pc' \in {[pc EXCEPT ![c] = "done"], [pc EXCEPT ![c] = "failed"]}
      /\ faults' = faults \/ (faults < MaxFaults /\ faults' = faults + 1)
      /\ c \in Ids /\ fd \in [Ids -> Deposit \union {None}]
  BY DEF Commit, Goto, Fault, Ids, IInv, TypeOK
<1>2. fd' = [fd EXCEPT ![c] = Created(c)]
  BY DEF Commit, CreateJob
<1>3. Created(c) \in Deposit /\ Created(c) # None
  BY CreatedDeposit, NoneAssumption DEF IInv
<1>4. /\ Created(c).number = job[c].number /\ Created(c).from = None
      /\ Created(c).status = "active"
  BY DEF Created
<1>5. fd'[c] = Created(c) /\ \A i \in Ids \ {c} : fd'[i] = fd[i]
  BY <1>1, <1>2
<1>6. /\ Recorded' = Recorded \union {c}
      /\ CallsReady' /\ ReadsHold' /\ NumbersClear' /\ NumberOnce'
  <2>1. fd'[c] # None /\ fd'[c].number = job[c].number
    BY <1>3, <1>4, <1>5
  <2> QED
    BY <1>1, <1>5, <2>1, NewRow
<1>7. Recorded \subseteq Ids \ {c}
  BY <1>1 DEF IInv, CallsReady, Rowless, Recorded
<1>8. TypeOK'
  <2>1. fd' \in [Ids -> Deposit \union {None}]
    BY <1>1, <1>2, <1>3
  <2>2. pc' \in [Calls -> {"idle", "get", "status", "mark", "insert", "commit", "done", "failed"}]
    BY <1>1 DEF IInv, TypeOK
  <2>3. faults' \in 0..MaxFaults
    BY <1>1, FaultsAssumption DEF IInv, TypeOK
  <2> QED
    BY <1>1, <2>1, <2>2, <2>3 DEF IInv, TypeOK
<1>9. RenewedHasSuccessor'
  BY <1>4, <1>5, <1>6, <1>7 DEF IInv, RenewedHasSuccessor
<1>10. TermEnds'
  BY <1>4, <1>5, <1>6, <1>7 DEF IInv, TermEnds
<1>11. TermJoins'
  BY <1>4, <1>5, <1>6, <1>7 DEF IInv, TermJoins, TermEnds
<1> QED
  BY <1>6, <1>8, <1>9, <1>10, <1>11 DEF IInv

LEMMA RenewCommitStep ==
    ASSUME IInv, NEW c \in Calls, Commit(c), job[c] \in RenewJob
    PROVE  IInv'
<1> DEFINE i == job[c].id
           row == Marked(fd[i], "renewed", job[c].amount)
           new == Successor(c)
<1>1. /\ pc[c] = "commit" /\ UNCHANGED <<job, old>>
      /\ pc' \in {[pc EXCEPT ![c] = "done"], [pc EXCEPT ![c] = "failed"]}
      /\ faults' = faults \/ (faults < MaxFaults /\ faults' = faults + 1)
      /\ c \in Ids /\ fd \in [Ids -> Deposit \union {None}]
  BY DEF Commit, Goto, Fault, Ids, IInv, TypeOK
<1>2. job[c].op = "renew"
  BY DEF RenewJob
<1>3. fd' = [fd EXCEPT ![i] = row, ![c] = new]
  BY <1>2 DEF Commit, Renewed
<1>4. i \in Recorded /\ fd[c] = None
  BY <1>1, <1>2 DEF IInv, CallsReady, Rowless, CreateJob
<1>5. i \in Ids \ {c} /\ Recorded \subseteq Ids \ {c} /\ fd[i] \in Deposit
  BY <1>1, <1>4 DEF Recorded
<1>6. /\ old[c] \in Deposit
      /\ old[c].maturity = fd[i].maturity /\ old[c].renewal = fd[i].renewal
      /\ old[c].principal = fd[i].principal
  BY <1>1, <1>2 DEF IInv, ReadsHold, Renewing, TypeOK
<1>7. new \in Deposit /\ new # None
  BY <1>6, SuccessorDeposit, NoneAssumption DEF IInv
<1>8. /\ new.number = job[c].number /\ new.from = i /\ new.status = "active"
      /\ new.start = old[c].maturity /\ new.renewal = old[c].renewal
      /\ old[c].renewal = "principal_only" => new.principal = old[c].principal
  BY DEF Successor
<1>9. row \in Deposit /\ row # None
  <2>1. job[c].amount \in Nat
    BY ArgumentsAssumption DEF RenewJob
  <2> QED
    BY <1>5, <2>1, MarkedDeposit, NoneAssumption DEF Status
<1>10. /\ row.status = "renewed"
       /\ row.number = fd[i].number /\ row.principal = fd[i].principal
       /\ row.start = fd[i].start /\ row.maturity = fd[i].maturity
       /\ row.renewal = fd[i].renewal /\ row.from = fd[i].from
  BY MarkedFields
<1> HIDE DEF row, new
<1>11. fd'[c] = new /\ fd'[i] = row /\ \A k \in Ids \ {c, i} : fd'[k] = fd[k]
  BY <1>1, <1>3, <1>5
<1>12. \A k \in Ids \ {c} :
        /\ fd'[k].number = fd[k].number /\ fd'[k].principal = fd[k].principal
        /\ fd'[k].start = fd[k].start /\ fd'[k].maturity = fd[k].maturity
        /\ fd'[k].renewal = fd[k].renewal /\ fd'[k].from = fd[k].from
  BY <1>10, <1>11
<1>13. /\ Recorded' = Recorded \union {c}
       /\ CallsReady' /\ ReadsHold' /\ NumbersClear' /\ NumberOnce'
  <2>1. fd'[c] # None /\ fd'[c].number = job[c].number
    BY <1>7, <1>8, <1>11
  <2>2. \A k \in Ids \ {c} : fd[k] # None <=> fd'[k] # None
    BY <1>4, <1>9, <1>11 DEF Recorded
  <2> QED
    BY <1>1, <1>12, <2>1, <2>2, NewRow
<1>14. TypeOK'
  <2>1. fd' \in [Ids -> Deposit \union {None}]
    BY <1>1, <1>3, <1>7, <1>9
  <2>2. pc' \in [Calls -> {"idle", "get", "status", "mark", "insert", "commit", "done", "failed"}]
    BY <1>1 DEF IInv, TypeOK
  <2>3. faults' \in 0..MaxFaults
    BY <1>1, FaultsAssumption DEF IInv, TypeOK
  <2> QED
    BY <1>1, <2>1, <2>2, <2>3 DEF IInv, TypeOK
<1>15. RenewedHasSuccessor'
  BY <1>5, <1>8, <1>11, <1>12, <1>13 DEF IInv, RenewedHasSuccessor
<1>16. TermEnds'
  BY <1>4, <1>5, <1>8, <1>10, <1>11, <1>12, <1>13 DEF IInv, TermEnds
<1>17. TermJoins'
  <2>1. \A s \in Recorded' \ {c} : fd'[s].from = fd[s].from /\ s \in Recorded
    BY <1>5, <1>12, <1>13
  <2>2. \A s \in Recorded : fd[s].from # None => fd[s].from \in Ids \ {c}
    BY <1>5 DEF IInv, TermEnds
  <2> QED
    BY <1>5, <1>6, <1>8, <1>11, <1>12, <2>1, <2>2 DEF IInv, TermJoins
<1> QED
  BY <1>13, <1>14, <1>15, <1>16, <1>17 DEF IInv

-----------------------------------------------------------------------------
LEMMA NextInvariant == IInv /\ [Next]_vars => IInv'
<1> SUFFICES ASSUME IInv, [Next]_vars PROVE IInv'
  OBVIOUS
<1>1. CASE UNCHANGED vars
  <2>1. UNCHANGED <<fd, pc, job, old, faults>> /\ Recorded' = Recorded
    BY <1>1 DEF vars, Recorded
  <2>2. TypeOK' /\ CallsReady'
    BY <2>1 DEF IInv, TypeOK, CallsReady
  <2>3. ReadsHold' /\ NumbersClear'
    BY <2>1 DEF IInv, ReadsHold, NumbersClear, Taken
  <2> QED
    BY <2>1, <2>2, <2>3, RowsQuiet DEF IInv
<1>2. ASSUME NEW c \in Calls, Commit(c) PROVE IInv'
  <2>1. job[c] \in CreateJob \/ job[c] \in RenewJob
    BY <1>2 DEF Commit, IInv, CallsReady
  <2> QED
    BY <1>2, <2>1, CreateCommitStep, RenewCommitStep
<1>3. CASE \E c \in Calls : Receive(c) \/ Step(c) \/ Break(c)
  BY <1>2, <1>3, ReceiveStep, UpdateStatusStep, GetStep, MarkRenewedStep,
     InsertDepositStep, BreakStep DEF Step
<1> QED
  BY <1>1, <1>3 DEF Next, Settled

-----------------------------------------------------------------------------
\* In every behaviour.
LEMMA Invariant == Spec => []IInv
BY InitInvariant, NextInvariant, PTL DEF Spec

\* Every variable keeps its type, for any calls, deposits, dates and amounts.
THEOREM TypeCorrect == Spec => []TypeOK
<1>1. IInv => TypeOK
  BY DEF IInv
<1> QED BY <1>1, Invariant, PTL

\* Money of a renewed deposit is in a successor, whatever fails between the statements of
\* FDStore.Renew.
THEOREM RenewedHasSuccessorAlways == Spec => []RenewedHasSuccessor
<1>1. IInv => RenewedHasSuccessor
  BY DEF IInv
<1> QED BY <1>1, Invariant, PTL

\* An old term does not stay active when its successor is there (FDStore.Renew).
THEOREM TermEndsAlways == Spec => []TermEnds
<1>1. IInv => TermEnds
  BY DEF IInv
<1> QED BY <1>1, Invariant, PTL

\* A number of the bank is recorded once, whatever races or is repeated (manage_fd).
THEOREM NumberOnceAlways == Spec => []NumberOnce
<1>1. IInv => NumberOnce
  BY DEF IInv
<1> QED BY <1>1, Invariant, PTL

-----------------------------------------------------------------------------
(* The end of a term *)

OnTime(d, n, e) ==
    \/ e = [month |-> d.month + n, day |-> d.day]
    \/ d.day > 28 /\ e.day <= 3 /\ e.month = d.month + n + 1

LEMMA AddMonthsOnTime ==
    ASSUME NEW d \in Date, NEW n \in Nat
    PROVE  OnTime(d, n, AddMonths(d, n))
<1>1. d.month + n \in Nat /\ d.day \in 1..31
  BY DEF Date
<1>2. MonthLength(d.month + n) \in 28..31
  BY <1>1, MonthLengthRange
<1>3. CASE d.day <= MonthLength(d.month + n)
  BY <1>3 DEF AddMonths, OnTime
<1>4. CASE ~(d.day <= MonthLength(d.month + n))
  <2>1. AddMonths(d, n) = [month |-> d.month + n + 1, day |-> d.day - MonthLength(d.month + n)]
    BY <1>4 DEF AddMonths
  <2>2. AddMonths(d, n).day <= 3 /\ AddMonths(d, n).month = d.month + n + 1 /\ d.day > 28
    BY <1>1, <1>2, <1>4, <2>1
  <2> QED BY <2>2 DEF OnTime
<1> QED BY <1>3, <1>4

\* The dates of a recorded term and the call that recorded it stay as they are.
LEMMA TermsKept ==
    ASSUME IInv, [Next]_vars, NEW c \in Calls, c \in Recorded
    PROVE  /\ job'[c] = job[c] /\ fd'[c].from = fd[c].from
           /\ fd'[c].start = fd[c].start /\ fd'[c].maturity = fd[c].maturity
<1>1. /\ c \in Ids /\ fd \in [Ids -> Deposit \union {None}] /\ job \in [Calls -> Job \union {None}]
      /\ pc[c] \notin Rowless
  BY DEF Recorded, IInv, TypeOK, CallsReady
<1>2. ASSUME NEW o \in Calls, Receive(o) PROVE fd' = fd /\ job'[c] = job[c]
  <2>1. pc[o] = "idle" /\ o # c
    BY <1>1, <1>2 DEF Receive, Rowless
  <2> QED BY <1>1, <1>2, <2>1 DEF Receive
<1>3. ASSUME NEW o \in Calls, UpdateStatus(o) PROVE job' = job /\
        \/ fd'[c] = fd[c]
        \/ \E s, a : fd'[c] = Marked(fd[c], s, a)
  BY <1>1, <1>3 DEF UpdateStatus
<1>4. ASSUME NEW o \in Calls, Commit(o) PROVE job' = job /\
        \/ fd'[c] = fd[c]
        \/ \E s, a : fd'[c] = Marked(fd[c], s, a)
  <2>1. o # c
    BY <1>1, <1>4 DEF Commit, Rowless
  <2>2. CASE fd' = [fd EXCEPT ![o] = Created(o)]
    BY <1>1, <1>4, <2>1, <2>2 DEF Commit
  <2>3. CASE fd' = [fd EXCEPT ![job[o].id] = Marked(@, "renewed", job[o].amount),
                              ![o] = Successor(o)]
    BY <1>1, <1>4, <2>1, <2>3 DEF Commit
  <2> QED BY <1>4, <2>2, <2>3 DEF Commit, Renewed
<1>5. ASSUME NEW o \in Calls, Get(o) \/ MarkRenewed(o) \/ InsertDeposit(o) \/ Break(o)
      PROVE  fd' = fd /\ job' = job
  BY <1>5 DEF Get, MarkRenewed, InsertDeposit, Break
<1>6. \/ fd'[c] = fd[c] /\ job'[c] = job[c]
      \/ job'[c] = job[c] /\ \E s, a : fd'[c] = Marked(fd[c], s, a)
  BY <1>2, <1>3, <1>4, <1>5 DEF Next, Step, Settled, vars
<1> QED BY <1>6, MarkedFields

\* A term that a step records ends on time.
LEMMA NewTermOnTime ==
    ASSUME IInv, [Next]_vars, NEW c \in Calls, c \notin Recorded, c \in Recorded', fd'[c].from # None
    PROVE  OnTime(fd'[c].start, job'[c].tenure, fd'[c].maturity)
<1>1. c \in Ids /\ fd \in [Ids -> Deposit \union {None}] /\ fd[c] = None /\ fd'[c] # None
  BY DEF Recorded, IInv, TypeOK, Ids
<1>2. PICK o \in Calls : UpdateStatus(o) \/ Commit(o)
  BY <1>1 DEF Next, Step, Settled, vars, Receive, Get, MarkRenewed, InsertDeposit, Break
<1>3. ~UpdateStatus(o)
  <2> SUFFICES ASSUME UpdateStatus(o) PROVE FALSE
    OBVIOUS
  <2>1. job[o].id \in Recorded
    BY DEF UpdateStatus, IInv, CallsReady
  <2>2. fd'[c] = fd[c]
    BY <1>1, <2>1 DEF UpdateStatus, Recorded
  <2> QED BY <1>1, <2>2
<1>4. Commit(o) /\ job' = job
  BY <1>2, <1>3 DEF Commit
<1>5. CASE job[o] \in CreateJob
  <2>1. fd' = [fd EXCEPT ![o] = Created(o)]
    BY <1>4, <1>5 DEF Commit, CreateJob
  <2>2. fd'[c] = Created(o)
    BY <1>1, <2>1
  <2> QED BY <2>2 DEF Created
<1>6. CASE job[o] \in RenewJob /\ job[o].id \in Recorded
  <2>1. fd' = [fd EXCEPT ![job[o].id] = Marked(@, "renewed", job[o].amount), ![o] = Successor(o)]
    BY <1>4, <1>6 DEF Commit, Renewed, RenewJob
  <2>2. c # job[o].id
    BY <1>6
  <2>3. c = o /\ fd'[c] = Successor(c)
    BY <1>1, <2>1, <2>2
  <2>4. old[c] \in Deposit
    BY <1>4, <1>6, <2>3 DEF Commit, IInv, TypeOK, ReadsHold, Renewing, RenewJob
  <2>5. old[c].maturity \in Date /\ job[c].tenure \in Nat
    BY <1>6, <2>3, <2>4, ArgumentsAssumption DEF Deposit, RenewJob
  <2>6. /\ Successor(c).start = old[c].maturity
        /\ Successor(c).maturity = AddMonths(old[c].maturity, job[c].tenure)
    BY DEF Successor
  <2> QED BY <1>4, <2>3, <2>5, <2>6, AddMonthsOnTime
<1> QED BY <1>4, <1>5, <1>6 DEF Commit, IInv, CallsReady

\* For any dates, tenures and failures, a renewal matures when the months asked for have
\* passed, on the same day or, if that month is too short, at most three days after its
\* end (manage_fd with time.AddDate and the SMALLINT column).
THEOREM MaturesOnTimeAlways == Spec => []MaturesOnTime
<1> DEFINE Inv == IInv /\ MaturesOnTime
<1>1. Init => Inv
  <2> SUFFICES ASSUME Init PROVE Inv
    OBVIOUS
  <2>1. \A c \in Calls : c \notin Recorded
    BY NamesAssumption DEF Init, Recorded, Ids
  <2> QED BY <2>1, InitInvariant DEF MaturesOnTime
<1>2. Inv /\ [Next]_vars => Inv'
  <2> SUFFICES ASSUME Inv, [Next]_vars PROVE Inv'
    OBVIOUS
  <2>1. IInv'
    BY NextInvariant
  <2>2. ASSUME NEW c \in Calls, c \in Recorded', fd'[c].from # None
        PROVE  OnTime(fd'[c].start, job'[c].tenure, fd'[c].maturity)
    <3>1. CASE c \in Recorded
      <4>1. fd[c].from # None
        BY <2>2, <3>1, TermsKept
      <4>2. OnTime(fd[c].start, job[c].tenure, fd[c].maturity)
        BY <3>1, <4>1 DEF MaturesOnTime, OnTime
      <4> QED BY <3>1, <4>2, TermsKept
    <3>2. CASE c \notin Recorded
      BY <2>2, <3>2, NewTermOnTime
    <3> QED BY <3>1, <3>2
  <2>3. MaturesOnTime'
    BY <2>2 DEF MaturesOnTime, OnTime
  <2> QED BY <2>1, <2>3
<1>3. Inv => MaturesOnTime
  OBVIOUS
<1> QED BY <1>1, <1>2, <1>3, PTL DEF Spec

-----------------------------------------------------------------------------
(* What a term reinvests *)

\* A recorded renewal, the call that asked for it, and the deposit it renews.
Reinvests(s) ==
    LET i == fd[s].from IN
    /\ s \in Calls /\ job[s] \in RenewJob /\ job[s].id = i
    /\ fd[i].renewal # "principal_only" => fd[s].principal = job[s].amount
    /\ OtherCalls(s, i) = {} => fd[i].status = "renewed" /\ fd[i].actual = job[s].amount
TermsReinvest == \A s \in Recorded : fd[s].from # None => Reinvests(s)

\* Only a call about to mark or to commit a renewal changes a recorded deposit, and
\* it marks it.
LEMMA RowMarked ==
    ASSUME IInv, [Next]_vars, NEW k \in Recorded, fd'[k] # fd[k]
    PROVE  \E o \in Calls : /\ pc[o] \in Rowless
                            /\ job[o] # None /\ job[o].op # "create" /\ job[o].id = k
                            /\ \E v, a : fd'[k] = Marked(fd[k], v, a)
<1>1. fd \in [Ids -> Deposit \union {None}] /\ k \in Ids /\ fd[k] # None
  BY DEF Recorded, IInv, TypeOK
<1>2. PICK o \in Calls : UpdateStatus(o) \/ Commit(o)
  BY DEF Next, Step, Settled, vars, Receive, Get, MarkRenewed, InsertDeposit, Break
<1>3. pc[o] \in Rowless
  BY <1>2 DEF UpdateStatus, Commit, Rowless
<1>4. CASE UpdateStatus(o)
  <2>1. job[o] \in MarkJob /\ fd' = [fd EXCEPT ![job[o].id] = Marked(@, job[o].status, job[o].amount)]
    BY <1>4 DEF UpdateStatus, IInv, CallsReady
  <2>2. job[o].op # "create" /\ job[o] # None
    BY <2>1, NoneAssumption DEF MarkJob, Job
  <2>3. job[o].id = k /\ fd'[k] = Marked(fd[k], job[o].status, job[o].amount)
    BY <1>1, <2>1
  <2> QED BY <1>3, <2>2, <2>3
<1>5. CASE Commit(o) /\ job[o] \in CreateJob
  <2>1. fd' = [fd EXCEPT ![o] = Created(o)] /\ fd[o] = None
    BY <1>5 DEF Commit, CreateJob, IInv, CallsReady, Rowless
  <2> QED BY <1>1, <2>1
<1>6. CASE Commit(o) /\ job[o] \in RenewJob
  <2>1. /\ fd' = [fd EXCEPT ![job[o].id] = Marked(@, "renewed", job[o].amount), ![o] = Successor(o)]
        /\ fd[o] = None
    BY <1>6 DEF Commit, Renewed, RenewJob, IInv, CallsReady, Rowless
  <2>2. job[o].op # "create" /\ job[o] # None
    BY <1>6, NoneAssumption DEF RenewJob, Job
  <2>3. job[o].id = k /\ fd'[k] = Marked(fd[k], "renewed", job[o].amount)
    BY <1>1, <2>1
  <2> QED BY <1>3, <2>2, <2>3
<1> QED BY <1>2, <1>4, <1>5, <1>6 DEF Commit, IInv, CallsReady

LEMMA ColumnsKept ==
    ASSUME IInv, [Next]_vars, NEW k \in Recorded
    PROVE  /\ fd'[k].from = fd[k].from /\ fd'[k].principal = fd[k].principal
           /\ fd'[k].renewal = fd[k].renewal
BY RowMarked, MarkedFields

\* A recorded renewal keeps what it reinvests, and its predecessor what it was marked
\* with, unless another call marks it.
LEMMA ReinvestsKept ==
    ASSUME IInv, [Next]_vars, NEW s \in Calls, s \in Recorded, fd[s].from # None, Reinvests(s)
    PROVE  Reinvests(s)'
<1> DEFINE i == fd[s].from
<1>1. /\ fd \in [Ids -> Deposit \union {None}] /\ job \in [Calls -> Job \union {None}]
      /\ i \in Recorded /\ i \in Ids /\ s \in Ids /\ pc[s] \notin Rowless
  BY DEF Recorded, IInv, TypeOK, CallsReady, TermEnds
<1>2. /\ \A o \in Calls : job[o] # None => job'[o] = job[o]
      /\ job[s] \in RenewJob /\ job'[s] = job[s]
  <2>1. job[s] \in RenewJob /\ job[s] # None
    BY NoneAssumption DEF Reinvests, Job
  <2>2. \A o \in Calls : pc[o] = "idle" => job[o] = None
    BY DEF IInv, CallsReady
  <2>3. \A o \in Calls : job[o] # None => job'[o] = job[o]
    BY <1>1, <2>2
    DEF Next, Step, Settled, vars, Receive, UpdateStatus, Get, MarkRenewed, InsertDeposit,
        Commit, Break
  <2> QED BY <2>1, <2>3
<1>3. OtherCalls(s, i) \subseteq {c \in Calls \ {s} : job'[c] # None /\ job'[c].op # "create" /\ job'[c].id = i}
  BY <1>2 DEF OtherCalls
<1>5. fd'[s].from = i /\ fd'[s].principal = fd[s].principal /\ fd'[i].renewal = fd[i].renewal
  BY <1>1, ColumnsKept
<1>7. OtherCalls(s, i) = {} => fd'[i] = fd[i]
  BY <1>1, RowMarked DEF OtherCalls
<1> QED BY <1>2, <1>3, <1>5, <1>7 DEF Reinvests, OtherCalls

\* The step that records a renewal.
LEMMA NewTermReinvests ==
    ASSUME IInv, [Next]_vars, NEW s \in Recorded', s \notin Recorded, fd'[s].from # None
    PROVE  Reinvests(s)'
<1>1. s \in Ids /\ fd \in [Ids -> Deposit \union {None}] /\ fd[s] = None /\ fd'[s] # None
  BY DEF Recorded, IInv, TypeOK, Ids
<1>2. PICK o \in Calls : UpdateStatus(o) \/ Commit(o)
  BY <1>1 DEF Next, Step, Settled, vars, Receive, Get, MarkRenewed, InsertDeposit, Break
<1>3. ~UpdateStatus(o)
  <2> SUFFICES ASSUME UpdateStatus(o) PROVE FALSE
    OBVIOUS
  <2>1. job[o].id \in Recorded
    BY DEF UpdateStatus, IInv, CallsReady
  <2>2. fd'[s] = fd[s]
    BY <1>1, <2>1 DEF UpdateStatus, Recorded
  <2> QED BY <1>1, <2>2
<1>4. Commit(o) /\ job' = job
  BY <1>2, <1>3 DEF Commit
<1>5. CASE job[o] \in CreateJob
  <2>1. fd' = [fd EXCEPT ![o] = Created(o)]
    BY <1>4, <1>5 DEF Commit, CreateJob
  <2>2. fd'[s] = Created(o)
    BY <1>1, <2>1
  <2> QED BY <2>2 DEF Created
<1>6. CASE job[o] \in RenewJob /\ job[o].id \in Recorded
  <2> DEFINE i == job[o].id
  <2>1. fd' = [fd EXCEPT ![i] = Marked(@, "renewed", job[o].amount), ![o] = Successor(o)]
    BY <1>4, <1>6 DEF Commit, Renewed, RenewJob
  <2>2. s # i /\ i \in Ids
    BY <1>1, <1>6 DEF Recorded
  <2>3. s = o /\ fd'[s] = Successor(s) /\ fd'[i] = Marked(fd[i], "renewed", job[s].amount)
    BY <1>1, <2>1, <2>2
  <2>4. old[s].renewal = fd[i].renewal
    BY <1>4, <1>6, <2>3 DEF Commit, IInv, ReadsHold, Renewing, RenewJob
  <2>5. /\ fd'[s].from = i
        /\ old[s].renewal # "principal_only" => fd'[s].principal = job[s].amount
    BY <2>3 DEF Successor
  <2>6. /\ fd'[i].status = "renewed" /\ fd'[i].actual = job[s].amount
        /\ fd'[i].renewal = fd[i].renewal
    BY <2>3 DEF Marked
  <2> QED BY <1>4, <1>6, <2>3, <2>4, <2>5, <2>6 DEF Reinvests
<1> QED BY <1>4, <1>5, <1>6 DEF Commit, IInv, CallsReady

\* Whatever renews or marks the same deposit between its read and its commit: a term
\* starts where the one it renews ends, reinvests the principal or the payout as the
\* renewal type says, and leaves no active predecessor (ManageFD.renew, FDStore.RenewFD).
THEOREM TermFollowsAlways == Spec => []TermFollows
<1> DEFINE Inv == IInv /\ TermsReinvest
<1>1. Init => Inv
  BY InitInvariant, ExistingAssumption DEF Init, TermsReinvest, Recorded
<1>2. Inv /\ [Next]_vars => Inv'
  <2> SUFFICES ASSUME Inv, [Next]_vars PROVE Inv'
    OBVIOUS
  <2>1. IInv'
    BY NextInvariant
  <2>2. ASSUME NEW s \in Recorded', fd'[s].from # None PROVE Reinvests(s)'
    <3>1. CASE s \in Recorded
      <4>1. fd[s].from # None
        BY <2>2, <3>1, ColumnsKept
      <4> QED BY <3>1, <4>1, ReinvestsKept DEF TermsReinvest, Reinvests
    <3>2. CASE s \notin Recorded
      BY <2>2, <3>2, NewTermReinvests
    <3> QED BY <3>1, <3>2
  <2>3. TermsReinvest'
    BY <2>2 DEF TermsReinvest
  <2> QED BY <2>1, <2>3
<1>3. Inv => TermFollows
  BY DEF IInv, TermEnds, TermJoins, TermsReinvest, Reinvests, TermFollows
<1> QED BY <1>1, <1>2, <1>3, PTL DEF Spec

=============================================================================
