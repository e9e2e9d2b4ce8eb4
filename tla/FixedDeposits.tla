--------------------------- MODULE FixedDeposits ----------------------------
(***************************************************************************)
(* Fixed deposits of one user: manage_fd and POST /api/fd over FDStore.     *)
(* A call is one invocation; a retry of the LLM or of a client is another   *)
(* call with the same arguments.  A deposit is named by the call that       *)
(* records it, and has an account of its own, created with it in one        *)
(* transaction and identified with it here: of the account only the unique  *)
(* number matters.  One institution.                                       *)
(*                                                                         *)
(* Renewal reads the deposit, then opens a transaction: mark, insert,       *)
(* commit.  A marked row is locked until the transaction ends.              *)
(***************************************************************************)
EXTENDS Integers, FiniteSets

CONSTANTS
    Calls,
    Existing,   \* a function: deposits recorded before, by name
    None,       \* no number, no predecessor, no deposit
    Numbers,    \* bank FD numbers
    Amounts, Tenures, Dates,  \* arguments of calls
    Ops,        \* subset of {"create", "mark", "renew"}
    MaxFaults   \* bound: failing statements, lost replies, dying processes

Ids == Calls \union DOMAIN Existing

\* A date is a day of a month; months are counted from some January.
Date == [month : Nat, day : 1..31]

ASSUME NamesAssumption ==
    /\ None \notin Ids /\ None \notin Numbers
    /\ Calls \intersect DOMAIN Existing = {}
ASSUME ArgumentsAssumption ==
    /\ Amounts \subseteq Nat /\ Tenures \subseteq Nat \ {0}
    /\ Dates \subseteq Date
    /\ Ops \subseteq {"create", "mark", "renew"}
ASSUME FaultsAssumption == MaxFaults \in Nat

VARIABLES fd, pc, job, old, faults

vars == <<fd, pc, job, old, faults>>

-----------------------------------------------------------------------------
MonthLength(m) == <<31, 28, 31, 30, 31, 30, 31, 31, 30, 31, 30, 31>>[(m % 12) + 1]

\* time.AddDate(0, n, 0): a day that the month does not have is in the next one.
AddMonths_SameMonth(d, n) == [month |-> d.month, day |-> d.day]
AddMonths(d, n) ==
    LET m == d.month + n  length == MonthLength(m) IN
    IF d.day <= length THEN [month |-> m, day |-> d.day]
    ELSE [month |-> m + 1, day |-> d.day - length]

\* The SMALLINT column.
Half == 32768
Short == (-Half)..(Half - 1)
Int16(n) == ((n + Half) % (2 * Half)) - Half

-----------------------------------------------------------------------------
Status == {"active", "matured", "prematurely_closed", "renewed"}
Renewal == {"none", "principal_only", "principal_and_interest"}

Deposit == [number : Numbers \union {None}, principal : Nat, tenure : Short,
            start : Date, maturity : Date, renewal : Renewal,
            status : Status, actual : Nat, from : Ids \union {None}]

\* Arguments that pass validation.  An amount is required to create and to renew,
\* and not to mark.
MarkAmounts == Amounts \union {0}
CreateJob == [op : {"create"}, number : Numbers \union {None}, amount : Amounts,
              tenure : Tenures, start : Dates, maturity : Dates, renewal : Renewal]
MarkJob == [op : {"mark"}, id : Ids, amount : MarkAmounts,
            status : {"matured", "prematurely_closed"}]
RenewJob == [op : {"renew"}, id : Ids, number : Numbers \union {None},
             amount : Amounts, tenure : Tenures]
Job == CreateJob \union MarkJob \union RenewJob

ASSUME NoneAssumption == None \notin Deposit /\ None \notin Job

\* fdExternalID: without a number of the bank the account gets a fresh one.
Same(n, m) == n # None /\ n = m

ASSUME ExistingAssumption ==
    /\ Existing \in [DOMAIN Existing -> Deposit]
    /\ \A i \in DOMAIN Existing : Existing[i].status = "active" /\ Existing[i].from = None
    /\ \A i, k \in DOMAIN Existing : Same(Existing[i].number, Existing[k].number) => i = k

Recorded == {i \in Ids : fd[i] # None}

Init ==
    /\ fd = [i \in Ids |-> IF i \in DOMAIN Existing THEN Existing[i] ELSE None]
    /\ pc = [c \in Calls |-> "idle"]
    /\ job = [c \in Calls |-> None]
    /\ old = [c \in Calls |-> None]
    /\ faults = 0

Goto(c, l) == pc' = [pc EXCEPT ![c] = l]
Fault == faults < MaxFaults /\ faults' = faults + 1

\* A deposit is known to the caller when it is recorded.
Receive(c) ==
    /\ pc[c] = "idle"
    /\ \E j \in {x \in Job : x.op \in Ops} :
          /\ job' = [job EXCEPT ![c] = j]
          /\ \/ j.op = "create" /\ Goto(c, "insert")
             \/ j.op = "mark" /\ j.id \in Recorded /\ Goto(c, "status")
             \/ j.op = "renew" /\ j.id \in Recorded /\ Goto(c, "get")
    /\ UNCHANGED <<fd, old, faults>>

-----------------------------------------------------------------------------
\* Renewals that hold the lock of deposit i.
Locking(i) ==
    {c \in Calls : pc[c] \in {"insert", "commit"} /\ job[c].op = "renew" /\ job[c].id = i}

\* UpdateFixedDepositStatus: whatever the status was.
Marked(d, status, payout) ==
    [number |-> d.number, principal |-> d.principal, tenure |-> d.tenure,
     start |-> d.start, maturity |-> d.maturity, renewal |-> d.renewal,
     status |-> status, actual |-> payout, from |-> d.from]

\* UpdateStatus: one statement.
UpdateStatus(c) ==
    LET j == job[c] IN
    /\ pc[c] = "status" /\ Locking(j.id) = {}
    /\ fd' = [fd EXCEPT ![j.id] = Marked(@, j.status, j.amount)]
    /\ \/ Goto(c, "done") /\ UNCHANGED faults
       \/ Goto(c, "failed") /\ Fault
    /\ UNCHANGED <<job, old>>

\* Renewal reads the deposit before its transaction.
Get(c) ==
    /\ pc[c] = "get" /\ Goto(c, "mark")
    /\ old' = [old EXCEPT ![c] = fd[job[c].id]]
    /\ UNCHANGED <<fd, job, faults>>

\* UPDATE in the transaction: its effect is seen when it commits.
MarkRenewed(c) ==
    /\ pc[c] = "mark" /\ Locking(job[c].id) = {} /\ Goto(c, "insert")
    /\ UNCHANGED <<fd, job, old, faults>>

Taken_Unchecked(n) == FALSE
Taken(n) == \E i \in Recorded : Same(n, fd[i].number)

\* CreateAccount, AddAccountMember, CreateFixedDeposit: the first waits for an
\* open transaction with the same number, and fails if that number exists.
InsertDeposit(c) ==
    LET n == job[c].number IN
    /\ pc[c] = "insert"
    /\ \A o \in Calls : pc[o] = "commit" => ~Same(n, job[o].number)
    /\ Goto(c, IF Taken(n) THEN "failed" ELSE "commit")
    /\ UNCHANGED <<fd, job, old, faults>>

Created(c) ==
    LET j == job[c] IN
    [number |-> j.number, principal |-> j.amount, tenure |-> Int16(j.tenure),
     start |-> j.start, maturity |-> j.maturity,
     renewal |-> j.renewal, status |-> "active", actual |-> 0, from |-> None]

\* new start = old maturity; the principal depends on the renewal type.
Successor_FullAmount(c) ==
    LET j == job[c]  o == old[c] IN
    [number |-> j.number, principal |-> j.amount, tenure |-> Int16(j.tenure),
     start |-> o.maturity, maturity |-> AddMonths(o.maturity, j.tenure),
     renewal |-> o.renewal, status |-> "active", actual |-> 0, from |-> j.id]
Successor(c) ==
    LET j == job[c]  o == old[c] IN
    [number |-> j.number,
     principal |-> IF o.renewal = "principal_only" THEN o.principal ELSE j.amount,
     tenure |-> Int16(j.tenure),
     start |-> o.maturity, maturity |-> AddMonths(o.maturity, j.tenure),
     renewal |-> o.renewal, status |-> "active", actual |-> 0, from |-> j.id]

Renewed_NotInserted(c) ==
    [fd EXCEPT ![job[c].id] = Marked(@, "renewed", job[c].amount)]
Renewed(c) ==
    [fd EXCEPT ![job[c].id] = Marked(@, "renewed", job[c].amount), ![c] = Successor(c)]

Commit(c) ==
    /\ pc[c] = "commit"
    /\ fd' = IF job[c].op = "renew" THEN Renewed(c) ELSE [fd EXCEPT ![c] = Created(c)]
    /\ \/ Goto(c, "done") /\ UNCHANGED faults
       \/ Goto(c, "failed") /\ Fault   \* the reply is lost
    /\ UNCHANGED <<job, old>>

\* A failing statement or the end of the process: the transaction is rolled back.
Break(c) ==
    /\ pc[c] \in {"get", "status", "mark", "insert", "commit"}
    /\ Goto(c, "failed") /\ Fault
    /\ UNCHANGED <<fd, job, old>>

Settled == (\A c \in Calls : pc[c] \in {"done", "failed"}) /\ UNCHANGED vars

Step(c) ==
    \/ UpdateStatus(c) \/ Get(c) \/ MarkRenewed(c) \/ InsertDeposit(c) \/ Commit(c)

Next == (\E c \in Calls : Receive(c) \/ Step(c) \/ Break(c)) \/ Settled

Spec == Init /\ [][Next]_vars

-----------------------------------------------------------------------------
TypeOK ==
    /\ fd \in [Ids -> Deposit \union {None}]
    /\ pc \in [Calls -> {"idle", "get", "status", "mark", "insert", "commit", "done", "failed"}]
    /\ job \in [Calls -> Job \union {None}]
    /\ old \in [Calls -> Deposit \union {None}]
    /\ faults \in 0..MaxFaults

\* A deposit that shows as renewed has a successor: whatever fails, dies or races
\* between the mark and the insert, the money is not lost from the list.
RenewedHasSuccessor ==
    \A i \in Recorded : fd[i].status = "renewed" => \E s \in Recorded : fd[s].from = i

\* A deposit that has a successor is not active: the list never shows the same
\* money in two terms.
TermEnds ==
    \A s \in Recorded : fd[s].from # None =>
        fd[s].from \in Recorded /\ fd[fd[s].from].status # "active"

\* A number of the bank is recorded once, however often the call that brings it is
\* repeated, answered or not, and whatever else that call does.
NumberOnce ==
    \A i, k \in Recorded : Same(fd[i].number, fd[k].number) => i = k

\* Calls other than s that mark or renew deposit p.
OtherCalls(s, p) ==
    {c \in Calls \ {s} : job[c] # None /\ job[c].op # "create" /\ job[c].id = p}

\* A term follows its predecessor, although that was read before the transaction: it
\* starts where the predecessor ends; it reinvests the principal alone when the
\* renewal type says so, and for the other types what its call says was paid out
\* ("none" too: the code renews such a deposit when asked to); the predecessor is not
\* active any more; and what it shows as paid out is what the successor was told,
\* unless another call has marked or renewed it as well.
TermFollows ==
    \A s \in Recorded : fd[s].from # None =>
        LET p == fd[fd[s].from] IN
        /\ fd[s].start = p.maturity /\ fd[s].renewal = p.renewal
        /\ fd[s].principal =
              IF p.renewal = "principal_only" THEN p.principal ELSE job[s].amount
        /\ p.status # "active"
        /\ OtherCalls(s, fd[s].from) = {} =>
              p.status = "renewed" /\ p.actual = job[s].amount

\* A renewal matures when the months that were asked for have passed since its start,
\* whatever the column made of them: on the same day if that month has it, and
\* otherwise at most three days after its end.
MaturesOnTime ==
    \A c \in Calls \intersect Recorded : fd[c].from # None =>
        LET d == fd[c].start  e == fd[c].maturity  n == job[c].tenure IN
        \/ e = [month |-> d.month + n, day |-> d.day]
        \/ /\ d.day > 28 /\ e.day <= 3
           /\ e.month = d.month + n + 1

=============================================================================
