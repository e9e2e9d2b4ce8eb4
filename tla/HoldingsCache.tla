--------------------------- MODULE HoldingsCache ----------------------------
(***************************************************************************)
(* ZerodhaService: broker holdings of one user cached in two tables, synced *)
(* when a query finds the equity table old, or by force.  Each request is   *)
(* a tool call in some process (server, Matrix bot, command line).          *)
(*                                                                         *)
(* Holdings are replaced in a transaction at READ COMMITTED, modelled with  *)
(* its locks: a DELETE chooses its rows when it starts, waits for open      *)
(* transactions that are deleting them, and skips those that are gone; an   *)
(* INSERT waits for open transactions that touch the same holding, and      *)
(* fails if it is there in the end.  The inserts of one transaction are one *)
(* action: interleaved with those of another they deadlock or collide, and  *)
(* the loser is rolled back in either case.                                 *)
(*                                                                         *)
(* The clock is coarse: no transaction is open while it ticks.              *)
(***************************************************************************)
EXTENDS Integers, FiniteSets

CONSTANTS
    Requests,
    Symbols,      \* holdings, by what is unique in a table
    Portfolios,   \* what the broker may answer: sets of symbols
    Jobs,         \* subset of {"equity", "funds", "force"}: requests made
    TTL,          \* holdingsCacheTTL, in ticks
    FirstUse,     \* the user has no brokerage account yet
    TokenExpires, \* logins and expiries of the token are modelled
    MaxTime,      \* bound: ticks of the clock
    MaxFaults     \* bound: failing statements, failing calls, dying processes

ASSUME PortfoliosAssumption == Portfolios \subseteq SUBSET Symbols
ASSUME JobsAssumption == Jobs \subseteq {"equity", "funds", "force"}
ASSUME SettingAssumption == FirstUse \in BOOLEAN /\ TokenExpires \in BOOLEAN
ASSUME BoundsAssumption == TTL \in Nat \ {0} /\ MaxTime \in Nat /\ MaxFaults \in Nat

Tables == {"equity", "funds"}

VARIABLES
    token,      \* the access token is valid
    account,    \* the brokerage account: absent, without a member, or owned
    table,      \* committed rows of each table
    balance,    \* the rows that the account balance totals
    now, faults,
    job, pc,
    part,       \* the table the request is replacing or totalling
    fetched,    \* what the broker answered
    seen,       \* rows chosen by the DELETE of the request
    deleted, added,  \* changes of its open transaction
    totals,     \* the summaries it has read
    checked,    \* history: when it compared synced_at with the clock
    answer,
    raced,      \* history: tables that two transactions were replacing at once
    crossed     \* history: tables replaced between another's total and its update

db == <<table, balance, account>>
tx == <<seen, deleted, added, raced, crossed>>
held == <<fetched, totals, checked, answer>>
vars == <<token, db, now, faults, job, pc, part, tx, held>>

Row == [symbol : Symbols, by : Requests, at : 0..MaxTime]
Open == {"lock", "insert", "commit"}
Syncing == Open \union {"fetch", "delete", "total", "balance"}
Active == Syncing \union {"account", "create", "member", "fresh", "read"}
Ended == {"done", "failed", "noaccount"}

Init ==
    /\ token = TRUE /\ now = 0 /\ faults = 0
    /\ account = IF FirstUse THEN "none" ELSE "owned"
    /\ table = [t \in Tables |-> {}] /\ balance = [t \in Tables |-> {}]
    /\ job \in [Requests -> Jobs]
    /\ pc = [r \in Requests |-> "idle"]
    /\ part = [r \in Requests |-> "equity"]
    /\ fetched = [r \in Requests |-> [t \in Tables |-> {}]]
    /\ totals = [r \in Requests |-> [t \in Tables |-> {}]]
    /\ seen = [r \in Requests |-> {}]
    /\ deleted = [r \in Requests |-> {}]
    /\ added = [r \in Requests |-> {}]
    /\ answer = [r \in Requests |-> {}]
    /\ checked = [r \in Requests |-> 0]
    /\ raced = {} /\ crossed = {}

Goto(r, l) == pc' = [pc EXCEPT ![r] = l]
Fault == faults < MaxFaults /\ faults' = faults + 1

-----------------------------------------------------------------------------
LoadToken(r) ==
    /\ pc[r] = "idle" /\ Goto(r, IF token THEN "account" ELSE "failed")
    /\ UNCHANGED <<token, db, now, faults, job, part, tx, held>>

WithAccount(r) == IF job[r] = "force" THEN "fetch" ELSE "fresh"

\* FindOrCreateZerodhaAccount: an account is found through its member.
FindAccount(r) ==
    /\ pc[r] = "account"
    /\ Goto(r, IF account = "owned" THEN WithAccount(r) ELSE "create")
    /\ UNCHANGED <<token, db, now, faults, job, part, tx, held>>

\* Unique by institution and client, member or not.
CreateAccount(r) ==
    /\ pc[r] = "create"
    /\ \/ account = "none" /\ account' = "orphan" /\ Goto(r, "member")
       \/ account # "none" /\ UNCHANGED account /\ Goto(r, "noaccount")
    /\ UNCHANGED <<token, table, balance, now, faults, job, part, tx, held>>

AddMember(r) ==
    /\ pc[r] = "member" /\ Goto(r, WithAccount(r))
    /\ account' = "owned"
    /\ UNCHANGED <<token, table, balance, now, faults, job, part, tx, held>>

-----------------------------------------------------------------------------
\* MAX(synced_at) of the equity table alone; no rows, or an error, is long ago.
Fresh_Inclusive == \E x \in table["equity"] : now - x.at <= TTL
Fresh == \E x \in table["equity"] : now - x.at < TTL

EnsureFresh(r) ==
    /\ pc[r] = "fresh"
    /\ checked' = [checked EXCEPT ![r] = now]
    /\ \/ Goto(r, IF Fresh THEN "read" ELSE "fetch") /\ UNCHANGED faults
       \/ Fault /\ Goto(r, "fetch")
    /\ UNCHANGED <<token, db, now, job, part, tx, fetched, totals, answer>>

\* The broker answers with the portfolio of the moment.
Fetch(r) ==
    /\ pc[r] = "fetch"
    /\ \/ /\ token /\ Goto(r, "delete")
          /\ \E p \in Portfolios : fetched' = [fetched EXCEPT ![r][part[r]] = p]
       \/ ~token /\ Goto(r, "failed") /\ UNCHANGED fetched
    /\ UNCHANGED <<token, db, now, faults, job, part, tx, totals, checked, answer>>

\* Other transactions that are replacing the same table.
Rivals(r) == {o \in Requests \ {r} : pc[o] \in Open /\ part[o] = part[r]}

StartDelete(r) ==
    /\ pc[r] = "delete" /\ Goto(r, "lock")
    /\ seen' = [seen EXCEPT ![r] = table[part[r]]]
    /\ raced' = IF Rivals(r) = {} THEN raced ELSE raced \union {part[r]}
    /\ UNCHANGED <<token, db, now, faults, job, part, deleted, added, crossed, held>>

\* WHERE account_id = @account_id.
Victims_Refetched(r) ==
    {x \in seen[r] \intersect table[part[r]] : x.symbol \in fetched[r][part[r]]}
Victims(r) == seen[r] \intersect table[part[r]]

Delete(r) ==
    /\ pc[r] = "lock"
    /\ \A o \in Rivals(r) : deleted[o] \intersect seen[r] = {}
    /\ deleted' = [deleted EXCEPT ![r] = Victims(r)]
    /\ Goto(r, "insert")
    /\ UNCHANGED <<token, db, now, faults, job, part, seen, added, raced, crossed, held>>

SymbolsOf(rows) == {x.symbol : x \in rows}

\* synced_at is NOW(): the time the transaction began.
NewRows(r) == [symbol : fetched[r][part[r]], by : {r}, at : {now}]

\* UNIQUE (account_id, tradingsymbol, exchange).
Taken_Unchecked(r) == {}
Taken(r) == SymbolsOf(table[part[r]] \ deleted[r])

\* The deferred Rollback: nothing of the transaction is left, its locks included.
Kept_Locked(changes, r) == changes
Kept(changes, r) == [changes EXCEPT ![r] = {}]
EndTransaction(r) ==
    /\ seen' = [seen EXCEPT ![r] = {}]
    /\ deleted' = Kept(deleted, r)
    /\ added' = Kept(added, r)

Insert(r) ==
    LET wanted == fetched[r][part[r]] IN
    /\ pc[r] = "insert"
    /\ \A o \in Rivals(r) :
          SymbolsOf(added[o] \union deleted[o]) \intersect wanted = {}
    /\ \/ /\ wanted \intersect Taken(r) = {}
          /\ added' = [added EXCEPT ![r] = NewRows(r)]
          /\ Goto(r, "commit")
          /\ UNCHANGED <<seen, deleted>>
       \/ /\ wanted \intersect Taken(r) # {}
          /\ Goto(r, "failed") /\ EndTransaction(r)
    /\ UNCHANGED <<token, db, now, faults, job, part, raced, crossed, held>>

\* It has read the total of the table and not yet written it.
Totalled(o, t) == pc[o] = "balance" \/ (pc[o] = "total" /\ t = "equity" /\ part[o] = "funds")

\* doSync replaces the equity holdings, then the funds.
Commit(r) ==
    /\ pc[r] = "commit"
    /\ crossed' = IF \E o \in Requests : Totalled(o, part[r])
                  THEN crossed \union {part[r]} ELSE crossed
    /\ table' = [table EXCEPT ![part[r]] = (@ \ deleted[r]) \union added[r]]
    /\ EndTransaction(r)
    /\ \/ /\ UNCHANGED faults
          /\ \/ part[r] = "equity" /\ part' = [part EXCEPT ![r] = "funds"] /\ Goto(r, "fetch")
             \/ part[r] = "funds" /\ part' = [part EXCEPT ![r] = "equity"] /\ Goto(r, "total")
       \/ Fault /\ Goto(r, "failed") /\ UNCHANGED part   \* the reply is lost
    /\ UNCHANGED <<token, balance, account, now, job, raced, held>>

-----------------------------------------------------------------------------
Summary_Fetched(r) == NewRows(r)
Summary(r) == table[part[r]]

\* The balance: two summaries and an update, their errors ignored.
Total(r) ==
    /\ pc[r] = "total"
    /\ \/ /\ totals' = [totals EXCEPT ![r][part[r]] = Summary(r)]
          /\ UNCHANGED faults
       \/ Fault /\ totals' = [totals EXCEPT ![r][part[r]] = {}]
    /\ \/ part[r] = "equity" /\ part' = [part EXCEPT ![r] = "funds"] /\ UNCHANGED pc
       \/ part[r] = "funds" /\ UNCHANGED part /\ Goto(r, "balance")
    /\ UNCHANGED <<token, db, now, job, tx, fetched, checked, answer>>

\* The date is today's, so that the guard on balance_as_of holds.
UpdateAccountBalance(r) ==
    /\ pc[r] = "balance"
    /\ \/ balance' = totals[r] /\ UNCHANGED faults
       \/ Fault /\ balance' \in {balance, totals[r]}
    /\ Goto(r, IF job[r] = "force" THEN "done" ELSE "read")
    /\ totals' = [totals EXCEPT ![r] = [t \in Tables |-> {}]]
    /\ UNCHANGED <<token, table, account, now, job, part, tx, fetched, checked, answer>>

Read(r) ==
    /\ pc[r] = "read" /\ Goto(r, "done")
    /\ answer' = [answer EXCEPT ![r] = table[job[r]]]
    /\ UNCHANGED <<token, db, now, faults, job, part, tx, fetched, totals, checked>>

-----------------------------------------------------------------------------
\* An error that ends the request, or the end of its process.
Break(r) ==
    /\ pc[r] \in Active /\ Fault /\ Goto(r, "failed")
    /\ EndTransaction(r)
    /\ UNCHANGED <<token, db, now, job, part, raced, crossed, held>>

\* UpsertToken after a login; the token expires at midnight.
ChangeToken ==
    /\ TokenExpires /\ token' = ~token
    /\ UNCHANGED <<db, now, faults, job, pc, part, tx, held>>

Tick ==
    /\ now < MaxTime /\ now' = now + 1
    /\ \A r \in Requests : pc[r] \notin Open
    /\ UNCHANGED <<token, db, faults, job, pc, part, tx, held>>

Settled == (\A r \in Requests : pc[r] \in Ended) /\ UNCHANGED vars

Step(r) ==
    \/ FindAccount(r) \/ CreateAccount(r) \/ AddMember(r)
    \/ EnsureFresh(r) \/ Fetch(r)
    \/ StartDelete(r) \/ Delete(r) \/ Insert(r) \/ Commit(r)
    \/ Total(r) \/ UpdateAccountBalance(r) \/ Read(r)

Next ==
    \/ \E r \in Requests : LoadToken(r) \/ Step(r) \/ Break(r)
    \/ ChangeToken \/ Tick \/ Settled

\* Calls return, and PostgreSQL wakes those who wait for a lock.
Fairness == \A r \in Requests : WF_vars(Step(r))

Spec == Init /\ [][Next]_vars
FairSpec == Spec /\ Fairness

-----------------------------------------------------------------------------
TypeOK ==
    /\ token \in BOOLEAN /\ account \in {"none", "orphan", "owned"}
    /\ table \in [Tables -> SUBSET Row] /\ balance \in [Tables -> SUBSET Row]
    /\ now \in 0..MaxTime /\ faults \in 0..MaxFaults
    /\ job \in [Requests -> Jobs]
    /\ pc \in [Requests -> {"idle"} \union Active \union Ended]
    /\ part \in [Requests -> Tables]
    /\ fetched \in [Requests -> [Tables -> SUBSET Symbols]]
    /\ totals \in [Requests -> [Tables -> SUBSET Row]]
    /\ seen \in [Requests -> SUBSET Row] /\ deleted \in [Requests -> SUBSET Row]
    /\ added \in [Requests -> SUBSET Row] /\ answer \in [Requests -> SUBSET Row]
    /\ checked \in [Requests -> 0..MaxTime]
    /\ raced \subseteq Tables /\ crossed \subseteq Tables

\* The holdings that one sync fetched for a table are there together or not at
\* all: no other sync, failure or crash takes some of them away.
SyncsWhole ==
    \A t \in Tables, r \in Requests :
        LET mine == {x \in table[t] : x.by = r} IN
        mine = {} \/ SymbolsOf(mine) = fetched[r][t]

\* A table holds the answers of two different fetches only if two transactions
\* were replacing it at the same time.
MixOnlyInRaces ==
    \A t \in Tables \ raced : \A x, y \in table[t] : x.by = y.by

\* Whenever nobody is syncing, the account balance totals the holdings that are there,
\* unless a sync broke off or another one replaced them between the total and its
\* update: nothing else makes the net worth disagree with the portfolio.
BalanceOfHoldings ==
    faults = 0 /\ (\A r \in Requests : pc[r] \notin Syncing \union {"failed"}) =>
        \A t \in Tables \ crossed : balance[t] = table[t]

\* The equity holdings that a query answers with were not older than the TTL when
\* it looked, whatever was half synced, mixed or rolled back before.
EquityFresh ==
    \A r \in Requests : pc[r] = "done" /\ job[r] = "equity" =>
        \A x \in answer[r] : checked[r] - x.at < TTL

\* Every request ends: no transaction waits for ever for the locks of another.
EveryRequestEnds == \A r \in Requests : pc[r] \in Active ~> pc[r] \in Ended

=============================================================================
