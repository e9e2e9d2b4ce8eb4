------------------------- MODULE HoldingsCacheProofs -------------------------
(***************************************************************************)
(* Theorems about HoldingsCache, for every set of requests, holdings and   *)
(* portfolios, any age of the cache, and any number of failures.           *)
(***************************************************************************)
EXTENDS HoldingsCache, TLAPS

Replacing(q, t) == pc[q] \in Open /\ part[q] = t

\* The rows that the transaction of a request will have deleted, of those there are.
Doomed(q) == IF pc[q] = "lock" THEN seen[q] ELSE deleted[q]

\* Request r has not stored anything in table t.
NotYet(r, t) ==
    \/ pc[r] \in {"idle", "account", "create", "member", "fresh"}
    \/ pc[r] \in {"fetch", "delete"} \union Open /\ (part[r] = t \/ part[r] = "equity")

\* Rows of a request are nowhere before it commits, ...
Unborn == \A t \in Tables, r \in Requests : NotYet(r, t) =>
    /\ \A x \in table[t] : x.by # r
    /\ \A q \in Requests : Replacing(q, t) => \A x \in Doomed(q) : x.by # r

\* ... are those it has fetched, ...
Complete == \A r \in Requests : pc[r] = "commit" => added[r] = NewRows(r)

\* ... and are deleted together.
Together == \A t \in Tables, q \in Requests : Replacing(q, t) =>
    \A x, y \in table[t] : x.by = y.by => (x \in Doomed(q) <=> y \in Doomed(q))

\* The rows of a table are of one age; those that an open transaction leaves there were
\* committed while it was open.
OneAge == \A t \in Tables :
    /\ \A x, y \in table[t] : x.at = y.at /\ x.at <= now
    /\ \A q \in Requests : Replacing(q, t) => \A x \in table[t] \ Doomed(q) : x.at = now

\* Who replaces a table alone replaces all of it.
Alone == \A t \in Tables \ raced :
    \A q \in Requests : Replacing(q, t) =>
        /\ \A o \in Requests \ {q} : ~Replacing(o, t)
        /\ table[t] \subseteq Doomed(q)

\* The request has seen the equity holdings fresh, or has replaced them.
Replaced(r) ==
    \/ pc[r] \in {"total", "balance", "read"}
    \/ pc[r] \in {"fetch", "delete"} \union Open /\ part[r] = "funds"

FreshSince == \A r \in Requests :
    /\ checked[r] <= now
    /\ Replaced(r) => \A x \in table["equity"] : checked[r] - x.at < TTL

\* A total that is about to be written is that of the table, ...
TotalsCurrent == faults = 0 => \A t \in Tables \ crossed, r \in Requests :
    Totalled(r, t) => totals[r][t] = table[t]

\* The request has replaced table t and not yet written the balance.
Behind(r, t) ==
    \/ pc[r] \in {"total", "balance"}
    \/ t = "equity" /\ part[r] = "funds" /\ pc[r] \in {"fetch", "delete"} \union Open

\* ... and where the balance is not, somebody is about to write it.
BalanceFollows == faults = 0 /\ (\A r \in Requests : pc[r] # "failed") =>
    \A t \in Tables \ crossed : balance[t] = table[t] \/ \E r \in Requests : Behind(r, t)

\* A sync begins with the equity holdings; only queries read.
AtStart == \A r \in Requests :
    /\ pc[r] \in {"idle", "account", "create", "member", "fresh"} => part[r] = "equity"
    /\ pc[r] \in {"fresh", "read"} => job[r] # "force"

IInv == /\ TypeOK /\ AtStart /\ Unborn /\ Complete /\ Together /\ SyncsWhole
        /\ OneAge /\ Alone /\ MixOnlyInRaces /\ FreshSince /\ EquityFresh
        /\ TotalsCurrent /\ BalanceFollows

RequestStep(r) == LoadToken(r) \/ Step(r) \/ Break(r)

-----------------------------------------------------------------------------
(* Types *)

LEMMA Initially == Init => IInv
<1> SUFFICES ASSUME Init PROVE IInv
  OBVIOUS
<1>1. TypeOK
  BY SettingAssumption, BoundsAssumption DEF Init, TypeOK, Tables
<1>2. /\ AtStart /\ Unborn /\ Complete /\ Together /\ SyncsWhole
      /\ OneAge /\ Alone /\ MixOnlyInRaces /\ FreshSince /\ EquityFresh
      /\ TotalsCurrent /\ BalanceFollows
  BY DEF Init, Totalled, TotalsCurrent, BalanceFollows, AtStart, Unborn, Complete, Together, SyncsWhole, OneAge, Alone, MixOnlyInRaces,
         FreshSince, EquityFresh, Replaced, Replacing, Open, Tables
<1> QED BY <1>1, <1>2 DEF IInv

Labels == {"idle"} \union Active \union Ended

LEMMA GotoType ==
    ASSUME TypeOK, NEW r \in Requests, NEW l \in Labels, Goto(r, l)
    PROVE  pc' \in [Requests -> Labels] /\ pc'[r] = l
BY DEF TypeOK, Goto, Labels

LEMMA EndType ==
    ASSUME TypeOK, NEW r \in Requests, EndTransaction(r)
    PROVE  /\ seen' \in [Requests -> SUBSET Row]
           /\ deleted' \in [Requests -> SUBSET Row]
           /\ added' \in [Requests -> SUBSET Row]
BY DEF TypeOK, EndTransaction, Kept

LEMMA StepType ==
    ASSUME TypeOK, AtStart, NEW r \in Requests, RequestStep(r)
    PROVE  TypeOK'
<1> USE BoundsAssumption
    DEF TypeOK, Fault, db, tx, held
<1>0. /\ {"idle", "account", "create", "member", "fresh", "fetch", "delete", "lock", "insert",
          "commit", "total", "balance", "read", "done", "failed", "noaccount"} \subseteq Labels
      /\ WithAccount(r) \in Labels
      /\ part[r] \in Tables
  BY DEF Labels, Active, Syncing, Open, Ended, WithAccount
<1>l. Labels = {"idle"} \union Active \union Ended
  BY DEF Labels
<1>1. CASE LoadToken(r)
  <2>1. pc' \in [Requests -> Labels]
    BY <1>1, <1>0, GotoType DEF LoadToken
  <2> QED BY <1>1, <1>l, <2>1 DEF LoadToken
<1>2. CASE FindAccount(r)
  <2>1. pc' \in [Requests -> Labels]
    BY <1>2, <1>0, GotoType DEF FindAccount
  <2> QED BY <1>2, <1>l, <2>1 DEF FindAccount
<1>3. CASE CreateAccount(r)
  <2>1. pc' \in [Requests -> Labels]
    BY <1>3, <1>0, GotoType DEF CreateAccount
  <2> QED BY <1>3, <1>l, <2>1 DEF CreateAccount
<1>4. CASE AddMember(r)
  <2>1. pc' \in [Requests -> Labels]
    BY <1>4, <1>0, GotoType DEF AddMember
  <2> QED BY <1>4, <1>l, <2>1 DEF AddMember
<1>5. CASE EnsureFresh(r)
  <2>1. pc' \in [Requests -> Labels]
    BY <1>5, <1>0, GotoType DEF EnsureFresh
  <2>2. faults' \in 0..MaxFaults
    BY <1>5 DEF EnsureFresh
  <2>3. checked' \in [Requests -> 0..MaxTime]
    BY <1>5 DEF EnsureFresh
  <2> QED BY <1>5, <1>l, <2>1, <2>2, <2>3 DEF EnsureFresh
<1>6. CASE Fetch(r)
  <2>1. pc' \in [Requests -> Labels]
    BY <1>6, <1>0, GotoType DEF Fetch
  <2>2. fetched' \in [Requests -> [Tables -> SUBSET Symbols]]
    <3>1. CASE UNCHANGED fetched
      BY <3>1
    <3>2. ASSUME NEW p \in Portfolios, fetched' = [fetched EXCEPT ![r][part[r]] = p]
          PROVE  fetched' \in [Requests -> [Tables -> SUBSET Symbols]]
      <4>1. p \in SUBSET Symbols
        BY PortfoliosAssumption
      <4>2. [fetched[r] EXCEPT ![part[r]] = p] \in [Tables -> SUBSET Symbols]
        BY <4>1, <1>0
      <4>3. fetched' = [fetched EXCEPT ![r] = [fetched[r] EXCEPT ![part[r]] = p]]
        BY <3>2
      <4> QED BY <4>2, <4>3
    <3> QED BY <1>6, <3>1, <3>2 DEF Fetch
  <2> QED BY <1>6, <1>l, <2>1, <2>2 DEF Fetch
<1>7. CASE StartDelete(r)
  <2>1. pc' \in [Requests -> Labels]
    BY <1>7, <1>0, GotoType DEF StartDelete
  <2>2. seen' \in [Requests -> SUBSET Row] /\ raced' \subseteq Tables
    BY <1>7, <1>0 DEF StartDelete
  <2> QED BY <1>7, <1>l, <2>1, <2>2 DEF StartDelete
<1>8. CASE Delete(r)
  <2>1. pc' \in [Requests -> Labels]
    BY <1>8, <1>0, GotoType DEF Delete
  <2>2. deleted' \in [Requests -> SUBSET Row]
    BY <1>8, <1>0 DEF Delete, Victims
  <2> QED BY <1>8, <1>l, <2>1, <2>2 DEF Delete
<1>9. CASE Insert(r)
  <2>1. pc' \in [Requests -> Labels]
    BY <1>9, <1>0, GotoType DEF Insert
  <2>2. NewRows(r) \in SUBSET Row
    <3>1. fetched[r][part[r]] \in SUBSET Symbols /\ now \in 0..MaxTime
      BY <1>0
    <3> QED BY <3>1 DEF NewRows, Row
  <2>3. /\ \/ EndTransaction(r)
           \/ /\ UNCHANGED <<seen, deleted>>
              /\ added' = [added EXCEPT ![r] = NewRows(r)]
        /\ UNCHANGED raced
    BY <1>9 DEF Insert
  <2>4. /\ seen' \in [Requests -> SUBSET Row]
        /\ deleted' \in [Requests -> SUBSET Row]
        /\ added' \in [Requests -> SUBSET Row]
    <3>1. CASE EndTransaction(r)
      BY <3>1, EndType
    <3>2. CASE UNCHANGED <<seen, deleted>> /\ added' = [added EXCEPT ![r] = NewRows(r)]
      BY <2>2, <3>2
    <3> QED BY <2>3, <3>1, <3>2
  <2> QED BY <1>9, <1>l, <2>1, <2>4 DEF Insert
<1>10. CASE Commit(r)
  <2>1. pc' \in [Requests -> Labels]
    BY <1>10, <1>0, GotoType DEF Commit
  <2>2. table' \in [Tables -> SUBSET Row]
    BY <1>10, <1>0 DEF Commit
  <2>3. /\ seen' \in [Requests -> SUBSET Row]
        /\ deleted' \in [Requests -> SUBSET Row]
        /\ added' \in [Requests -> SUBSET Row]
    BY <1>10, EndType DEF Commit
  <2>4. part' \in [Requests -> Tables]
    BY <1>10 DEF Commit, Tables
  <2>5. faults' \in 0..MaxFaults
    BY <1>10 DEF Commit
  <2>6. crossed' \subseteq Tables
    BY <1>10, <1>0 DEF Commit
  <2> QED BY <1>10, <1>l, <2>1, <2>2, <2>3, <2>4, <2>5, <2>6 DEF Commit
<1>11. CASE Total(r)
  <2>1. pc' \in [Requests -> Labels]
    BY <1>11, <1>0, <1>l, GotoType DEF Total
  <2>2. ASSUME NEW S \in SUBSET Row, totals' = [totals EXCEPT ![r][part[r]] = S]
        PROVE  totals' \in [Requests -> [Tables -> SUBSET Row]]
    <3>1. [totals[r] EXCEPT ![part[r]] = S] \in [Tables -> SUBSET Row]
      BY <1>0
    <3>2. totals' = [totals EXCEPT ![r] = [totals[r] EXCEPT ![part[r]] = S]]
      BY <2>2
    <3> QED BY <3>1, <3>2
  <2>3. totals' \in [Requests -> [Tables -> SUBSET Row]]
    <3>1. table[part[r]] \in SUBSET Row /\ {} \in SUBSET Row
      BY <1>0
    <3> QED BY <1>11, <2>2, <3>1 DEF Total, Summary
  <2>4. part' \in [Requests -> Tables] /\ faults' \in 0..MaxFaults
    BY <1>11 DEF Total, Tables
  <2> QED BY <1>11, <1>l, <2>1, <2>3, <2>4 DEF Total
<1>12. CASE UpdateAccountBalance(r)
  <2>1. pc' \in [Requests -> Labels]
    BY <1>12, <1>0, GotoType DEF UpdateAccountBalance
  <2>2. balance' \in [Tables -> SUBSET Row] /\ faults' \in 0..MaxFaults
    BY <1>12 DEF UpdateAccountBalance
  <2>3. totals' \in [Requests -> [Tables -> SUBSET Row]]
    BY <1>12 DEF UpdateAccountBalance
  <2> QED BY <1>12, <1>l, <2>1, <2>2, <2>3 DEF UpdateAccountBalance
<1>13. CASE Read(r)
  <2>1. pc' \in [Requests -> Labels]
    BY <1>13, <1>0, GotoType DEF Read
  <2>2. answer' \in [Requests -> SUBSET Row]
    <3>1. job[r] \in Tables
      BY <1>13, JobsAssumption DEF AtStart, Read, Tables
    <3>2. table[job[r]] \in SUBSET Row
      BY <3>1
    <3> QED BY <1>13, <3>2 DEF Read
  <2> QED BY <1>13, <1>l, <2>1, <2>2 DEF Read
<1>14. CASE Break(r)
  <2>1. pc' \in [Requests -> Labels]
    BY <1>14, <1>0, GotoType DEF Break
  <2>2. /\ seen' \in [Requests -> SUBSET Row]
        /\ deleted' \in [Requests -> SUBSET Row]
        /\ added' \in [Requests -> SUBSET Row]
    BY <1>14, EndType DEF Break
  <2> QED BY <1>14, <1>l, <2>1, <2>2 DEF Break
<1> QED BY <1>1, <1>2, <1>3, <1>4, <1>5, <1>6, <1>7, <1>8, <1>9, <1>10, <1>11, <1>12, <1>13, <1>14
        DEF RequestStep, Step

LEMMA StepStart ==
    ASSUME TypeOK, AtStart, NEW r \in Requests, RequestStep(r)
    PROVE  AtStart'
<1> USE DEF TypeOK, AtStart, Goto, db, tx, held, WithAccount
<1>1. CASE LoadToken(r)
  BY <1>1 DEF LoadToken
<1>2. CASE FindAccount(r) \/ CreateAccount(r) \/ AddMember(r)
  BY <1>2 DEF FindAccount, CreateAccount, AddMember
<1>3. CASE EnsureFresh(r)
  BY <1>3 DEF EnsureFresh
<1>8. CASE Fetch(r)
  BY <1>8 DEF Fetch
<1>9. CASE StartDelete(r) \/ Delete(r)
  BY <1>9 DEF StartDelete, Delete
<1>4. CASE Insert(r) \/ Read(r) \/ Break(r)
  BY <1>4 DEF Insert, Read, Break
<1>5. CASE Commit(r)
  BY <1>5 DEF Commit
<1>6. CASE Total(r)
  BY <1>6 DEF Total
<1>7. CASE UpdateAccountBalance(r)
  BY <1>7 DEF UpdateAccountBalance
<1> QED BY <1>1, <1>2, <1>3, <1>4, <1>5, <1>6, <1>7, <1>8, <1>9 DEF RequestStep, Step

-----------------------------------------------------------------------------
(* What a step of a request leaves alone *)

Frame(r) ==
    /\ job' = job /\ now' = now
    /\ \A o \in Requests \ {r} :
          /\ pc'[o] = pc[o] /\ part'[o] = part[o] /\ fetched'[o] = fetched[o]
          /\ seen'[o] = seen[o] /\ deleted'[o] = deleted[o] /\ added'[o] = added[o]
          /\ checked'[o] = checked[o] /\ answer'[o] = answer[o] /\ totals'[o] = totals[o]

LEMMA Frames ==
    ASSUME TypeOK, NEW r \in Requests, RequestStep(r)
    PROVE  Frame(r)
<1> USE DEF TypeOK, Frame, Goto, db, tx, held, EndTransaction, Kept
<1>1. CASE LoadToken(r)
  BY <1>1 DEF LoadToken
<1>2. CASE FindAccount(r) \/ CreateAccount(r) \/ AddMember(r)
  BY <1>2 DEF FindAccount, CreateAccount, AddMember
<1>3. CASE EnsureFresh(r)
  BY <1>3 DEF EnsureFresh
<1>4. CASE Fetch(r)
  BY <1>4 DEF Fetch
<1>5. CASE StartDelete(r)
  BY <1>5 DEF StartDelete
<1>6. CASE Delete(r)
  BY <1>6 DEF Delete
<1>7. CASE Insert(r)
  BY <1>7 DEF Insert
<1>8. CASE Commit(r)
  BY <1>8 DEF Commit
<1>9. CASE Total(r)
  BY <1>9 DEF Total
<1>10. CASE UpdateAccountBalance(r)
  BY <1>10 DEF UpdateAccountBalance
<1>11. CASE Read(r)
  BY <1>11 DEF Read
<1>12. CASE Break(r)
  BY <1>12 DEF Break
<1> QED BY <1>1, <1>2, <1>3, <1>4, <1>5, <1>6, <1>7, <1>8, <1>9, <1>10, <1>11, <1>12 DEF RequestStep, Step

\* Steps that neither begin a transaction nor commit one.
Quiet(r) ==
    /\ table' = table /\ raced' = raced
    /\ \A t \in Tables :
          /\ Replacing(r, t)' =>
                /\ Replacing(r, t)
                /\ \A x \in Doomed(r)' : x \in Doomed(r)
                /\ \A x \in table[t] : x \in Doomed(r)' <=> x \in Doomed(r)
          /\ NotYet(r, t)' => NotYet(r, t)
          /\ fetched'[r][t] = fetched[r][t] \/ NotYet(r, t)

LEMMA Quiets ==
    ASSUME TypeOK, AtStart, NEW r \in Requests, RequestStep(r),
           ~StartDelete(r), ~Commit(r)
    PROVE  Quiet(r)
<1> USE DEF TypeOK, Quiet, Goto, db, tx, held, Replacing, Doomed, NotYet, Open
<1>1. CASE LoadToken(r)
  BY <1>1 DEF LoadToken, AtStart
<1>2. CASE FindAccount(r) \/ CreateAccount(r) \/ AddMember(r)
  BY <1>2 DEF FindAccount, CreateAccount, AddMember, WithAccount, AtStart
<1>3. CASE EnsureFresh(r)
  BY <1>3 DEF EnsureFresh, AtStart
<1>4. CASE Fetch(r)
  <2>1. pc[r] = "fetch" /\ pc'[r] \in {"delete", "failed"}
    BY <1>4 DEF Fetch
  <2>2. part' = part /\ table' = table /\ raced' = raced
    BY <1>4 DEF Fetch
  <2>3. \A t \in Tables : fetched'[r][t] = fetched[r][t] \/ part[r] = t
    BY <1>4 DEF Fetch
  <2> QED BY <2>1, <2>2, <2>3
<1>6. CASE Delete(r)
  BY <1>6 DEF Delete, Victims
<1>7. CASE Insert(r)
  <2>1. /\ pc[r] = "insert" /\ pc'[r] \in {"commit", "failed"}
        /\ pc'[r] = "commit" => deleted' = deleted
    BY <1>7 DEF Insert
  <2>2. part' = part /\ table' = table /\ raced' = raced /\ fetched' = fetched
    BY <1>7 DEF Insert
  <2> QED BY <2>1, <2>2
<1>9. CASE Total(r)
  <2>1. pc[r] = "total" /\ pc'[r] \in {"total", "balance"}
    BY <1>9 DEF Total
  <2>2. table' = table /\ raced' = raced /\ fetched' = fetched
    BY <1>9 DEF Total
  <2> QED BY <2>1, <2>2
<1>10. CASE UpdateAccountBalance(r)
  BY <1>10 DEF UpdateAccountBalance
<1>11. CASE Read(r)
  BY <1>11 DEF Read
<1>12. CASE Break(r)
  BY <1>12 DEF Break
<1> QED BY <1>1, <1>2, <1>3, <1>4, <1>6, <1>7, <1>9, <1>10, <1>11, <1>12 DEF RequestStep, Step

-----------------------------------------------------------------------------
(* The tables *)

\* Who replaces what, after a step of r: for the others nothing has changed.
LEMMA OthersKept ==
    ASSUME NEW r \in Requests, Frame(r), NEW q \in Requests \ {r}, NEW t \in Tables
    PROVE  /\ Replacing(q, t)' <=> Replacing(q, t)
           /\ Doomed(q)' = Doomed(q)
           /\ NotYet(q, t)' <=> NotYet(q, t)
           /\ fetched'[q] = fetched[q]
BY DEF Frame, Replacing, Doomed, NotYet

Stored == Unborn /\ Together /\ SyncsWhole /\ OneAge /\ Alone /\ MixOnlyInRaces

LEMMA QuietKeeps ==
    ASSUME TypeOK, Stored, NEW r \in Requests, Frame(r), Quiet(r)
    PROVE  Stored'
<1>0. /\ table' = table /\ raced' = raced /\ now' = now
  BY DEF Frame, Quiet
<1>1. \A t \in Tables, q \in Requests :
        /\ Replacing(q, t)' =>
              /\ Replacing(q, t)
              /\ \A x \in Doomed(q)' : x \in Doomed(q)
              /\ \A x \in table[t] : x \in Doomed(q)' <=> x \in Doomed(q)
        /\ NotYet(q, t)' => NotYet(q, t)
        /\ fetched'[q][t] = fetched[q][t] \/ NotYet(q, t)
  <2> TAKE t \in Tables, q \in Requests
  <2>1. CASE q = r
    BY <2>1 DEF Quiet
  <2>2. CASE q # r
    BY <2>2, OthersKept
  <2> QED BY <2>1, <2>2
<1>2. Unborn'
  BY <1>0, <1>1 DEF Stored, Unborn
<1>3. Together'
  BY <1>0, <1>1 DEF Stored, Together
<1>4. SyncsWhole'
  <2> SUFFICES ASSUME NEW t \in Tables, NEW q \in Requests
               PROVE  LET mine == {x \in table[t] : x.by = q} IN
                      mine = {} \/ SymbolsOf(mine) = fetched'[q][t]
    BY <1>0 DEF SyncsWhole, SymbolsOf
  <2>1. CASE fetched'[q][t] = fetched[q][t]
    BY <2>1 DEF Stored, SyncsWhole
  <2>2. CASE NotYet(q, t)
    BY <2>2 DEF Stored, Unborn
  <2> QED BY <1>1, <2>1, <2>2
<1>5. OneAge'
  BY <1>0, <1>1 DEF Stored, OneAge
<1>6. Alone'
  BY <1>0, <1>1 DEF Stored, Alone
<1>7. MixOnlyInRaces'
  BY <1>0 DEF Stored, MixOnlyInRaces
<1> QED BY <1>2, <1>3, <1>4, <1>5, <1>6, <1>7 DEF Stored

LEMMA StartDeleteKeeps ==
    ASSUME TypeOK, Stored, NEW r \in Requests, Frame(r), StartDelete(r)
    PROVE  Stored'
<1> DEFINE p == part[r]
<1>0. /\ table' = table /\ now' = now /\ fetched' = fetched
      /\ raced' = IF Rivals(r) = {} THEN raced ELSE raced \union {p}
      /\ p \in Tables /\ part'[r] = p
      /\ pc[r] = "delete" /\ pc'[r] = "lock" /\ seen'[r] = table[p]
  BY DEF StartDelete, Goto, db, held, TypeOK
<1>1. /\ Doomed(r)' = table[p]
      /\ \A t \in Tables : Replacing(r, t)' <=> t = p
      /\ \A t \in Tables : NotYet(r, t)' <=> NotYet(r, t)
  BY <1>0 DEF Doomed, Replacing, NotYet, Open
<1>2. \A t \in Tables, q \in Requests \ {r} :
        /\ Replacing(q, t)' <=> Replacing(q, t)
        /\ Doomed(q)' = Doomed(q)
        /\ NotYet(q, t)' <=> NotYet(q, t)
  BY OthersKept
<1> HIDE DEF p
<1>3. Unborn'
  <2> SUFFICES ASSUME NEW t \in Tables, NEW o \in Requests, NotYet(o, t)'
               PROVE  /\ \A x \in table[t] : x.by # o
                      /\ \A q \in Requests : Replacing(q, t)' => \A x \in Doomed(q)' : x.by # o
    BY <1>0 DEF Unborn
  <2>1. NotYet(o, t)
    BY <1>1, <1>2
  <2>2. \A x \in table[t] : x.by # o
    BY <2>1 DEF Stored, Unborn
  <2>3. ASSUME NEW q \in Requests, Replacing(q, t)' PROVE \A x \in Doomed(q)' : x.by # o
    <3>1. CASE q = r
      BY <3>1, <2>2, <2>3, <1>1
    <3>2. CASE q # r
      BY <3>2, <2>1, <2>3, <1>2 DEF Stored, Unborn
    <3> QED BY <3>1, <3>2
  <2> QED BY <2>2, <2>3
<1>4. Together'
  <2> SUFFICES ASSUME NEW t \in Tables, NEW q \in Requests, Replacing(q, t)',
                      NEW x \in table[t], NEW y \in table[t], x.by = y.by
               PROVE  x \in Doomed(q)' <=> y \in Doomed(q)'
    BY <1>0 DEF Together
  <2>1. CASE q = r
    BY <2>1, <1>1
  <2>2. CASE q # r
    BY <2>2, <1>2 DEF Stored, Together
  <2> QED BY <2>1, <2>2
<1>5. SyncsWhole'
  BY <1>0 DEF Stored, SyncsWhole, SymbolsOf
<1>6. OneAge'
  <2> SUFFICES ASSUME NEW t \in Tables, NEW q \in Requests, Replacing(q, t)',
                      NEW x \in table[t], x \notin Doomed(q)'
               PROVE  x.at = now
    BY <1>0 DEF Stored, OneAge
  <2>1. CASE q = r
    BY <2>1, <1>1
  <2>2. CASE q # r
    BY <2>2, <1>2 DEF Stored, OneAge
  <2> QED BY <2>1, <2>2
<1>7. Alone'
  <2> SUFFICES ASSUME NEW t \in Tables, t \notin raced',
                      NEW q \in Requests, Replacing(q, t)'
               PROVE  /\ \A o \in Requests \ {q} : ~Replacing(o, t)'
                      /\ \A x \in table[t] : x \in Doomed(q)'
    BY <1>0 DEF Alone
  <2>0. t \notin raced
    BY <1>0
  <2>1. CASE t = p
    <3>1. \A o \in Requests \ {r} : ~Replacing(o, t)
      BY <2>1, <1>0 DEF Rivals, Replacing, p
    <3> QED BY <3>1, <2>1, <1>1, <1>2
  <2>2. CASE t # p
    <3>1. q # r
      BY <2>2, <1>1
    <3> QED BY <3>1, <2>0, <2>2, <1>1, <1>2 DEF Stored, Alone
  <2> QED BY <2>1, <2>2
<1>8. MixOnlyInRaces'
  BY <1>0 DEF Stored, MixOnlyInRaces
<1> QED BY <1>3, <1>4, <1>5, <1>6, <1>7, <1>8 DEF Stored

LEMMA CommitKeeps ==
    ASSUME TypeOK, Stored, Complete, NEW r \in Requests, Frame(r), Commit(r)
    PROVE  Stored'
<1> DEFINE p == part[r]
           new == NewRows(r)
<1>0. /\ now' = now /\ fetched' = fetched /\ raced' = raced
      /\ p \in Tables /\ pc[r] = "commit" /\ now \in Int
      /\ pc'[r] \in {"fetch", "total", "failed"}
      /\ pc'[r] = "fetch" => p = "equity" /\ part'[r] = "funds"
  BY DEF Commit, Goto, held, TypeOK, Tables
<1>1. /\ \A t \in Tables \ {p} : table'[t] = table[t]
      /\ table'[p] = (table[p] \ deleted[r]) \union new
  BY <1>0 DEF Commit, TypeOK, Complete
<1>2. \A x \in new : x.by = r /\ x.at = now
  BY DEF NewRows
<1>3. SymbolsOf(new) = fetched[r][p]
  <2>1. \A s \in fetched[r][p] : [symbol |-> s, by |-> r, at |-> now] \in new
    BY DEF NewRows
  <2>2. \A x \in new : x.symbol \in fetched[r][p]
    BY DEF NewRows
  <2>3. \A s : [symbol |-> s, by |-> r, at |-> now].symbol = s
    OBVIOUS
  <2> HIDE DEF new, p
  <2> QED BY <2>1, <2>2, <2>3 DEF SymbolsOf
<1>4. /\ Replacing(r, p) /\ Doomed(r) = deleted[r] /\ NotYet(r, p)
      /\ \A t \in Tables : ~Replacing(r, t)'
      /\ \A t \in Tables : NotYet(r, t)' => NotYet(r, t) /\ t # p
  BY <1>0 DEF Replacing, Doomed, NotYet, Open
<1>5. \A t \in Tables, q \in Requests \ {r} :
        /\ Replacing(q, t)' <=> Replacing(q, t)
        /\ Doomed(q)' = Doomed(q)
        /\ NotYet(q, t)' <=> NotYet(q, t)
  BY OthersKept
<1>6. \A x \in table[p] : x.by # r
  BY <1>0, <1>4 DEF Stored, Unborn
<1>a. /\ \A x \in table[p] : x \notin deleted[r] => x.at = now
      /\ \A x, y \in table[p] : x.by = y.by => (x \in deleted[r] <=> y \in deleted[r])
  BY <1>0, <1>4 DEF Stored, OneAge, Together
<1> HIDE DEF p, new
<1>7. Unborn'
  <2> SUFFICES ASSUME NEW t \in Tables, NEW o \in Requests, NotYet(o, t)'
               PROVE  /\ \A x \in table'[t] : x.by # o
                      /\ \A q \in Requests : Replacing(q, t)' => \A x \in Doomed(q)' : x.by # o
    BY DEF Unborn
  <2>1. NotYet(o, t) /\ (o = r => t # p)
    BY <1>4, <1>5
  <2>2. \A x \in table'[t] : x.by # o
    <3>1. \A x \in table[t] : x.by # o
      BY <2>1 DEF Stored, Unborn
    <3> QED BY <3>1, <2>1, <1>1, <1>2
  <2>3. ASSUME NEW q \in Requests, Replacing(q, t)' PROVE \A x \in Doomed(q)' : x.by # o
    BY <2>1, <2>3, <1>4, <1>5 DEF Stored, Unborn
  <2> QED BY <2>2, <2>3
<1>8. Together'
  <2> SUFFICES ASSUME NEW t \in Tables, NEW q \in Requests, Replacing(q, t)',
                      NEW x \in table'[t], NEW y \in table'[t], x.by = y.by
               PROVE  x \in Doomed(q)' <=> y \in Doomed(q)'
    BY DEF Together
  <2>1. q # r /\ Replacing(q, t) /\ Doomed(q)' = Doomed(q)
    BY <1>4, <1>5
  <2>2. CASE x \in table[t] /\ y \in table[t]
    BY <2>1, <2>2 DEF Stored, Together
  <2>3. CASE ~(x \in table[t] /\ y \in table[t])
    <3>1. t = p /\ x.by = r /\ y.by = r
      BY <2>3, <1>1, <1>2
    <3>2. \A z \in Doomed(q) : z.by # r
      BY <3>1, <2>1, <1>4 DEF Stored, Unborn
    <3> QED BY <3>1, <3>2, <2>1
  <2> QED BY <2>2, <2>3
<1>9. SyncsWhole'
  <2> SUFFICES ASSUME NEW t \in Tables, NEW q \in Requests
               PROVE  \/ {x \in table'[t] : x.by = q} = {}
                      \/ SymbolsOf({x \in table'[t] : x.by = q}) = fetched[q][t]
    BY <1>0 DEF SyncsWhole, SymbolsOf
  <2>0. \/ {x \in table[t] : x.by = q} = {}
        \/ SymbolsOf({x \in table[t] : x.by = q}) = fetched[q][t]
    BY DEF Stored, SyncsWhole
  <2>1. CASE t # p
    BY <2>0, <2>1, <1>1
  <2>2. CASE t = p /\ q = r
    <3>1. {x \in table'[t] : x.by = q} = new
      BY <2>2, <1>1, <1>2, <1>6
    <3> QED BY <3>1, <2>2, <1>3
  <2>3. CASE t = p /\ q # r
    <3>1. \/ {x \in table'[t] : x.by = q} = {}
          \/ {x \in table'[t] : x.by = q} = {x \in table[t] : x.by = q}
      BY <2>3, <1>1, <1>2, <1>a
    <3> QED BY <3>1, <2>0
  <2> QED BY <2>1, <2>2, <2>3
<1>10. \A x \in table'[p] : x.at = now
  BY <1>1, <1>2, <1>a
<1>11. OneAge'
  <2> SUFFICES ASSUME NEW t \in Tables
               PROVE  /\ \A x, y \in table'[t] : x.at = y.at /\ x.at <= now
                      /\ \A q \in Requests : Replacing(q, t)' =>
                            \A x \in table'[t] \ Doomed(q)' : x.at = now
    BY <1>0 DEF OneAge
  <2>1. CASE t = p
    BY <2>1, <1>0, <1>10
  <2>2. CASE t # p
    <3>1. table'[t] = table[t]
      BY <2>2, <1>1
    <3> QED BY <3>1, <1>4, <1>5 DEF Stored, OneAge
  <2> QED BY <2>1, <2>2
<1>12. Alone'
  <2> SUFFICES ASSUME NEW t \in Tables, t \notin raced,
                      NEW q \in Requests, Replacing(q, t)'
               PROVE  /\ \A o \in Requests \ {q} : ~Replacing(o, t)'
                      /\ \A x \in table'[t] : x \in Doomed(q)'
    BY <1>0 DEF Alone
  <2>1. q # r /\ Replacing(q, t) /\ Doomed(q)' = Doomed(q)
    BY <1>4, <1>5
  <2>2. /\ \A o \in Requests \ {q} : ~Replacing(o, t)
        /\ \A x \in table[t] : x \in Doomed(q)
    BY <2>1 DEF Stored, Alone
  <2>3. t # p
    BY <2>1, <2>2, <1>4
  <2> QED BY <2>1, <2>2, <2>3, <1>1, <1>4, <1>5
<1>13. MixOnlyInRaces'
  <2> SUFFICES ASSUME NEW t \in Tables, t \notin raced, NEW x \in table'[t], NEW y \in table'[t]
               PROVE  x.by = y.by
    BY <1>0 DEF MixOnlyInRaces
  <2>1. CASE t = p
    <3>1. \A z \in table[p] : z \in deleted[r]
      BY <2>1, <1>4 DEF Stored, Alone
    <3> QED BY <3>1, <2>1, <1>1, <1>2
  <2>2. CASE t # p
    BY <2>2, <1>1 DEF Stored, MixOnlyInRaces
  <2> QED BY <2>1, <2>2
<1> QED BY <1>7, <1>8, <1>9, <1>11, <1>12, <1>13 DEF Stored

-----------------------------------------------------------------------------
(* What is fetched, checked and answered *)

LEMMA StepComplete ==
    ASSUME TypeOK, Complete, NEW r \in Requests, RequestStep(r), Frame(r)
    PROVE  Complete'
<1> SUFFICES ASSUME NEW q \in Requests, pc'[q] = "commit"
             PROVE  added'[q] = NewRows(q)'
  BY DEF Complete
<1>1. CASE q # r
  BY <1>1 DEF Frame, Complete, NewRows
<1>2. CASE q = r
  <2>1. Insert(r) /\ added'[r] = NewRows(r)
    BY <1>2 DEF RequestStep, Step, TypeOK, Goto, LoadToken, FindAccount, CreateAccount, AddMember,
       WithAccount, EnsureFresh, Fetch, StartDelete, Delete, Insert, Commit, Total,
       UpdateAccountBalance, Read, Break
  <2>2. UNCHANGED <<fetched, part, now>>
    BY <2>1 DEF Insert, held
  <2> QED BY <1>2, <2>1, <2>2 DEF NewRows
<1> QED BY <1>1, <1>2

\* Rows of the equity table that are there after a step were there before it, or are new.
LEMMA StepTable ==
    ASSUME TypeOK, Complete, NEW r \in Requests, RequestStep(r)
    PROVE  \A x \in table'["equity"] : x \in table["equity"] \/ x.at = now
<1>1. CASE Commit(r)
  <2>1. \A x \in added[r] : x.at = now
    <3>1. added[r] = NewRows(r)
      BY <1>1 DEF Complete, Commit
    <3>2. \A x \in NewRows(r) : x.at = now
      BY DEF NewRows
    <3> QED BY <3>1, <3>2
  <2> QED BY <1>1, <2>1 DEF Commit, TypeOK, Tables
<1>2. CASE ~Commit(r)
  <2>1. table' = table
    BY <1>2 DEF RequestStep, Step, LoadToken, FindAccount, CreateAccount, AddMember, EnsureFresh,
       Fetch, StartDelete, Delete, Insert, Total, UpdateAccountBalance, Read, Break, db
  <2> QED BY <2>1
<1> QED BY <1>1, <1>2

\* How a request comes to rely on the equity holdings.
LEMMA StepReplaced ==
    ASSUME TypeOK, AtStart, OneAge, NEW r \in Requests, RequestStep(r), Frame(r), Replaced(r)'
    PROVE  \/ checked'[r] = checked[r] /\ Replaced(r)
           \/ checked'[r] = now /\ table' = table /\ Fresh
           \/ checked'[r] = checked[r] /\ Commit(r) /\ part[r] = "equity"
<1> USE DEF Replaced, TypeOK, AtStart, Goto, db, tx, held, Open
<1>1. CASE LoadToken(r)
  BY <1>1 DEF LoadToken
<1>2. CASE FindAccount(r) \/ CreateAccount(r) \/ AddMember(r)
  BY <1>2 DEF FindAccount, CreateAccount, AddMember, WithAccount
<1>3. CASE EnsureFresh(r)
  BY <1>3 DEF EnsureFresh
<1>4. CASE Fetch(r)
  BY <1>4 DEF Fetch
<1>5. CASE StartDelete(r) \/ Delete(r)
  BY <1>5 DEF StartDelete, Delete
<1>6. CASE Insert(r)
  BY <1>6 DEF Insert
<1>7. CASE Commit(r)
  BY <1>7 DEF Commit, Tables
<1>8. CASE Total(r)
  BY <1>8 DEF Total
<1>9. CASE UpdateAccountBalance(r)
  BY <1>9 DEF UpdateAccountBalance
<1>10. CASE Read(r)
  BY <1>10 DEF Read
<1>11. CASE Break(r)
  BY <1>11 DEF Break
<1> QED BY <1>1, <1>2, <1>3, <1>4, <1>5, <1>6, <1>7, <1>8, <1>9, <1>10, <1>11 DEF RequestStep, Step

LEMMA StepChecked ==
    ASSUME TypeOK, NEW r \in Requests, RequestStep(r)
    PROVE  checked'[r] \in {checked[r], now}
<1> USE DEF TypeOK, held
<1>1. CASE EnsureFresh(r)
  BY <1>1 DEF EnsureFresh
<1>2. CASE ~EnsureFresh(r)
  <2>1. checked' = checked
    BY <1>2 DEF RequestStep, Step, LoadToken, FindAccount, CreateAccount, AddMember,
       Fetch, StartDelete, Delete, Insert, Commit, Total, UpdateAccountBalance, Read, Break
  <2> QED BY <2>1
<1> QED BY <1>1, <1>2

LEMMA StepFresh ==
    ASSUME TypeOK, TypeOK', AtStart, OneAge, Complete, FreshSince, Stored,
           NEW r \in Requests, RequestStep(r), Frame(r)
    PROVE  FreshSince'
<1>0. /\ now' = now /\ now \in Int /\ TTL \in Nat \ {0}
      /\ \A q \in Requests : checked[q] \in Int /\ checked[q] <= now
      /\ \A x \in table["equity"] : x.at \in Int
      /\ \A x \in table'["equity"] : x.at \in Int
  BY BoundsAssumption DEF Frame, TypeOK, Row, Tables, FreshSince
<1>1. \A x \in table'["equity"] : x \in table["equity"] \/ x.at = now
  BY StepTable
<1>2. \A q \in Requests : checked'[q] <= now
  BY <1>0, StepChecked DEF Frame
<1>3. ASSUME NEW q \in Requests, Replaced(q)', NEW x \in table'["equity"]
      PROVE  checked'[q] - x.at < TTL
  <2>1. CASE checked'[q] = checked[q] /\ Replaced(q)
    <3>1. CASE x \in table["equity"]
      BY <2>1, <3>1 DEF FreshSince
    <3>2. CASE x.at = now
      BY <2>1, <3>2, <1>0
    <3> QED BY <1>1, <3>1, <3>2
  <2>2. CASE q # r
    BY <2>1, <2>2, <1>3 DEF Frame, Replaced
  <2>3. CASE q = r /\ checked'[q] = now /\ table' = table /\ Fresh
    <3>1. PICK y \in table["equity"] : now - y.at < TTL
      BY <2>3 DEF Fresh
    <3>2. x \in table["equity"] /\ x.at = y.at
      BY <2>3, <3>1 DEF OneAge, Tables
    <3> QED BY <2>3, <3>1, <3>2
  <2>4. CASE q = r /\ checked'[q] = checked[q] /\ Commit(r) /\ part[r] = "equity"
    <3>1. x.at = now
      <4>1. pc[r] = "commit" /\ Replacing(r, "equity") /\ Doomed(r) = deleted[r]
        BY <2>4 DEF Commit, Replacing, Doomed, Open
      <4>2. \A z \in table["equity"] : z \notin deleted[r] => z.at = now
        BY <4>1 DEF OneAge, Tables
      <4>3. table'["equity"] = (table["equity"] \ deleted[r]) \union NewRows(r)
        BY <2>4, <4>1 DEF Commit, Complete, TypeOK, Tables
      <4>4. \A z \in NewRows(r) : z.at = now
        BY DEF NewRows
      <4> QED BY <4>2, <4>3, <4>4
    <3> QED BY <2>4, <3>1, <1>0
  <2> QED BY <1>3, <2>1, <2>2, <2>3, <2>4, StepReplaced
<1> QED BY <1>0, <1>2, <1>3 DEF FreshSince

LEMMA StepEquityFresh ==
    ASSUME TypeOK, AtStart, FreshSince, EquityFresh, NEW r \in Requests, RequestStep(r), Frame(r)
    PROVE  EquityFresh'
<1> SUFFICES ASSUME NEW q \in Requests, pc'[q] = "done", job[q] = "equity", NEW x \in answer'[q]
             PROVE  checked'[q] - x.at < TTL
  BY DEF EquityFresh, Frame
<1>1. CASE q # r
  BY <1>1 DEF Frame, EquityFresh
<1>2. CASE q = r
  <2>1. Read(r)
    <3>1. CASE UpdateAccountBalance(r)
      BY <3>1, <1>2 DEF UpdateAccountBalance, Goto, TypeOK
    <3>2. ~LoadToken(r) /\ ~FindAccount(r) /\ ~CreateAccount(r) /\ ~AddMember(r) /\ ~EnsureFresh(r)
      BY <1>2 DEF LoadToken, FindAccount, CreateAccount, AddMember, WithAccount, EnsureFresh, Goto,
                  TypeOK
    <3>3. ~Fetch(r) /\ ~StartDelete(r) /\ ~Delete(r) /\ ~Insert(r)
      BY <1>2 DEF Fetch, StartDelete, Delete, Insert, Goto, TypeOK
    <3>4. ~Commit(r) /\ ~Total(r) /\ ~Break(r)
      BY <1>2 DEF Commit, Total, Break, Goto, TypeOK
    <3> QED BY <3>1, <3>2, <3>3, <3>4 DEF RequestStep, Step
  <2>2. answer'[r] = table["equity"] /\ checked' = checked /\ Replaced(r)
    BY <1>2, <2>1 DEF Read, TypeOK, Replaced
  <2> QED BY <1>2, <2>2 DEF FreshSince
<1> QED BY <1>1, <1>2

-----------------------------------------------------------------------------
(* The balance *)

\* Steps that do not touch tables, totals and balance.
LEMMA BalanceQuiets ==
    ASSUME TypeOK, AtStart, NEW r \in Requests, RequestStep(r), Frame(r),
           ~Commit(r), ~Total(r), ~UpdateAccountBalance(r)
    PROVE  /\ UNCHANGED <<table, totals, balance, crossed>>
           /\ pc'[r] \notin {"total", "balance"}
           /\ faults' = 0 /\ pc'[r] # "failed" => \A t \in Tables : Behind(r, t) => Behind(r, t)'
<1> USE DEF TypeOK, Goto, db, tx, held, Open, Behind
<1>1. CASE LoadToken(r)
  BY <1>1 DEF LoadToken
<1>2. CASE FindAccount(r) \/ CreateAccount(r) \/ AddMember(r)
  BY <1>2 DEF FindAccount, CreateAccount, AddMember, WithAccount
<1>3. CASE EnsureFresh(r)
  BY <1>3 DEF EnsureFresh
<1>4. CASE Fetch(r)
  BY <1>4 DEF Fetch
<1>5. CASE StartDelete(r) \/ Delete(r)
  BY <1>5 DEF StartDelete, Delete
<1>6. CASE Insert(r)
  BY <1>6 DEF Insert
<1>7. CASE Read(r) \/ Break(r)
  BY <1>7 DEF Read, Break
<1> QED BY <1>1, <1>2, <1>3, <1>4, <1>5, <1>6, <1>7 DEF RequestStep, Step

\* A fault stays, and so does a request that has failed.
LEMMA FaultsStay ==
    ASSUME TypeOK, NEW r \in Requests, RequestStep(r), Frame(r)
    PROVE  /\ faults' = 0 => faults = 0
           /\ \A q \in Requests : pc[q] = "failed" => pc'[q] = "failed"
<1>1. faults' \in {faults, faults + 1} /\ faults \in Nat
  BY BoundsAssumption
  DEF TypeOK, RequestStep, Step, LoadToken, FindAccount, CreateAccount, AddMember,
      EnsureFresh, Fetch, StartDelete, Delete, Insert, Commit, Total, UpdateAccountBalance, Read,
      Break, Fault
<1>2. pc[r] # "failed"
  BY DEF RequestStep, Step, LoadToken, FindAccount, CreateAccount, AddMember, EnsureFresh, Fetch,
         StartDelete, Delete, Insert, Commit, Total, UpdateAccountBalance, Read, Break, Active,
         Syncing, Open
<1> QED BY <1>1, <1>2 DEF Frame

LEMMA StepTotals ==
    ASSUME TypeOK, AtStart, TotalsCurrent, NEW r \in Requests, RequestStep(r), Frame(r)
    PROVE  TotalsCurrent'
<1> SUFFICES ASSUME faults' = 0, NEW t \in Tables, t \notin crossed', NEW q \in Requests,
                    Totalled(q, t)'
             PROVE  totals'[q][t] = table'[t]
  BY DEF TotalsCurrent
<1>0. faults = 0 /\ faults' # faults + 1
  BY FaultsStay
<1>1. q # r => Totalled(q, t) /\ totals'[q] = totals[q]
  BY DEF Frame, Totalled
<1>2. CASE Commit(r)
  <2>1. /\ t \notin crossed /\ totals' = totals
        /\ t = part[r] => ~Totalled(q, t)
    BY <1>2 DEF Commit, held
  <2>2. q # r
    BY <1>2 DEF Commit, Totalled, Goto, TypeOK
  <2>3. t # part[r]
    BY <1>1, <2>1, <2>2
  <2>4. table'[t] = table[t]
    BY <1>2, <2>3 DEF Commit, TypeOK
  <2> QED BY <1>0, <1>1, <2>1, <2>2, <2>4 DEF TotalsCurrent
<1>3. CASE Total(r)
  <2>1. table' = table /\ crossed' = crossed
    BY <1>3 DEF Total, db, tx
  <2>2. CASE q # r
    BY <1>0, <1>1, <2>1, <2>2 DEF TotalsCurrent
  <2>3. CASE q = r
    <3>1. totals' = [totals EXCEPT ![r][part[r]] = table[part[r]]]
      BY <1>0, <1>3 DEF Total, Summary, Fault
    <3>2. part[r] \in Tables /\ totals \in [Requests -> [Tables -> SUBSET Row]]
      BY DEF TypeOK
    <3>3. CASE t = part[r]
      BY <2>1, <2>3, <3>1, <3>2, <3>3
    <3>4. CASE t # part[r]
      <4>1. totals'[r][t] = totals[r][t]
        BY <3>1, <3>2, <3>4
      <4>2. part[r] = "funds" /\ t = "equity" /\ pc[r] = "total"
        BY <1>3, <2>3, <3>4 DEF Total, Totalled, Goto, TypeOK, Tables
      <4> QED BY <1>0, <2>1, <2>3, <4>1, <4>2 DEF TotalsCurrent, Totalled
    <3> QED BY <3>3, <3>4
  <2> QED BY <2>2, <2>3
<1>4. CASE UpdateAccountBalance(r)
  <2>1. table' = table /\ crossed' = crossed
    BY <1>4 DEF UpdateAccountBalance, tx
  <2>2. q # r
    BY <1>4 DEF UpdateAccountBalance, Goto, Totalled, TypeOK
  <2> QED BY <1>0, <1>1, <2>1, <2>2 DEF TotalsCurrent
<1>5. CASE ~Commit(r) /\ ~Total(r) /\ ~UpdateAccountBalance(r)
  <2>1. UNCHANGED <<table, totals, crossed>> /\ q # r
    BY <1>5, BalanceQuiets DEF Totalled
  <2> QED BY <1>0, <1>1, <2>1 DEF TotalsCurrent
<1> QED BY <1>2, <1>3, <1>4, <1>5

LEMMA StepBalance ==
    ASSUME TypeOK, AtStart, TotalsCurrent, BalanceFollows,
           NEW r \in Requests, RequestStep(r), Frame(r)
    PROVE  BalanceFollows'
<1> SUFFICES ASSUME faults' = 0, \A q \in Requests : pc'[q] # "failed",
                    NEW t \in Tables, t \notin crossed',
                    \A q \in Requests : ~Behind(q, t)'
             PROVE  balance'[t] = table'[t]
  BY DEF BalanceFollows
<1>0. faults = 0 /\ faults' # faults + 1 /\ \A q \in Requests : pc[q] # "failed"
  BY FaultsStay
<1>1. \A q \in Requests \ {r} : ~Behind(q, t)
  BY DEF Frame, Behind
<1>2. CASE Commit(r)
  <2>1. t # part[r] /\ t \notin crossed
    BY <1>0, <1>2 DEF Commit, Behind, Goto, TypeOK, Fault
  <2>2. table'[t] = table[t] /\ balance' = balance
    BY <1>2, <2>1 DEF Commit, TypeOK
  <2>3. ~Behind(r, t)
    BY <1>0, <1>2, <2>1 DEF Commit, Behind, Goto, TypeOK, Tables, Fault
  <2> QED BY <1>0, <1>1, <2>1, <2>2, <2>3 DEF BalanceFollows
<1>3. CASE Total(r)
  BY <1>3 DEF Total, Behind, Goto, TypeOK
<1>4. CASE UpdateAccountBalance(r)
  <2>1. table' = table /\ crossed' = crossed /\ pc[r] = "balance" /\ balance' = totals[r]
    BY <1>0, <1>4 DEF UpdateAccountBalance, tx, Fault
  <2> QED BY <1>0, <2>1 DEF TotalsCurrent, Totalled
<1>5. CASE ~Commit(r) /\ ~Total(r) /\ ~UpdateAccountBalance(r)
  <2>1. UNCHANGED <<table, balance, crossed>> /\ ~Behind(r, t)
    BY <1>5, BalanceQuiets
  <2> QED BY <1>0, <1>1, <2>1 DEF BalanceFollows
<1> QED BY <1>2, <1>3, <1>4, <1>5

-----------------------------------------------------------------------------
(* Every step *)

LEMMA ClockTicks ==
    ASSUME IInv, Tick
    PROVE  IInv'
<1> USE DEF IInv, Tick, db, tx, held
<1>0. /\ UNCHANGED <<token, table, balance, account, faults, job, pc, part, seen, deleted, added,
                     raced, crossed, fetched, totals, checked, answer>>
      /\ now' = now + 1 /\ now \in 0..MaxTime /\ now < MaxTime
      /\ \A q \in Requests : pc[q] \notin Open
  BY DEF TypeOK
<1> HIDE DEF Tick, db, tx, held
<1>1. TypeOK'
  BY <1>0, BoundsAssumption DEF TypeOK
<1>2. AtStart' /\ SyncsWhole' /\ MixOnlyInRaces' /\ EquityFresh'
  BY <1>0 DEF AtStart, SyncsWhole, SymbolsOf, MixOnlyInRaces, EquityFresh
<1>3. Unborn' /\ Together' /\ Alone'
  BY <1>0 DEF Unborn, Together, Alone, Replacing, NotYet, Doomed
<1>4. Complete'
  BY <1>0 DEF Complete, Open
<1>5. OneAge'
  <2>1. \A t \in Tables : \A x \in table[t] : x.at \in Int
    BY DEF TypeOK, Row
  <2> QED BY <1>0, <2>1 DEF OneAge, Replacing
<1>6. FreshSince'
  <2>1. \A q \in Requests : checked[q] \in Int
    BY DEF TypeOK
  <2> QED BY <1>0, <2>1 DEF FreshSince, Replaced
<1>7. TotalsCurrent' /\ BalanceFollows'
  BY <1>0 DEF TotalsCurrent, BalanceFollows, Totalled, Behind
<1> QED BY <1>1, <1>2, <1>3, <1>4, <1>5, <1>6, <1>7

LEMMA Stutters ==
    ASSUME IInv, ChangeToken \/ UNCHANGED vars
    PROVE  IInv'
<1>0. /\ UNCHANGED <<table, balance, account, faults, job, pc, part, seen, deleted, added,
                     raced, crossed, fetched, totals, checked, answer, now>>
      /\ token' \in {token, ~token}
  BY DEF ChangeToken, vars, db, tx, held
<1>1. TypeOK'
  BY <1>0 DEF IInv, TypeOK
<1>2. AtStart' /\ SyncsWhole' /\ MixOnlyInRaces' /\ EquityFresh'
  BY <1>0 DEF IInv, AtStart, SyncsWhole, SymbolsOf, MixOnlyInRaces, EquityFresh
<1>3. Unborn' /\ Together' /\ Alone'
  BY <1>0 DEF IInv, Unborn, Together, Alone, Replacing, NotYet, Doomed
<1>4. Complete' /\ OneAge' /\ FreshSince'
  BY <1>0 DEF IInv, Complete, NewRows, OneAge, FreshSince, Replacing, Doomed, Replaced
<1>5. TotalsCurrent' /\ BalanceFollows'
  BY <1>0 DEF IInv, TotalsCurrent, BalanceFollows, Totalled, Behind
<1> QED BY <1>1, <1>2, <1>3, <1>4, <1>5 DEF IInv

LEMMA NextKeeps == IInv /\ [Next]_vars => IInv'
<1> SUFFICES ASSUME IInv, [Next]_vars PROVE IInv'
  OBVIOUS
<1>1. CASE \E r \in Requests : RequestStep(r)
  <2>1. PICK r \in Requests : RequestStep(r)
    BY <1>1
  <2>2. TypeOK /\ AtStart /\ Complete /\ FreshSince /\ EquityFresh /\ OneAge /\ Stored
    BY DEF IInv, Stored
  <2>3. TypeOK' /\ AtStart' /\ Frame(r)
    BY <2>1, <2>2, StepType, StepStart, Frames
  <2>4. Stored'
    BY <2>1, <2>2, <2>3, Quiets, QuietKeeps, StartDeleteKeeps, CommitKeeps
  <2>5. Complete' /\ FreshSince' /\ EquityFresh'
    BY <2>1, <2>2, <2>3, StepComplete, StepFresh, StepEquityFresh
  <2>6. TotalsCurrent' /\ BalanceFollows'
    BY <2>1, <2>3, StepTotals, StepBalance DEF IInv
  <2> QED BY <2>3, <2>4, <2>5, <2>6 DEF IInv, Stored
<1>2. CASE Tick
  BY <1>2, ClockTicks
<1>3. CASE ChangeToken \/ UNCHANGED vars
  BY <1>3, Stutters
<1> QED BY <1>1, <1>2, <1>3 DEF Next, RequestStep, Settled

-----------------------------------------------------------------------------
\* In every behaviour.
LEMMA Invariant == Spec => []IInv
BY Initially, NextKeeps, PTL DEF Spec

\* Every variable keeps its type, however syncs and queries overlap and fail.
THEOREM TypeCorrect == Spec => []TypeOK
<1>1. IInv => TypeOK
  BY DEF IInv
<1> QED BY <1>1, Invariant, PTL

\* What a sync stored is in its table as a whole or not at all (ReplaceEquityHoldings,
\* ReplaceMFHoldings).
THEOREM SyncsWholeAlways == Spec => []SyncsWhole
<1>1. IInv => SyncsWhole
  BY DEF IInv
<1> QED BY <1>1, Invariant, PTL

\* The answers of two syncs stand in a table together only if their transactions
\* overlapped (doSync, the DELETE that sees only what was committed).
THEOREM MixOnlyInRacesAlways == Spec => []MixOnlyInRaces
<1>1. IInv => MixOnlyInRaces
  BY DEF IInv
<1> QED BY <1>1, Invariant, PTL

\* When nobody is syncing, the balance is the total of the holdings, unless a sync broke
\* off or a table was replaced between another sync's total and its update (doSync,
\* updateAccountBalance).
THEOREM BalanceOfHoldingsAlways == Spec => []BalanceOfHoldings
<1>1. IInv => BalanceOfHoldings
  BY DEF IInv, BalanceFollows, BalanceOfHoldings, Behind, Syncing
<1> QED BY <1>1, Invariant, PTL

\* The equity holdings a query answers with were younger than the TTL when it looked
\* (ensureFresh).
THEOREM EquityFreshAlways == Spec => []EquityFresh
<1>1. IInv => EquityFresh
  BY DEF IInv
<1> QED BY <1>1, Invariant, PTL

=============================================================================
