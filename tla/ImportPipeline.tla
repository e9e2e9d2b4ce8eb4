--------------------------- MODULE ImportPipeline ---------------------------
(***************************************************************************)
(* Statement import: importer.Run, its two callers (POST /api/import and   *)
(* `finagent import`) and the background pass importer.EnrichRows, over    *)
(* the tables they share: transactions, transaction_enrichments,           *)
(* import_runs and the balance columns of accounts.                        *)
(*                                                                         *)
(* Several imports into one account may be under way at once, in the       *)
(* server and in CLI processes.  Every action below is ONE database        *)
(* statement (or one LLM call with the write of its answer) of one import, *)
(* so every interleaving of their statements is a behaviour: no code path  *)
(* here opens a database transaction.  A statement may                     *)
(*    - succeed,                                                           *)
(*    - fail without effect,                                               *)
(*    - take effect although its caller is told that it failed (the reply  *)
(*      was lost, or the context ended while it was in flight);            *)
(* the last two use up one of MaxFaults.  The context of an import may be  *)
(* cancelled (client gone, the handler's two minute limit, SIGINT): from   *)
(* then on every call it makes fails at once.  A process may crash.        *)
(*                                                                         *)
(* Categories and normalised names are left out: of an enrichment row the  *)
(* model keeps whether it exists and its tagging_status.                   *)
(***************************************************************************)
EXTENDS Integers, Sequences, FiniteSets

CONSTANTS
    Runs,         \* imports: one element per API request or CLI invocation
    Statements,   \* the parsed statements an import may be given
    Modes,        \* who calls importer.Run: a subset of {"api", "cli"}
    NoBalance,    \* a row, or an account, without balance (nil, NULL)
    Cancellable,  \* whether contexts are ever cancelled
    MaxFaults,    \* bound: failing database statements
    MaxCrashes,   \* bound: process crashes
    MaxPatches    \* bound: manual corrections by the user

\* parser.RawTransaction, reduced to the fields the importer looks at.  Dates
\* are day numbers from 1; amounts are positive paise.
RawTransaction ==
    [date : Nat \ {0}, amount : Nat \ {0}, desc : STRING,
     dir : {"debit", "credit"}, balance : Int \union {NoBalance}]

ASSUME StatementsAssumption == Statements \subseteq Seq(RawTransaction) \ {<<>>}
ASSUME ModesAssumption == Modes \subseteq {"api", "cli"}
ASSUME NoBalanceAssumption == NoBalance \notin Int
ASSUME BoundsAssumption ==
    /\ Cancellable \in BOOLEAN
    /\ MaxFaults \in Nat
    /\ MaxCrashes \in Nat
    /\ MaxPatches \in Nat

\* Equal for two rows of the account exactly when date, amount and description
\* are: direction, reference and balance play no part.
IdempotencyKey(row) == <<row.date, row.amount, row.desc>>

Keys == UNION { {IdempotencyKey(s[i]) : i \in DOMAIN s} : s \in Statements }

\* The rows that carry a balance, and the last of them in FILE order: the one
\* Run reports as LatestBalance / LatestBalanceDate.
BalanceRows(s) == {i \in DOMAIN s : s[i].balance # NoBalance}
LatestBalance(s) ==
    s[CHOOSE i \in BalanceRows(s) : \A j \in BalanceRows(s) : j <= i]

TaggingStatus == {"none", "pending", "auto", "manual"}  \* "none": no row
ImportStatus == {"none", "running", "success", "partial", "failed", "enriching"}

VARIABLES
    \* the imports
    job,           \* what each import was asked to do
    pc,            \* the call each import makes next
    idx,           \* the row it is at
    res,           \* importer.Result: the counts it keeps in memory
    enrichFailed,  \* EnrichRows: rows whose enrichment failed
    cancelled,     \* its context has ended
    \* the database
    stored,        \* transactions: number of rows with each idempotency key
    tag,           \* transaction_enrichments: tagging_status of each key's row
    runRow,        \* import_runs: status, finished_at set?, the four counts
    balance,       \* accounts: current_balance and balance_as_of (0: NULL)
    \* history: how many imports counted the key under Inserted
    claims,
    \* what is left of the bounds
    faults, crashes, patches

procVars == <<job, pc, idx, res, enrichFailed, cancelled>>
dbVars == <<stored, tag, runRow, balance, claims>>
vars == <<procVars, dbVars, faults, crashes, patches>>

Job == [rows : Statements, mode : Modes, enrich : BOOLEAN]
Counts == [inserted : Nat, duplicate : Nat, failed : Nat]
NoCounts == [inserted |-> 0, duplicate |-> 0, failed |-> 0]
RunRow == [status : ImportStatus, finished : BOOLEAN, parsed : Nat, counts : Counts]

\* Where Run is called from a request or command, and where EnrichRows runs.
RowSteps == {"check", "lookup", "tag", "insert", "blank"}
Foreground == RowSteps \union
              {"create", "counts", "finish", "balance", "categories", "enriching"}
Background == {"bgLookup", "bgTag", "bgFinish"}
Ended == {"done", "dead"}
PC == {"idle"} \union Foreground \union Background \union Ended

Init ==
    /\ job \in [Runs -> Job]
    /\ pc = [r \in Runs |-> "idle"]
    /\ idx = [r \in Runs |-> 1]
    /\ res = [r \in Runs |-> NoCounts]
    /\ enrichFailed = [r \in Runs |-> 0]
    /\ cancelled = [r \in Runs |-> FALSE]
    /\ stored = [k \in Keys |-> 0]
    /\ tag = [k \in Keys |-> "none"]
    /\ runRow = [r \in Runs |-> [status |-> "none", finished |-> FALSE,
                                 parsed |-> 0, counts |-> NoCounts]]
    /\ balance = [paise |-> NoBalance, asOf |-> 0]
    /\ claims = [k \in Keys |-> 0]
    /\ faults = 0 /\ crashes = 0 /\ patches = 0

-----------------------------------------------------------------------------
(* How a call of import r ends. *)

Succeeds(r) == ~cancelled[r] /\ UNCHANGED faults

Fails(r) ==
    \/ cancelled[r] /\ UNCHANGED faults
    \/ ~cancelled[r] /\ faults < MaxFaults /\ faults' = faults + 1

ReplyLost(r) == ~cancelled[r] /\ faults < MaxFaults /\ faults' = faults + 1

(* Control of import r. *)

Total(r) == Len(job[r].rows)
Key(r) == IdempotencyKey(job[r].rows[idx[r]])

\* Run was given an enricher (CLI); the handler starts EnrichRows (API).
Inline(r) == job[r].enrich /\ job[r].mode = "cli"
Deferred(r) == job[r].enrich /\ job[r].mode = "api"

Goto(r, l) == pc' = [pc EXCEPT ![r] = l] /\ UNCHANGED idx

NextRow(r, l, after) ==
    /\ idx' = [idx EXCEPT ![r] = @ + 1]
    /\ pc' = [pc EXCEPT ![r] = IF idx[r] < Total(r) THEN l ELSE after]

Continue(r) == NextRow(r, "check", "counts")

\* Slip: duplicates are skipped without being counted.
Count_DuplicatesForgotten(r, field) ==
    res' = IF field = "duplicate" THEN res ELSE [res EXCEPT ![r][field] = @ + 1]

Count(r, field) == res' = [res EXCEPT ![r][field] = @ + 1]

\* SQL UPDATE ... WHERE transaction_id = ...: nothing happens, and no error is
\* reported, when the enrichment row does not exist.
Tagged(k, status) ==
    [tag EXCEPT ![k] = IF @ = "none" THEN "none" ELSE status]

\* transactions.idempotency_key is UNIQUE: a second row with key k is refused.
Unique_Missing(k) == TRUE
Unique(k) == stored[k] = 0

\* SQL InsertTransactionEnrichment (ON CONFLICT DO NOTHING): a pending row.
Blank_Skipped(k) == tag
Blank(k) == [tag EXCEPT ![k] = IF @ = "none" THEN "pending" ELSE @]

-----------------------------------------------------------------------------
(* importer.Run *)

\* Lines before the first call, and the row of import_runs (status running).
CreateRun(r) ==
    LET created == [runRow EXCEPT ![r].status = "running"] IN
    /\ pc[r] = "create"
    /\ \/ Succeeds(r) /\ Goto(r, "check") /\ runRow' = created
       \/ Fails(r) /\ Goto(r, "done") /\ UNCHANGED runRow
       \/ ReplyLost(r) /\ Goto(r, "done") /\ runRow' = created
    /\ UNCHANGED <<job, res, enrichFailed, cancelled, stored, tag, balance,
                   claims, crashes, patches>>

CheckKey(r) ==
    /\ pc[r] = "check"
    /\ \/ Fails(r) /\ Count(r, "failed") /\ Continue(r)
       \/ /\ Succeeds(r) /\ stored[Key(r)] = 0
          /\ Goto(r, "insert") /\ UNCHANGED res
       \/ /\ Succeeds(r) /\ stored[Key(r)] > 0
          /\ Count(r, "duplicate")
          /\ IF Inline(r) THEN Goto(r, "lookup") ELSE Continue(r)
    /\ UNCHANGED <<job, enrichFailed, cancelled, dbVars, crashes, patches>>

\* Re-enrichment of a duplicate: fetch the id of the existing transaction.
LookupKey(r) ==
    /\ pc[r] = "lookup"
    /\ \/ Fails(r) /\ Continue(r)
       \/ Succeeds(r) /\ Goto(r, "tag")
    /\ UNCHANGED <<job, res, enrichFailed, cancelled, dbVars, crashes, patches>>

\* Enrich and UpdateEnrichment, for a duplicate or a fresh row alike; every
\* failure is only logged.
TagRow(r) ==
    /\ pc[r] = "tag"
    /\ \/ UNCHANGED <<tag, faults>>                    \* the LLM failed
       \/ Succeeds(r) /\ tag' = Tagged(Key(r), "auto")
       \/ Fails(r) /\ UNCHANGED tag
       \/ ReplyLost(r) /\ tag' = Tagged(Key(r), "auto")
    /\ Continue(r)
    /\ UNCHANGED <<job, res, enrichFailed, cancelled, stored, runRow, balance,
                   claims, crashes, patches>>

\* First statement of TransactionStore.Insert: refused, and the row counted as
\* Failed, when another import has stored the key since CheckKey.
InsertTransaction(r) ==
    LET added == [stored EXCEPT ![Key(r)] = @ + 1] IN
    /\ pc[r] = "insert"
    /\ \/ /\ Succeeds(r) /\ Unique(Key(r))
          /\ stored' = added /\ Goto(r, "blank") /\ UNCHANGED res
       \/ /\ Succeeds(r) /\ ~Unique(Key(r))
          /\ UNCHANGED stored /\ Count(r, "failed") /\ Continue(r)
       \/ Fails(r) /\ UNCHANGED stored /\ Count(r, "failed") /\ Continue(r)
       \/ /\ ReplyLost(r) /\ Unique(Key(r))
          /\ stored' = added /\ Count(r, "failed") /\ Continue(r)
    /\ UNCHANGED <<job, enrichFailed, cancelled, tag, runRow, balance, claims,
                   crashes, patches>>

\* Second statement of TransactionStore.Insert.  Only when it succeeds too does the
\* row count as Inserted.
InsertEnrichment(r) ==
    /\ pc[r] = "blank"
    /\ \/ /\ Succeeds(r) /\ tag' = Blank(Key(r))
          /\ Count(r, "inserted")
          /\ claims' = [claims EXCEPT ![Key(r)] = @ + 1]
          /\ IF Inline(r) THEN Goto(r, "tag") ELSE Continue(r)
       \/ /\ \/ Fails(r) /\ UNCHANGED tag
             \/ ReplyLost(r) /\ tag' = Blank(Key(r))
          /\ Count(r, "failed") /\ Continue(r) /\ UNCHANGED claims
    /\ UNCHANGED <<job, enrichFailed, cancelled, stored, runRow, balance,
                   crashes, patches>>

UpdateCounts(r) ==
    LET counted == [runRow EXCEPT ![r].parsed = Total(r), ![r].counts = res[r]] IN
    /\ pc[r] = "counts" /\ Goto(r, "finish")
    /\ \/ Succeeds(r) /\ runRow' = counted
       \/ Fails(r) /\ UNCHANGED runRow
       \/ ReplyLost(r) /\ runRow' = counted
    /\ UNCHANGED <<job, res, enrichFailed, cancelled, stored, tag, balance,
                   claims, crashes, patches>>

Verdict_NoPartial(failed, nothingDone) ==
    IF failed > 0 /\ nothingDone THEN "failed" ELSE "success"
Verdict(failed, nothingDone) ==
    IF failed = 0 THEN "success" ELSE IF nothingDone THEN "failed" ELSE "partial"

\* SQL FinishImportRun: unconditional.
Finished_StatusKept(r, status) == [runRow EXCEPT ![r].finished = TRUE]
Finished(r, status) ==
    [runRow EXCEPT ![r].status = status, ![r].finished = TRUE]

FinishRun(r) ==
    LET closed == Finished(r, Verdict(res[r].failed, res[r].inserted = 0)) IN
    /\ pc[r] = "finish" /\ Goto(r, "balance")
    /\ \/ Succeeds(r) /\ runRow' = closed
       \/ Fails(r) /\ UNCHANGED runRow
       \/ ReplyLost(r) /\ runRow' = closed
    /\ UNCHANGED <<job, res, enrichFailed, cancelled, stored, tag, balance,
                   claims, crashes, patches>>

-----------------------------------------------------------------------------
(* handleImport and runImport after Run has returned *)

\* SQL UpdateAccountBalance: only when nothing newer is known.
Rebalanced_Unguarded(row) == [paise |-> row.balance, asOf |-> row.date]
Rebalanced(row) ==
    IF balance.asOf <= row.date
    THEN [paise |-> row.balance, asOf |-> row.date] ELSE balance

UpdateBalance(r) ==
    LET rows == job[r].rows IN
    /\ pc[r] = "balance"
    /\ Goto(r, IF Deferred(r) THEN "categories" ELSE "done")
    /\ \/ BalanceRows(rows) = {} /\ UNCHANGED <<balance, faults>>
       \/ /\ BalanceRows(rows) # {}
          /\ \/ Succeeds(r) /\ balance' = Rebalanced(LatestBalance(rows))
             \/ Fails(r) /\ UNCHANGED balance
             \/ ReplyLost(r) /\ balance' = Rebalanced(LatestBalance(rows))
    /\ UNCHANGED <<job, res, enrichFailed, cancelled, stored, tag, runRow,
                   claims, crashes, patches>>

\* handleImport loads the categories; without them there is no enrichment.
LoadCategories(r) ==
    /\ pc[r] = "categories"
    /\ \/ Succeeds(r) /\ Goto(r, "enriching")
       \/ Fails(r) /\ Goto(r, "done")
    /\ UNCHANGED <<job, res, enrichFailed, cancelled, dbVars, crashes, patches>>

\* The first row EnrichRows looks at.
FirstRow == 1

\* UpdateStatus(enriching), whose failure is only logged; then the goroutine is
\* started, with a context of its own, and the handler answers.
MarkEnriching(r) ==
    LET marked == [runRow EXCEPT ![r].status = "enriching"] IN
    /\ pc[r] = "enriching"
    /\ \/ Succeeds(r) /\ runRow' = marked
       \/ Fails(r) /\ UNCHANGED runRow
       \/ ReplyLost(r) /\ runRow' = marked
    /\ pc' = [pc EXCEPT ![r] = "bgLookup"]
    /\ idx' = [idx EXCEPT ![r] = FirstRow]
    /\ cancelled' = [cancelled EXCEPT ![r] = FALSE]
    /\ UNCHANGED <<job, res, enrichFailed, stored, tag, balance, claims,
                   crashes, patches>>

-----------------------------------------------------------------------------
(* importer.EnrichRows *)

ContinueBg_NeverFinishes(r) == NextRow(r, "bgLookup", "done")
ContinueBg(r) == NextRow(r, "bgLookup", "bgFinish")

CountEnrichFailed(r) == enrichFailed' = [enrichFailed EXCEPT ![r] = @ + 1]

\* Any error of the lookup, "no such row" included, skips the row uncounted.
BgLookup(r) ==
    /\ pc[r] = "bgLookup"
    /\ \/ Succeeds(r) /\ stored[Key(r)] > 0 /\ Goto(r, "bgTag")
       \/ Succeeds(r) /\ stored[Key(r)] = 0 /\ ContinueBg(r)
       \/ Fails(r) /\ ContinueBg(r)
    /\ UNCHANGED <<job, res, enrichFailed, cancelled, dbVars, crashes, patches>>

BgTagRow(r) ==
    /\ pc[r] = "bgTag"
    /\ \/ UNCHANGED <<tag, faults>> /\ CountEnrichFailed(r)   \* the LLM failed
       \/ /\ Succeeds(r) /\ tag' = Tagged(Key(r), "auto")
          /\ UNCHANGED enrichFailed
       \/ Fails(r) /\ UNCHANGED tag /\ CountEnrichFailed(r)
       \/ ReplyLost(r) /\ tag' = Tagged(Key(r), "auto") /\ CountEnrichFailed(r)
    /\ ContinueBg(r)
    /\ UNCHANGED <<job, res, cancelled, stored, runRow, balance, claims,
                   crashes, patches>>

BgFinish(r) ==
    LET closed == Finished(r, Verdict(enrichFailed[r], enrichFailed[r] = Total(r))) IN
    /\ pc[r] = "bgFinish" /\ Goto(r, "done")
    /\ \/ Succeeds(r) /\ runRow' = closed
       \/ Fails(r) /\ UNCHANGED runRow
       \/ ReplyLost(r) /\ runRow' = closed
    /\ UNCHANGED <<job, res, enrichFailed, cancelled, stored, tag, balance,
                   claims, crashes, patches>>

-----------------------------------------------------------------------------
(* The environment *)

\* A request arrives, or the command is run.
Submit(r) ==
    /\ pc[r] = "idle" /\ Goto(r, "create")
    /\ UNCHANGED <<job, res, enrichFailed, cancelled, dbVars, faults, crashes,
                   patches>>

Cancel(r) ==
    /\ Cancellable /\ pc[r] \in Foreground /\ ~cancelled[r]
    /\ cancelled' = [cancelled EXCEPT ![r] = TRUE]
    /\ UNCHANGED <<job, pc, idx, res, enrichFailed, dbVars, faults, crashes,
                   patches>>

\* A crash takes every import of the process with it: all that the server is
\* working on, handlers and background goroutines, or one CLI import.
Crash(victims) ==
    /\ crashes < MaxCrashes /\ crashes' = crashes + 1
    /\ \E r \in victims : pc[r] \in Foreground \union Background
    /\ pc' = [r \in Runs |->
                 IF r \in victims /\ pc[r] \in Foreground \union Background
                 THEN "dead" ELSE pc[r]]
    /\ UNCHANGED <<job, idx, res, enrichFailed, cancelled, dbVars, faults, patches>>

CrashServer == Crash({r \in Runs : job[r].mode = "api"})
CrashCommand(r) == job[r].mode = "cli" /\ Crash({r})

\* PATCH /api/transactions/{id}/enrichment on a transaction the user can see.
PatchEnrichment(k) ==
    /\ patches < MaxPatches /\ patches' = patches + 1
    /\ stored[k] > 0
    /\ tag' = Tagged(k, "manual")
    /\ UNCHANGED <<procVars, stored, runRow, balance, claims, faults, crashes>>

-----------------------------------------------------------------------------
Step(r) ==
    \/ CreateRun(r) \/ CheckKey(r) \/ LookupKey(r) \/ TagRow(r)
    \/ InsertTransaction(r) \/ InsertEnrichment(r)
    \/ UpdateCounts(r) \/ FinishRun(r) \/ UpdateBalance(r)
    \/ LoadCategories(r) \/ MarkEnriching(r)
    \/ BgLookup(r) \/ BgTagRow(r) \/ BgFinish(r)

\* Every import has ended: nothing more has to happen.
Settled == (\A r \in Runs : pc[r] \in Ended) /\ UNCHANGED vars

Next ==
    \/ \E r \in Runs : Step(r) \/ Submit(r) \/ Cancel(r) \/ CrashCommand(r)
    \/ CrashServer
    \/ \E k \in Keys : PatchEnrichment(k)
    \/ Settled

\* The runtime schedules every goroutine, and every call returns.
Fairness == \A r \in Runs : WF_vars(Step(r))

Spec == Init /\ [][Next]_vars
FairSpec == Spec /\ Fairness

-----------------------------------------------------------------------------
(* Properties *)

\* Every variable has its type; the one type invariant of the module.
TypeOK ==
    /\ job \in [Runs -> Job]
    /\ pc \in [Runs -> PC]
    /\ idx \in [Runs -> Nat \ {0}]
    /\ res \in [Runs -> Counts]
    /\ enrichFailed \in [Runs -> Nat]
    /\ cancelled \in [Runs -> BOOLEAN]
    /\ stored \in [Keys -> Nat]
    /\ tag \in [Keys -> TaggingStatus]
    /\ runRow \in [Runs -> RunRow]
    /\ balance \in [paise : Int \union {NoBalance}, asOf : Nat]
    /\ claims \in [Keys -> Nat]
    /\ faults \in Nat /\ crashes \in Nat /\ patches \in Nat

\* An import at one of its rows is at a row its statement has.
RowInRange ==
    \A r \in Runs :
        /\ pc[r] \in {"idle", "create"} => idx[r] = 1
        /\ pc[r] \in RowSteps \union {"bgLookup", "bgTag"} => idx[r] \in 1 .. Total(r)

\* Imports race between CheckKey and InsertTransaction, and between the two
\* statements of Insert, and yet: a key has at most one transaction and at most one
\* import that counts it as Inserted; an import about to add the enrichment row is
\* the only one that is, and nobody has counted its transaction yet.
RecordedOnce ==
    /\ \A k \in Keys : stored[k] <= 1 /\ claims[k] <= stored[k]
    /\ \A r \in Runs : pc[r] = "blank" => stored[Key(r)] = 1 /\ claims[Key(r)] = 0
    /\ \A r, q \in Runs :
          pc[r] = "blank" /\ pc[q] = "blank" /\ Key(r) = Key(q) => r = q

\* The imports implement the ledger: no interleaving of imports that check a key
\* and insert it later, no fault, no lost reply, no crash between the two
\* statements of Insert and no retry makes a transaction appear twice, be
\* removed, or be reported as Inserted by two imports.
L == INSTANCE Ledger
LedgerSpec == L!Spec

\* Every row that Run has dealt with is in exactly one of the three counts,
\* whichever of its calls failed and however it was interleaved with others;
\* at the end the counts add up to Parsed.
RowsAccounted ==
    \A r \in Runs :
        LET counted == res[r].inserted + res[r].duplicate + res[r].failed IN
        /\ pc[r] \in {"check", "insert", "blank"} => counted = idx[r] - 1
        /\ pc[r] \in {"lookup", "tag"} => counted = idx[r]
        /\ pc[r] \in (Foreground \ RowSteps) \ {"create"} => counted = Total(r)

\* The rows of the statement of import r whose key has no transaction.
Missing(r) ==
    LET rows == job[r].rows IN
    {i \in DOMAIN rows : stored[IdempotencyKey(rows[i])] = 0}

\* What a verdict tells about the ledger, whoever else imports the same rows:
\* "success" that every row of the statement is there; "partial" and "failed" that
\* no more rows are missing than the import counts as Failed; and a row is missing
\* from it only after a statement has failed: what an import lost to another one
\* counts as Failed, and is there.  ("failed" does NOT tell that this import put
\* nothing there: an insert whose reply was lost, or whose enrichment row failed,
\* counts as Failed and stays.)  For an import that is followed by EnrichRows this
\* holds until EnrichRows replaces the status.
VerdictSound ==
    \A r \in Runs :
        runRow[r].status \in {"success", "partial", "failed"}
        /\ ~(Deferred(r) /\ pc[r] \in Ended) =>
            /\ runRow[r].status = "success" => Missing(r) = {}
            /\ Cardinality(Missing(r)) <= res[r].failed
            /\ Missing(r) # {} => faults > 0

\* A transaction without its enrichment row, and without an import about to add
\* it: Insert's second statement failed or was never reached.
Orphan(k) ==
    /\ stored[k] > 0 /\ tag[k] = "none"
    /\ \A r \in Runs : ~(pc[r] = "blank" /\ Key(r) = k)

\* Each orphan is paid for by a failure of its own: a failed statement, an
\* import whose context had ended, or one whose process crashed.  Insert alone,
\* raced by any other import, never leaves one behind.
OrphansExplained ==
    Cardinality({k \in Keys : Orphan(k)}) <=
        faults + Cardinality({r \in Runs : cancelled[r] \/ pc[r] = "dead"})

\* What GET /api/import/{id} shows as unfinished is being worked on, except after a
\* crash, a cancelled context or a failed statement (then the row says "running"
\* or "enriching" for ever); and Run's own verdict is there before EnrichRows
\* starts to work towards the second one.
OpenRunAlive ==
    \A r \in Runs :
        /\ runRow[r].status \in {"running", "enriching"} =>
               pc[r] \in Foreground \union Background \union {"dead"}
               \/ cancelled[r] \/ faults > 0
        /\ pc[r] \in Background => runRow[r].finished \/ faults > 0

\* Importing an older statement after, or concurrently with, a newer one never
\* brings the older balance back: once an import has applied its balance, the
\* account's balance is at least as recent as every balance of its statement,
\* and it is always one that some statement contains for that date.
BalanceCovers ==
    /\ balance.asOf > 0 =>
           \E r \in Runs : \E i \in BalanceRows(job[r].rows) :
               /\ job[r].rows[i].date = balance.asOf
               /\ job[r].rows[i].balance = balance.paise
    /\ faults = 0 =>
           \A r \in Runs :
               pc[r] \in {"categories", "enriching", "done"} \union Background
               /\ ~cancelled[r] =>
                   \A i \in BalanceRows(job[r].rows) :
                       job[r].rows[i].date <= balance.asOf

\* Statements list their rows oldest first.  Run takes the last row with a balance
\* for the latest one, so BalanceCovers is about such statements.
OldestFirst ==
    \A s \in Statements : \A i, j \in BalanceRows(s) : i <= j => s[i].date <= s[j].date

\* A run that shows as running or enriching is eventually closed with a verdict,
\* unless its own process crashes, its own context ends, or a statement fails:
\* crashes and cancellations of other imports never leave it open.
EveryRunClosed ==
    \A r \in Runs : runRow[r].status \in {"running", "enriching"} ~>
        \/ /\ runRow[r].status \in {"success", "partial", "failed"}
           /\ runRow[r].finished
        \/ cancelled[r] \/ pc[r] = "dead" \/ faults > 0

=============================================================================
