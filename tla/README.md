# Finagent: formal model

A TLA+ development for finagent, a personal-finance assistant: bank statements
and broker holdings are imported into PostgreSQL, an LLM categorises the
transactions, and an agent answers questions about them over a CLI, an HTTP API
and Matrix.  Paths below are relative to `src/`.

## 1. The system

| Component | State | Operations | Interacts with |
|---|---|---|---|
| **Statement parsers** `internal/importer/parser` | the rows of a file | detect the bank, find header and columns, read rows | importer |
| **Importer** `internal/importer`, `internal/api/import.go`, `cmd/finagent/import.go`, `internal/store/import_run_store.go` | `import_runs` rows; the counts of a run in memory | `Run` (create run, per row: check key, insert, enrich; counts, verdict), `EnrichRows` in a background goroutine | transactions, accounts, LLM, memories |
| **Transactions and enrichments** `internal/store/transaction_store.go`, `internal/api/transaction.go`, `internal/api/ui.go` | `transactions` (immutable, unique idempotency key), `transaction_enrichments` | `Insert` (two statements), `UpdateEnrichment`, correction by API and page | importer, memories, labels |
| **Labels** `internal/store/label_store.go`, `internal/api/label_api.go`, `internal/tools/manage_labels.go` | `labels` (slug unique across users), `transaction_labels` | `FindOrCreate`, add, remove | agent tools, API, page |
| **Memories** `internal/store/memory_store.go`, `internal/tools/remember_fact.go` | facts, hints, embeddings | save, recall (by embedding, then by tags) | corrections, agent, enricher |
| **Accounts** `internal/store/account_store.go`, `internal/api/account.go` | `accounts`, `account_members`, `account_details`, balance and its date | `Create`, `FindOrCreate`, `UpdateBalance` | importer, deposits, Zerodha |
| **Users and API keys** `internal/store/user_store.go`, `internal/apikey`, `internal/api/auth.go`, `cmd/finagent/user.go`, `cmd/finagent/main.go` | `users` (unique name and key prefix) | `user add`, bootstrap with key rotation, authentication, `resolveUser` | accounts, API |
| **Fixed deposits** `internal/store/fd_store.go`, `internal/tools/manage_fd.go`, `internal/api/fd.go` | `fixed_deposits` (status, renewed_from), one account each | create, mark matured / prematurely closed, renew (one database transaction each) | accounts |
| **Zerodha holdings** `internal/store/zerodha_store.go`, `internal/tools/sync_portfolio.go` | equity and fund holdings with `synced_at`, token with expiry | lazy sync (`ensureFresh`), `ForceSync`, replace holdings | Kite API, accounts |
| **Zerodha login** `cmd/finagent/zerodha.go`, `internal/api/zerodha.go`, `internal/zerodha/nonce.go` | token row; two channels and a temporary server in the CLI | links, callbacks, token exchange, shutdown | Kite API |
| **Agent pool** `internal/agent/pool.go` | map user → agent, single flight group | `get` | Matrix channel, agents |
| **Agent loop** `internal/agent/agent.go` | message list of one request | `HandleMessage`: at most 8 rounds of LLM and tools | LLM, tools, conversations, memories |
| **Conversations** `internal/store/conversation_store.go`, `internal/api/chat.go` | sessions and their messages | `GetOrCreateSession`, `SaveMessage`, `RecentMessages` | agent |
| Query tools, evaluation harness, configuration, HTTP and Matrix plumbing | none of their own | read-only SQL, wiring | – |

What is hard in it:

* **Concurrency without transactions.** API requests, background goroutines and
  CLI processes work on the same tables.  Except for deposits and holdings no
  code path opens a database transaction, so every statement of every request
  interleaves with every other.
* **Check, then act.** A key, an account, an owner or a label is looked up in one
  statement and relied on in another.
* **Partial failure.** Every statement may fail, and may take effect although its
  caller sees an error; contexts end (client gone, two minute limit, SIGINT)
  between any two statements; a process may crash there.  Many errors are
  ignored: those of the last writes of an import, of saving messages, hints and
  account details, of the balance after a sync.
* **Stale reads.** Background enrichment, renewals and hints act on what was read
  before a slow LLM or network call.

What makes each component correct: a statement is read whole; an import never
duplicates or loses a transaction and never reports one twice, its counts add
up, its verdict and the account balance can be relied on; a correction is
remembered and nothing is erased; a key opens the accounts of its user, and an
account has somebody who sees it; a deposit exists once and its terms follow one
another; a holdings cache never calls old data fresh; a broker token belongs to
the user of its link; an agent is built once per user; the agent loop ends and
the requests to the LLM are well formed.

## 2. Modules

| Module | What it is |
|---|---|
| `Statements` | The parsers of the five banks and the detection of the bank |
| `StatementLayout` | What a statement of each bank looks like in print |
| `MCStatements` | Files as the banks print them, and files cut or mixed up |
| `ImportPipeline` | The importer, its callers, its background pass, and the four tables they share |
| `Ledger` | What importing promises about the transactions table (abstract) |
| `MCImport` | Instances of `ImportPipeline` for TLC |
| `ImportPipelineProofs` | Theorems about the ledger, the reports of imports, orphans and the balance, and about the parsers |
| `Tagging` | Corrections, hints and their recall, the background classification, labels |
| `MCTagging`, `TaggingProofs` | An instance for TLC; theorems |
| `Accounts` | Users, API keys, and the accounts that calls create, look for and update |
| `MCAccounts`, `AccountsProofs` | An instance for TLC; theorems |
| `FixedDeposits` | Recording, ending and renewing fixed deposits |
| `MCDeposits`, `FixedDepositsProofs` | An instance for TLC; theorems |
| `HoldingsCache` | The cache of broker holdings and its syncs |
| `MCHoldings`, `HoldingsCacheProofs` | Instances for TLC; theorems |
| `ZerodhaLogin` | Login links, callbacks, and the command that waits for one |
| `MCLogin`, `ZerodhaLoginProofs` | Instance for TLC; theorems |
| `AgentPool` | The pool that gives every user of the Matrix channel one agent |
| `BuildOnce` | What the pool promises (abstract) |
| `MCPool`, `AgentPoolProofs` | Instances for TLC; theorems |
| `Conversation` | A message to the agent: session, history, tool rounds, reply |
| `MCConversation`, `ConversationProofs` | Instances for TLC; theorems |

The modules do not share variables.  The components meet in few places, and each is
inside one module: import, correction and enrichment in `ImportPipeline`; the three
ways to an account in `Accounts`; corrections, memories and the classifier in
`Tagging`; agent loop and stored conversation in `Conversation`.  Two tables appear
twice, each time with the part that matters there: the status of an enrichment in
`ImportPipeline` and its category and notes in `Tagging`; the balance of one account
in `ImportPipeline` and the accounts themselves in `Accounts`.

### Statements

**State.** The file being read (`file`), the bank told from it (`bank`), the index of
the next row, the columns once the header row was found, the account number and the
transactions so far.

**Actions.** `DetectFile` (by extension, else row by row: every registered parser is
asked, the last registered first), `ParseFile` (whether the parser of that bank can
open such a file), then one action per bank that handles one row: before the header,
below it, blank, separator, footer, unreadable; `LastRow`.

**Abstractions.** A cell is what its text says: a date, an amount with or without a
side, zero, nothing, an account number, or one of the texts that matter; `Words` says
which search words the printed titles contain.  Left out: the text of dates and
numbers, thousands separators, holder and IFSC, the guess of the payment mode, the
decryption of SBI's workbook (it may fail).  The parsers of Axis and SBI take the first
word after a heading without asking whether there is one (`axis.go:177`, `sbi.go:101`);
a heading that nothing follows ends them with a panic (`AxisPanics`, `SBIPanics`).
ICICI's account number is cut from a cell that is not blank, and HDFC looks first.
Texts are written with `_` for a
blank, and that of an empty cell is `NoText`: the provers' SMT backend takes neither
blanks in strings nor the empty one.

**Layout.** `StatementLayout` says, without any operator of the parsers' control, what a
bank prints: the titles over the columns and their order, where the account number stands,
what an entry looks like in its row, which rows may stand between entries, what ends a
statement.  A file carries, beside its rows, what it was printed from: bank, account and
entries, and where they stand (`lead`, `header`, `lines`, `end`); no parser reads these.
`FilesAssumption` says that every file is `Printed` so, for files of any length: the rows
above the header may be anything without a title that only one bank prints (`Untitled`),
cells beside the titles anything that is not looked for (`Plain`), the rows between entries
any `Filler`, and a row anywhere may be unreadable.  Files that are no statement (`bank =
None`) have no header at all.  An `.xlsx` may be of any bank: where SBI has not printed
it, it has nowhere the titles of SBI's columns, nor an account number in SBI's place
(`Foreign`).  At least seventeen rows precede SBI's header, because the
rows that are searched for its account number are those above it, as `sbi.go:123` has it
("once we've passed the metadata section").  Nothing is assumed of the texts of entries: a
description may read like a heading or a title.

### ImportPipeline

**State.** Per import (an API request or a CLI invocation): what it was asked
(`job`), the statement it is about to execute (`pc`), its row (`idx`), the counts
of `importer.Result` (`res`), the failures of `EnrichRows` (`enrichFailed`) and
whether its context has ended (`cancelled`).  Of the database: how many
transactions have each idempotency key (`stored`), the `tagging_status` of the
enrichment row of each key (`tag`, `"none"` when there is no row), the
`import_runs` row (`runRow`) and the account balance with its date (`balance`).
`claims` is a history variable: how many imports counted the key under Inserted.
It is not read by any action.

**Actions.** One per database statement, in the order of the code:

    Submit -> CreateRun -> CheckKey -> [LookupKey -> TagRow]              duplicate
                                    -> InsertTransaction -> InsertEnrichment [-> TagRow]
           -> UpdateCounts -> FinishRun -> UpdateBalance
           -> LoadCategories -> MarkEnriching -> BgLookup -> BgTagRow ... -> BgFinish

The inner `TagRow` steps are taken when `Run` has an enricher (CLI); the last line
only by the API with enrichment.  `TagRow` and `BgTagRow` join the LLM call and the
write of its answer: between them the import reads nothing that others write (the
category table is constant).  Every statement has three outcomes (`Succeeds`,
`Fails`, `ReplyLost`); an import whose context has ended can only fail.  `Cancel`,
`CrashServer` (all API imports), `CrashCommand` (one CLI import) and
`PatchEnrichment` (the user's correction) are the environment.

**Abstractions.** One account: keys of different accounts never collide and the
balance is per account.  A description is an opaque value and a date a day number;
an idempotency key is the triple of the fields that are hashed.  Amount and balance
matter only for equality.  An empty statement (possible only for a CLI file without
rows) is left out.  Categories and memories are those of `Tagging`; here an
enrichment keeps its existence and status.

### Tagging

**State.** Category, notes and status of every transaction's enrichment; the memories in
the order they were saved, each with its tags (those that the code derives and those
that the LLM gives to `remember_fact`) and whether it has an embedding; the label of
each slug; the links.  Per request: what it is for, its statement, the category it has
read (`seen`), the hints it has recalled.  `replaced` and `ended` are history.

**Actions.** `Begin` (the door: API, page, agent tool, or the background pass);
`GetByID`, `GetBySlug`, `Correct`, `SaveTaggingHint`, `Reread` (a correction);
`RememberFact`; `RecallTaggingHints`, `EnrichRow` (a classification); `FindLabel`,
`CreateLabel` and one action per door that changes the link.

**Abstractions and assumptions.** A description is the set of its words, and which
descriptions embed close together is a constant.  The counterparty identifier comes with
the transaction: no importer fills it, only data put there otherwise.  The pass and the
tools work on transactions of their own user.  Memories are never deactivated and never
expire, as nothing in the program does either.  A fact that the LLM gives no tags to
gets those of its text (`autoTags`).  The list of categories that tells the old slug may
fail and the hint is saved all the same (`SaveTaggingHint`).  The claim that corrections
are heard is about the recall by tags; which of several near neighbours an embedding
finds first is left open.  `HintLimit` is 3 in the code and 1 in the run, where two
hints then exceed it.  A correction that is overwritten by a later pass is what the code
does: `NothingErased` says what survives.

### Accounts

**State.** Per user the key whose hash is stored (`keyOf`); how far a bootstrap is
(`boot`); accounts, members, details and balances; per call its request, statement,
identified user (`me`) and account (`answer`).  `given` is history: who ever had
which key.

**Actions.** `AddUser`, `StartProcess` and `BootstrapUser` (a process that starts
upserts the users of its configuration one at a time and stops at the first error);
`Receive`; `Authenticate` (prefix, then hash) or `ResolveUser`; then the ways to an
account: `CreateAccount`, `AddMember`, `UpsertDetails` (a new one), `FindOrCreate` (by
the bank of a statement), `CheckOwner` and `HandleImport` (the API looks the id up among
the accounts of the user), `TakeAccount` (`finagent import --account`, which takes any
id); `RunImport`; `UpdateBalance`, the balance that a request sets or that an import
ends with, whose error an import only logs; `Break`.

**Abstractions.** A key is a value with a prefix, and the hash of a key determines it.
Number and institution are what the unique constraint compares; `Fold` is what
`EqualFold` does.  The placeholder number of a statement without one is folded into
`NoNumber`.  A request for an id that does not exist is refused like one of somebody
else.  `RunImport` is one step: `ImportPipeline` has what it does.  Here it matters that
it refers to the account, and that a statement may carry a balance.  The date of birth
that a bootstrap also writes is left out.

### FixedDeposits

**State.** The rows of `fixed_deposits`, each with the number of its account; per
call (a tool call or a request) its arguments (`job`), its statement (`pc`) and the
deposit it has read (`old`).  A row is named after the call that records it.

**Actions.** `Receive`; `UpdateStatus` (mark as matured or closed); `Get`,
`MarkRenewed`, `InsertDeposit`, `Commit` (renewal: one read, then a transaction);
`InsertDeposit`, `Commit` (creation); `Break`.  An uncommitted change is seen by
nobody, so the rows change at `Commit`; what others notice of an open transaction is
its lock on the marked row (`Locking`) and its number (the wait in `InsertDeposit`).
`Commit` and `UpdateStatus` may take effect and lose their reply.

**Abstractions.** One user and one institution, since a number is unique per
institution.  A date is a day of a counted month; the calendar has no leap years.
Interest and notes are left out.  The tenure column keeps its 16 bits.

### HoldingsCache

**State.** The two tables with who fetched each row and when (`synced_at`); the
brokerage account (absent, created without its member, owned), the portfolio its
balance totals, the token.  Per request: the statement it is at, what it fetched, the
changes of its open transaction (`deleted`, `added`), the rows its `DELETE` chose
(`seen`), what it answered.  `raced` and `crossed` are history: the tables that two
transactions were replacing at once, and those that one replaced between the total and
the balance update of another.

**Actions.** In the order of the code:

    LoadToken -> FindAccount [-> CreateAccount -> AddMember]
              -> EnsureFresh -> Read                                      cache fresh
              -> Fetch -> StartDelete -> Delete -> Insert -> Commit       equity
              -> Fetch -> StartDelete -> Delete -> Insert -> Commit       funds
              -> Total -> Total -> UpdateAccountBalance [-> Read]

`ForceSync` skips `EnsureFresh` and `Read`.  The transactions are at PostgreSQL's
default level, READ COMMITTED, and their locks are modelled: a `DELETE` chooses its
rows when it starts, waits for transactions that have deleted them, and skips rows
that are gone; an insert waits for open transactions on the same key and then fails
if the key is there.  `Break` is a failing statement, a failing HTTP call, an ended
context, or the end of the process.

**Abstractions.** One user.  Prices and quantities do not matter: a holding is its
key, and the balance is named by the rows it totals.  The inserts of one transaction
are one action: two transactions that interleave them deadlock or collide, and
PostgreSQL rolls one of them back, which is what the model does with the whole
insert.  Time does not pass while a transaction is open (a tick is hours).

### ZerodhaLogin

**State.** Where the command is (`cmd`), its two channels of capacity one, and the
callback whose token it took; per callback its endpoint, the nonce it came with, its
step and the page the browser got; the stored tokens with their expiry.

**Actions.** `Arrive`; `Verify`, `Lookup`, `Exchange`, `SaveToken` (the API) or
`SendToken` / `SendError` (the command); `ServeFails`, `Select` (any ready branch),
`Shutdown` (waits for callbacks; three seconds if there is a token, without a limit
otherwise), `Save`; `Interrupt`, `Kill`, `Tick`.

**Abstractions.** A nonce is its user and time of issue, or nothing that was signed.
That three seconds may pass at any moment is a choice in `Shutdown`.  The sync that
follows a login is that of `HoldingsCache`.

### AgentPool

**State.** `Pool.entries`; per user, which caller runs the call of the single flight
group (`flight`); per caller (a goroutine handling one message) where it is in `get`
(`pc`), what it holds (`got`) and whether its client is gone (`cancelled`).  `broken`
is history: whose factory call failed.

**Actions.** `FastPath` (read lock), `JoinFlight` (`singleflight.Do`), `Recheck` (the
second read lock), `BuildAgent` (factory), `Publish` (write lock), `EndFlight`
(singleflight forgets the call and releases those who share it), `Cancel`.  The
library is modelled from how `get` uses it.  An agent is named after the caller
whose factory call made it.  Conversations with the agent are not part of the pool.

### Conversation

**State.** The messages of every session (`log`); per message to the agent its text,
the session id it came with and the one it was put into, the request to the LLM as
built so far, its round, the tool calls still to be run, the final text.

**Actions.** `Receive`; `GetSession`, `CreateSession`; `SaveUserMessage`,
`LoadHistory`, `AskLLM`, `ExecuteTool`, `SaveReply`; `Expire` (the client goes, the
deadline passes).  What needs the context fails once it has ended.

**Abstractions.** Tools have no effect here (those that change something are in the
modules of what they change); the LLM answers with any form the client can return.
Recalled memories are not part of a request.  Rooms with ids of their own are
channels that never got one from the server.  The empty text is written
`"empty"`.


## 3. What the runs check

| Run | Instance | What it shows |
|---|---|---|
| `statements` | each of the 5 banks' layouts with 5 lists of entries, with and without blank or half-filled rows, with and without an account number; files that are cut, mixed up or unreadable, headings with nothing after them, `.xlsx` of other banks | a statement that is read is read whole and nothing else is (`StatementWhole`); the bank is told right, unless a row cannot be read, but every `.xlsx` is taken for SBI's (`BankRecognised`) and comes out empty if it is not (`StatementWhole`); the account number is that of the header (`AccountOfTheHeader`); a file is given up only for one of the listed reasons (`OnlyUnreadableFails`). TLC evaluates `FilesAssumption` on every file |
| `import_ledger` | 2 imports, statements of two rows that overlap in one, both modes, 1 fault, 1 crash | a key is stored and claimed once (`RecordedOnce`, `LedgerSpec`); counts add up (`RowsAccounted`); a verdict says of the ledger: success, that no row of the statement is missing; any, that no more are missing than count as Failed, and none without a failed statement (`VerdictSound`); no orphan without a failure that explains it (`OrphansExplained`); an old balance never replaces a newer one (`BalanceCovers`) |
| `import_closed` | 2 imports of a statement with one key twice, contexts end anywhere, 1 crash, 1 correction, fairness | an open run is being worked on (`OpenRunAlive`) and is closed unless its own context or process ends (`EveryRunClosed`) |
| `tagging` | 3 requests on 3 transactions of 2 users, with and without embeddings, 1 fault | a correction that ended has left its hint (`CorrectionRemembered`), and the classifier is given every earlier hint about a counterparty among the keywords of its transaction, unless `HintLimit` newer ones crowd it out or the query failed (`NewestCorrectionHeard`); a label is refused only in a race (`LabelRefusedOnlyInRaces`); category and notes are replaced, never erased (`NothingErased`) |
| `accounts` | 3 calls of 2 users beside an account recorded earlier: accounts added, statements imported (account found, created, looked up by the API, told to the command), balances set; 3 keys of which two share a prefix, rotation of swapped keys, 1 fault | a key opens the accounts of the user it was given to (`KeyOpensItsUser`); an account nobody sees has a failure behind it (`OrphansOnlyByFailure`); imports of one bank that find an account find the same one (`ImportsAgree`); a balance is changed by a member, or by an import that the command was told the account for, and by nobody else (`BalanceByMember`) |
| `deposits` | 3 calls on 2 deposits, 1 fault, a tenure beyond 16 bits, a maturity on 31 January | a renewal is whole (`RenewedHasSuccessor`), numbers are recorded once (`NumberOnce`), a term starts where its predecessor ends, reinvests what its renewal says, and the predecessor shows what was paid out (`TermFollows`) and mature when the months asked for have passed (`MaturesOnTime`) |
| `holdings` | 3 forced syncs of changing portfolios, expiring token | answers of two fetches mix only in overlapping transactions (`MixOnlyInRaces`); the account balance totals the holdings unless a sync broke off or another replaced them between total and update (`BalanceOfHoldings`) |
| `holdings_end` | 2 queries of a new user, clock, holdings sold or bought, 1 fault, fairness | an equity answer was younger than the TTL (`EquityFresh`); what a sync stored stays or goes as a whole (`SyncsWhole`); nobody waits for a lock for ever (`EveryRequestEnds`) |
| `login` | 3 callbacks of 2 users at the command and the API, interruption, expiry, 1 fault, fairness | a stored token is of the user whose link was opened (`TokenOfItsUser`); a login behind a page that says success is lost only in races, failures and interruptions (`LoginLostOnlyInRaces`); a command that took a token ends (`TokenTakenEnds`) |
| `pool` | 4 messages of 2 users, clients go away, 2 failing factories, fairness | one agent per user (`OneAgent`, `BuildOnceSpec`), a message fails only if a factory of its user failed (`FailuresAreOwn`), every message is answered (`EveryMessageAnswered`) |
| `chat` | 2 messages beside an answered one, a window of 3 messages, 2 tool rounds, 1 fault, fairness | the message is in its own request once, stored or not (`QuestionAskedOnce`), and so are the latest turns before it, except a question in the very same words (`RecentTurnsSeen`), every tool call has its result (`CallsAnswered`), every message ends (`EveryMessageEnds`) |
| `chat_session` | 2 messages, no fault | **violated**: `SessionContinues` |

**Bounds.** *Imports*: the hazards are races for one key, so two imports give every
pairwise interleaving; statements of two rows have a row before and after the contested
one, so that an import is anywhere in its loop when the race happens.  *Faults*: at most
one failing statement, one crash and one correction, each at any point; two independent
failures of one import, request or call only make it fail twice.  *Deposits*: three calls
are two rivals and one that renews what they recorded; 39997 months are beyond the
column and end in a February.  *Holdings*: a race for holdings that are already cached
needs three syncs, one that stored them and two that replace them; two symbols are
enough for portfolios that overlap (`Sold`) and that do not (`Traded`); a cache as old
as the TTL needs one tick.  *Pool*: a caller that runs a flight, one that waits for it
and one that missed the cache before it; the fourth message belongs to another user.
*Login*: the channels hold one value each, so the third callback is the first that can
block; one tick is the life of a link and of a token.  *Accounts*: two rivals for a bank
and one call that comes after them; of three keys two share their prefix, and the
configuration gives the two users each other's keys, which is the case in which a
bootstrap stops half-way.  *Tagging*: a correction, one that revises it, and a
classification that hears them; `HintLimit` 1 makes two hints too many.  *Chat*: two
messages and the answered one fill a session beyond the window of 3 (20 in the code);
2 rounds (8 in the code) are one that is followed by another and the last.  An answer
has one call in the run; several are covered by the theorem of `CallsAnswered`.
*Statements*: the entries have debits and credits, a balance of zero, no balance, two
equal rows, and a text that reads like a heading.  The imports of `accounts` are one
into an account of one's own over the API, one into whatever account a command is told,
and those that look for the bank.  Symmetry over imports (requests,
calls) is used in the safety runs, where nothing distinguishes two of them but their
jobs, and not under fairness.

**Types.** The type invariants are theorems (for `Statements`, the part of `ParserInv` that
the proof needs), so the runs do not name them.

**Fairness** (`import_closed`, `holdings_end`, `login`, `pool`, `chat`): weak fairness
of the next statement of each import, request, callback, caller or message, and of the
command in `login`.  The Go scheduler runs every goroutine, every database, LLM and HTTP
call returns, with an answer or an error, and PostgreSQL wakes a transaction when the
locks it waits for are free.  Nothing is assumed of requests, users, crashes,
interruptions and cancellations.

**Deadlock** is checked in all runs: `Settled` is the step of a system whose imports,
requests, callbacks, callers, messages or calls have all ended.

**What the code does not keep.**

* `chat_session`: the API answers with a session id of its own invention
  (`internal/api/chat.go:51`).  `GetOrCreateSession` does not find it and creates a
  session with another id (`internal/store/conversation_store.go:43`), which nobody
  learns.  A client that copies the id of the answer, as `api.http:66` tells it to,
  starts a new conversation with every message.

Also in the models, without a run of their own:

* *Importer.* `Insert` is two statements on the pool; after a crash between them the
  transaction has no enrichment row for ever, although its comment promises that joins
  never miss (`transaction_store.go:97`), the next import skips it as a duplicate, and
  every later update matches no row and reports success.  `EnrichRows` may meet a
  transaction whose enrichment row another import is about to insert: the update is lost
  and the run still says success; it also replaces the verdict of `Run`
  (`importer.go:274`).  A payment and its reversal of the same day, text and amount are
  one key (`importer.go:284`).  The slower of two imports counts a unique violation as
  Failed, not as a duplicate (`InsertTransaction`).  The "most recent" balance is that of
  the last row (`LatestBalance`).
  "failed" may be the verdict of an import that stored a row: one whose reply was lost, or
  whose enrichment insert failed (`VerdictSound` says what a verdict does tell).
* *Parsers.* AGENT.md:81 lists HDFC XLSX and SBI CSV as supported.  `registry.go:69`
  takes every `.xlsx` for SBI's: one of HDFC that opens has none of SBI's titles, and is
  read as a statement without transactions, without an error; an SBI CSV is recognised
  and then opened as a workbook, which fails.  `BankRecognised`, `StatementWhole` and
  `OnlyUnreadableFails` say what the code does with them.  A heading with nothing after
  it ends the parsers of Axis and SBI with a panic (`axis.go:177`, `sbi.go:101`).  IDFC
  lets amounts of zero through, although an amount is "always positive"
  (`parser.go:17`); the comment at `registry.go:62` says `.xls` is always ICICI, and the
  code asks HDFC first.
* *Accounts.* `finagent import --account` does not ask whose account it is
  (`cmd/finagent/import.go:94`): transactions and balance of the statement go to any
  account there is.  The API looks the id up among the accounts of the user
  (`api/import.go:152`).  Two imports of a new bank may both find no account and both
  create one, if the numbers of their statements differ; afterwards every import of that
  bank is refused, because it finds two (`account_store.go:160`).
* *Corrections.* `memoryKeywords` takes words of the description, and the tags of a hint
  are a counterparty and categories (`memory_store.go:190`): without embeddings a hint is
  recalled only if the description spells one of these.  A counterparty that
  `memoryKeywords` does not take from the description is never looked for, and
  `NewestCorrectionHeard` does not speak of it.
* *Deposits.* The status of the old deposit is never looked at, so a repeated renewal
  makes a second active successor and a closed deposit can be renewed or marked again
  (`fd_store.go:277`), and one whose renewal type is none is renewed like any other
  (`manage_fd.go:253`); only a bank number stops it (`NumberOnce`).  A tenure that passes
  validation is cut to 16 bits.  The payout that the schema of `manage_fd` requires is
  not checked when a deposit is marked (`MarkAmounts`).  A deposit of 31 January renewed
  for a month matures in March (`AddMonths`).
* *Holdings.* Two transactions that replace the same holdings do not serialise: the
  `DELETE` of the second chose its rows before the first committed, and the cache holds
  the union of two portfolios until the next sync, although the comment says that all
  holdings are replaced atomically.  Only the equity table is asked for its age and it is
  committed before the funds are fetched, so a fund query may answer with old funds.  The
  total is read and written outside the transactions and may be that of an older
  portfolio (`Total`); `BalanceOfHoldings` says that nothing else does this.  "Find or
  create" of the brokerage account fails for the slower of two first queries
  (`CreateAccount`).  Holdings are kept for 24 hours; AGENT.md:59 says
  four.
* *Conversation.* The comment at `agent.go:170` says "Skip the last user message — we append
  it separately below to avoid duplication"; the code below it skips every message of the
  user in the history that has the text of the new one (`agent.go:171`).  A question that
  is asked again loses its earlier occurrence, whose answer then follows on nothing, and
  this with room in the window too (`Repeats`, `RecentTurnsSeen`).  An answer is stored
  although its question was not (`agent.go:76`), and
  a failed lookup of a session starts a new one (`conversation_store.go:33`).

## 4. What is proved

Every invariant and every action property that a passing run checks is a theorem, and so
are the two refinements.  The theorems hold for every value of the constants.  Their
assumptions are the named `ASSUME`s of the module they are about, which TLC evaluates in
its runs, and one more, `OldestFirst`, of `BalanceCovers`.  Each proof has an inductive
invariant (`IInv`; `CInv` for `Conversation`, `ParserInv` for `Statements`) with the lemmas
"initially", "each action keeps it" and "stuttering keeps it", and the temporal step that
makes it hold always (`Invariant`, or a lemma named after it).  Theorem `XAlways` states
property `X`; it follows from the invariant or from one more induction on top of it.
`TypeCorrect` (`Spec => []TypeOK`) is a theorem of every proof module.

**`ImportPipelineProofs`** has four parts about the importer and one about the parsers that
feed it.

* `RowInRangeAlways`, `RecordedOnceAlways`, and `ImplementsLedger`, the refinement of
  `Ledger` under the identity on `stored` and `claims`.  "At most one claim" is not
  inductive.  The strengthening in `RecordedOnce` is about imports between the two
  statements of `Insert`: the transaction of such an import is stored and nobody has
  claimed it, and no two imports are there for the same key.  The unique constraint gives
  this when an import arrives (`InsertRecords`), the claim takes place when it leaves
  (`InsertClaims`), and all other steps leave ledger and the set of such imports alone or
  shrink it (`OtherSteps`, `RecordedOnceQuiet`).
* `RowsAccountedAlways`, `VerdictSoundAlways`, `OpenRunAliveAlways`.  Per import: the
  counts add up to the rows behind it (`CountsFit`), of the rows behind it no more are
  missing from the ledger than were counted as Failed, and none while nothing has failed
  (`LossCounted`, `RowsStored`), the row of the run says what the counts say
  (`VerdictFits`) and what was true of the ledger stays so (`VerdictTold`), and a run
  that ended open has an ended context or a fault (`ClosedBySomebody`).
* `OrphansExplainedAlways` compares two cardinalities.  Orphans do not appear when
  something fails but when the import that would have added the enrichment gives up, so
  the invariant (`Explained`) counts the transactions whose enrichment nobody is about to
  add (`Exposed`), and beside the faults only the imports that were stopped in the middle
  of their rows (`Stopped`).  One fault or one stopped import exposes at most one
  transaction, since an import is at one key at a time and two imports are never at the
  same one (`ExposedStep`); a crash stops many at once, and `Budget` is the arithmetic.
* `BalanceCoversAlways`: a known balance comes from a row of a statement
  (`BalanceFromStatement`), and an import that has applied its balance is covered by the
  one of the account for ever (`BalanceApplied`).  `LatestBalance` takes the last row that
  carries a balance, as the code does, and not the latest one: hence the assumption
  `OldestFirst`, that a statement lists its rows by date.  TLC evaluates it in `MCImport`.
  That the last such row exists uses the least element of a set of naturals
  (`GreatestExists`).
* `StatementWholeAlways`, `BankRecognisedAlways`, `AccountOfTheHeaderAlways`,
  `OnlyUnreadableFailsAlways`, for every statement laid out as `StatementLayout` says.
  The invariant (`ParserInv`): above the header nothing has been taken but the account
  number, which is the first that the rows passed say (`AboveHeader`, `AccountIn`);
  below it the columns are the printed ones, and what was read are the entries of the
  rows passed, as a prefix of the statement's (`BelowHeader`, `EntriesRead`); a parser
  that is done has read them all, one that gave up had a reason (`CannotRead`).  For an
  `.xlsx` that is not SBI's the invariant is another and short (`ForeignInv`,
  `ForeignStep`): no header is found and nothing is taken.  A heading that nothing
  follows does not stand under the titles (`NoHeading`), and a parser that it has ended
  stays where it was (`PanicsStay`).  Three arguments carry it.  The titles: for each
  bank and each word its parser looks for, the first title that contains it is the one
  of that column (`AxisTitles` and its kind), no parser that is asked earlier takes the
  row for its own (`AxisTold` and its kind, `DetectLast`), and rows without titles are
  nobody's (`DetectNothing`).  The rows: under the titles each of the five handlers
  takes exactly the printed entry of a line (`LineStep`), passes a filler (`FillerStep`)
  and ends at a footer (`FooterStep`).  The order: since lines follow one another, the
  entries whose lines were passed are a prefix, and the next line adds the next of them
  (`NextEntry`, `NoEntry`, `AllRead`).  No recursion over the rows is needed, because
  the parser is a state machine and the prefix is part of its invariant.

**`TaggingProofs`**: `CorrectionRememberedAlways`, `NewestCorrectionHeardAlways`,
`LabelRefusedOnlyInRacesAlways`, `NothingErasedAlways`.  What a request has looked up
before its update is still about its transaction (`Prepared`), whoever has ended stays so
(`EndedStays`), a label that was missed is still missing or was created by somebody
running at the same time (`NoneMissed`), and a correction past its hint has saved it
(`Hinted`).  For the hints that are heard: what the recall leaves out of the hints that match
is older than exactly `HintLimit` of those it takes (`CrowdedOut`, by climbing from the hint
to the last one with that many above it, `Climb`), and those that are saved between recall
and classification are of requests that had not ended when the pass began (`Heard`).

**`AccountsProofs`**: `KeyOpensItsUserAlways`, `OrphansOnlyByFailureAlways`,
`ImportsAgreeAlways`, `BalanceByMemberAlways`.  A call has identified a user it may act for
(`Prepared`), who is one that had its key (`KeysGiven`); what it creates is of its bank, and
it is a member before it goes on (`Created`); one that imports or is about to write a balance
is a member of the account, found it by its bank, or was told it (`OwnerChecked`, `Told`), and
memberships are never taken away; an account that an import has found by its bank is one it
would find again (`FoundStays`).

**`FixedDepositsProofs`**: `RenewedHasSuccessorAlways`, `TermEndsAlways`,
`NumberOnceAlways`, `TermFollowsAlways`, `MaturesOnTimeAlways`.  A call's row is absent
and the deposit it works on is recorded (`CallsReady`); what it read of the columns that
nobody updates is still there (`ReadsHold`, the reason why the stale read does not break
`TermFollows`); a term that is recorded is made of its call, and its predecessor shows
what that call said unless another call worked on it (`TermsReinvest`); its number is
free and no other transaction is about to record it (`NumbersClear`).  For the dates:
those of a recorded term and of its call never change (`TermsKept`), and adding months
to a day ends at most three days after a month that is too short because a month has 28
to 31 days (`AddMonthsOnTime`).

**`HoldingsCacheProofs`**: `SyncsWholeAlways`, `MixOnlyInRacesAlways`,
`BalanceOfHoldingsAlways`, `EquityFreshAlways`.  Syncs start with equity (`AtStart`); a
request that has not inserted has no rows (`Unborn`), one that has, has all of its answer
(`Complete`); rows of one sync are deleted together (`Together`) and are of one age
(`OneAge`), and what an open transaction leaves there is of the current time; whoever
replaces a table alone replaces all of it (`Alone`); and what was fresh when a query looked
is younger than the TTL until it reads (`FreshSince`).  For the balance: a total that
somebody carries to its update is that of the table unless the table was `crossed`
(`TotalsCurrent`), and where the balance is not that of the table somebody who replaced it
has not written the balance yet (`BalanceFollows`).

**`ZerodhaLoginProofs`**: `TokenOfItsUserAlways`, `LoginLostOnlyInRacesAlways`.  Behind the
verification a callback has a link that was accepted (`LinkAccepted`); a token in the
channel or taken from it is of such a callback (`TokenOnItsWay`, `TokenKept`); and as long
as nothing disturbs the command, a page that says success has its token in the channel, in
the hands of the command, or stored (`Undisturbed`).

**`AgentPoolProofs`**: `OneAgentAlways`, `FailuresAreOwnAlways` and `ImplementsBuildOnce`,
the refinement of `BuildOnce`.  The invariants are inductive together with `OneFlight`
(one caller per user is past `JoinFlight`, which is why the second look at the cache under
the flight is enough) and `BlameKnown` (an error that a caller is about to hand to others
is of a factory call that failed).

**`ConversationProofs`**: `CallsAnsweredAlways`, `QuestionAskedOnceAlways`,
`RecentTurnsSeenAlways`.  Per message (`Handled`): while tools run, all calls of the
last answer but the pending ones have their results, and those of the answers before it
are complete (`Answered`); the question is at one place of the request, with nothing of
its own before it but the system prompt, and nothing but its own rounds behind it
(`Asked`); the request holds the window of the log as it was at some earlier length, and
what came later is not of a message answered before (`Recalled`).  The log of a session
holds a message once as question, in its own words, and once as answer, and only after
it was saved (`LogFits`, `HistoryLogged`): what the history may hold of a message that
is being answered is its stored copy, and that is the one that `Repeats` recognises.
Which messages of the history go into a request is a recursive function (`Others`); what
it keeps is shown with the least element of a set of naturals in place of an induction
(`UpTo`, `OthersRecursion`, `OthersKept`, `RecentWindow`).

**Only model-checked** is liveness: `EveryRunClosed`, `EveryRequestEnds`, `TokenTakenEnds`,
`EveryMessageAnswered`, `EveryMessageEnds`.  Fairness is out of the prover's reach.

## 5. Not modelled

* Queries that only read: list, count and spending queries, the pages that show them, the
  query tools, `recall_facts`, `finagent enrich` (prints a classification and stores
  nothing).
* The evaluation harness: prompts against a live LLM, and a report.
* Generated code of lists and reports.  The generated statements that change or decide
  something are inside the actions that execute them.
* Start-up, routing, configuration, HTTP and Matrix plumbing; the session cookie of the
  page, a signed user id.
* Columns that no property could tell apart: date of birth, holder and IFSC of a
  statement, the guess of a payment mode, interest and notes of a deposit.
* The backfill of the client code of brokerage accounts from before that column existed.

What could follow: `DetectPaymentMode`, slugs and keyword extraction against reference
definitions of their own.
