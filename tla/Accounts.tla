------------------------------ MODULE Accounts ------------------------------
(***************************************************************************)
(* Users and their API keys, and the accounts they own.  A call is a       *)
(* request to the API, which presents a key, or a command, which names its *)
(* user.  It creates an account, sets a balance, or imports a statement:   *)
(* into the account it names, or into the one that is found for the bank,  *)
(* or created.  An import ends with the balance of the statement.  Each    *)
(* statement of a call is a step of its own: no database transaction is    *)
(* open across them.  An account is named after the call that created it.  *)
(***************************************************************************)
EXTENDS Naturals, Sequences, FiniteSets

CONSTANTS
    Calls, Jobs,       \* calls, and what they may ask for
    Users, NameOf,     \* users by username, and their names
    Keys, Prefix,      \* API keys, and their first sixteen characters
    ConfiguredKeys,    \* the users of the configuration, in order: <<user, key>>
    Institutions, Fold, \* institutions as written, and regardless of case
    Numbers, NoNumber, \* account numbers; none in the statement
    None,
    Dates,
    Earlier,           \* calls done before: <<call, job, user, key>>
    MaxFaults          \* bound: failing statements, and processes that end

ASSUME NamesAssumption ==
    /\ None \notin Calls \union Users \union Keys
    /\ NoNumber \notin Numbers
    /\ IsFiniteSet(Calls)
    /\ ConfiguredKeys \in Seq(Users \X Keys)
ASSUME BoundsAssumption == Dates \subseteq Nat /\ MaxFaults \in Nat

\* parseAccountType, the same in the API and the command.
AccountType ==
    [savings |-> "bank_savings", current |-> "bank_current", salary |-> "bank_salary",
     credit_card |-> "credit_card", loan |-> "loan", wallet |-> "wallet",
     fd |-> "fd", ppf |-> "ppf"]

Asked ==
    [door : {"api", "command"}, who : Keys \union Users \union {None},
     do : {"create", "import", "balance"},
     named : BOOLEAN,                   \* the account is named by its id
     institution : Institutions,
     number : Numbers \union {NoNumber}, type : DOMAIN AccountType, on : Dates]

\* Called with the key of the user that the account is now one of.
ASSUME EarlierAssumption ==
    \A e \in Earlier : /\ e \in Calls \X Asked \X Users \X Keys
                       /\ e[2].do = "create" /\ e[2].door = "api" /\ e[2].who = e[4]
                       /\ e[2].number # NoNumber
\* An account number is required to add an account.  Every request about an account
\* names it; there is no command that only sets a balance.
ASSUME JobsAssumption ==
    /\ Jobs \subseteq Asked
    /\ \A j \in Jobs :
          /\ j.do = "create" => j.number # NoNumber
          /\ (j.door = "api" /\ j.do # "create") => j.named
          /\ j.do = "balance" => j.door = "api"

VARIABLES
    keyOf,      \* users: the key of each, None if there is no such user
    given,      \* history: who has ever had which key
    boot,       \* bootstrapUsers: the next user of the configuration, 0 if idle
    account,    \* accounts: by the call that created it
    members,    \* account_members
    details,    \* account_details: the number recorded there
    balance,    \* the date of the balance, and the call that set it
    job, pc,
    me,         \* the user of a call
    answer,     \* the account it ended with
    faults

tables == <<account, members, details, balance>>
people == <<keyOf, given, boot>>
vars == <<people, tables, job, pc, me, answer, faults>>

Ended == {"done", "refused", "conflict", "failed"}
Active == {"identify", "list", "insert", "member", "details", "run", "balance"}

AccountTypeEnum ==
    {"bank_savings", "bank_current", "bank_salary", "credit_card", "loan", "mortgage",
     "demat", "brokerage", "ppf", "epf", "nps", "fd", "crypto", "wallet"}
Account == [institution : Institutions, number : Numbers, type : AccountTypeEnum]

ASSUME NoneAssumption == None \notin Account \union Asked

NewAccount(j) ==
    [institution |-> j.institution, number |-> j.number,
     type |-> IF j.do = "import" THEN "bank_savings" ELSE AccountType[j.type]]

Done(c) == \E e \in Earlier : e[1] = c
Before(c) == CHOOSE e \in Earlier : e[1] = c

Init ==
    /\ keyOf = [u \in Users |-> IF \E e \in Earlier : e[3] = u
                               THEN (CHOOSE e \in Earlier : e[3] = u)[4] ELSE None]
    /\ given = {<<e[4], e[3]>> : e \in Earlier} /\ boot = 0
    /\ account = [c \in Calls |-> IF Done(c) THEN NewAccount(Before(c)[2]) ELSE None]
    /\ members = [c \in Calls |-> IF Done(c) THEN {Before(c)[3]} ELSE {}]
    /\ details = [c \in Calls |-> NoNumber]
    /\ balance = [c \in Calls |-> None]
    /\ job = [c \in Calls |-> IF Done(c) THEN Before(c)[2] ELSE None]
    /\ pc = [c \in Calls |-> IF Done(c) THEN "done" ELSE "idle"]
    /\ me = [c \in Calls |-> IF Done(c) THEN Before(c)[3] ELSE None]
    /\ answer = [c \in Calls |-> IF Done(c) THEN c ELSE None]
    /\ faults = 0

Goto(c, l) == pc' = [pc EXCEPT ![c] = l]
Fault == faults < MaxFaults /\ faults' = faults + 1
Registered == {u \in Users : keyOf[u] # None}

-----------------------------------------------------------------------------
\* username and api_key_prefix are unique: an upsert keeps the first and replaces
\* the key, but a prefix that another user has is refused.
HasPrefix(u, k) == keyOf[u] # None /\ Prefix[keyOf[u]] = Prefix[k]
Upsert(u, k) ==
    /\ \A v \in Users \ {u} : ~HasPrefix(v, k)
    /\ keyOf' = [keyOf EXCEPT ![u] = k]
    /\ given' = given \union {<<k, u>>}

\* "finagent user add": a new user with a key of its own.
AddUser(u, k) ==
    /\ u \notin Registered /\ Upsert(u, k)
    /\ UNCHANGED <<boot, tables, job, pc, me, answer, faults>>

\* A process starts: it upserts the users of its configuration one by one, and gives
\* up at the first error, what it has changed stays.
StartProcess ==
    /\ boot = 0 /\ Len(ConfiguredKeys) > 0 /\ boot' = 1
    /\ \E i \in 1..Len(ConfiguredKeys) : keyOf[ConfiguredKeys[i][1]] # ConfiguredKeys[i][2]
    /\ UNCHANGED <<keyOf, given, tables, job, pc, me, answer, faults>>

BootstrapUser ==
    LET u == ConfiguredKeys[boot][1]
        k == ConfiguredKeys[boot][2] IN
    /\ boot > 0
    /\ \/ Upsert(u, k) /\ boot' = (IF boot = Len(ConfiguredKeys) THEN 0 ELSE boot + 1)
       \/ (\E v \in Users \ {u} : HasPrefix(v, k)) /\ boot' = 0 /\ UNCHANGED <<keyOf, given>>
    /\ UNCHANGED <<tables, job, pc, me, answer, faults>>

-----------------------------------------------------------------------------
Receive(c) ==
    /\ pc[c] = "idle" /\ Goto(c, "identify")
    /\ \E j \in Jobs : job' = [job EXCEPT ![c] = j]
    /\ UNCHANGED <<people, tables, me, answer, faults>>

\* Create of the API and of "account add" inserts at once; the others look first.
FirstStep(c) == IF job[c].do = "create" THEN "insert" ELSE "list"

\* authMiddleware: the user is found by the prefix, then the whole key is compared.
Verify_Prefix(k, stored) == Prefix[k] = Prefix[stored]
Verify(k, stored) == k = stored

Authenticate(c) ==
    LET k == job[c].who IN
    /\ pc[c] = "identify" /\ job[c].door = "api"
    /\ \/ \E u \in Users :
             /\ HasPrefix(u, k) /\ Verify(k, keyOf[u])
             /\ me' = [me EXCEPT ![c] = u] /\ Goto(c, FirstStep(c))
       \/ /\ \A u \in Users : ~(HasPrefix(u, k) /\ Verify(k, keyOf[u]))
          /\ Goto(c, "refused") /\ UNCHANGED me
    /\ UNCHANGED <<people, tables, job, answer, faults>>

\* resolveUser: a username or e-mail address, else a name; without either the only
\* user there is.
Matching(id) ==
    IF id = None THEN IF Cardinality(Registered) = 1 THEN Registered ELSE {}
    ELSE IF id \in Registered THEN {id}
    ELSE {u \in Registered : NameOf[u] = id}

ResolveUser(c) ==
    /\ pc[c] = "identify" /\ job[c].door = "command"
    /\ \/ \E u \in Matching(job[c].who) :
             me' = [me EXCEPT ![c] = u] /\ Goto(c, FirstStep(c))
       \/ Matching(job[c].who) = {} /\ Goto(c, "refused") /\ UNCHANGED me
    /\ UNCHANGED <<people, tables, job, answer, faults>>

\* ListAccountsByUser: an account is found through its member.
AccountsOf(u) == {a \in Calls : account[a] # None /\ u \in members[a]}

\* EqualFold on the institution.  The account number of the statement is not looked at.
Matches(c) ==
    {a \in AccountsOf(me[c]) : Fold[account[a].institution] = Fold[job[c].institution]}

\* One match is used, more are an error.
Usable_First(found) == found # {}
Usable(found) == Cardinality(found) = 1

FindOrCreate(c) ==
    /\ pc[c] = "list" /\ job[c].do = "import" /\ ~job[c].named
    /\ \/ /\ Usable(Matches(c)) /\ Goto(c, "run")
          /\ \E a \in Matches(c) : answer' = [answer EXCEPT ![c] = a]
       \/ /\ Matches(c) = {} /\ job[c].number # NoNumber
          /\ Goto(c, "insert") /\ UNCHANGED answer
       \/ /\ ~Usable(Matches(c)) /\ (Matches(c) # {} \/ job[c].number = NoNumber)
          /\ Goto(c, "failed") /\ UNCHANGED answer
    /\ UNCHANGED <<people, tables, job, me, faults>>

\* "finagent import --account": any id is taken, whosever account it is, if any.
TakeAccount(c) ==
    /\ pc[c] = "list" /\ job[c].do = "import" /\ job[c].named /\ job[c].door = "command"
    /\ \E a \in Calls : answer' = [answer EXCEPT ![c] = a]
    /\ Goto(c, "run")
    /\ UNCHANGED <<people, tables, job, me, faults>>

\* The API looks the id up among the accounts of the user.
MayUpdate_Any(c) == {a \in Calls : account[a] # None}
MayUpdate(c) == AccountsOf(me[c])

CheckOwner(c) ==
    /\ pc[c] = "list" /\ job[c].do = "balance"
    /\ \/ \E a \in MayUpdate(c) :
             answer' = [answer EXCEPT ![c] = a] /\ Goto(c, "balance")
       \/ Goto(c, "refused") /\ UNCHANGED answer       \* an id that is not one of them
    /\ UNCHANGED <<people, tables, job, me, faults>>

HandleImport(c) ==
    /\ pc[c] = "list" /\ job[c].do = "import" /\ job[c].door = "api"
    /\ \/ \E a \in MayUpdate(c) :
             answer' = [answer EXCEPT ![c] = a] /\ Goto(c, "run")
       \/ Goto(c, "refused") /\ UNCHANGED answer
    /\ UNCHANGED <<people, tables, job, me, faults>>

-----------------------------------------------------------------------------
\* uq_accounts_institution_ext_account_id, which knows upper and lower case, and
\* accounts nobody is a member of.
Taken(j) ==
    {a \in Calls : account[a] # None /\ account[a].institution = j.institution
                                    /\ account[a].number = j.number}

\* The member is added whoever creates the account.
AfterInsert_Import(c) == IF job[c].do = "import" THEN "details" ELSE "member"
AfterInsert(c) == "member"

CreateAccount(c) ==
    /\ pc[c] = "insert"
    /\ \/ /\ Taken(job[c]) = {} /\ Goto(c, AfterInsert(c))
          /\ account' = [account EXCEPT ![c] = NewAccount(job[c])]
          /\ UNCHANGED faults
       \/ /\ Taken(job[c]) # {} /\ Goto(c, "conflict")
          /\ UNCHANGED <<account, faults>>
       \/ /\ Taken(job[c]) = {} /\ Fault /\ Goto(c, "failed")   \* the reply is lost
          /\ account' = [account EXCEPT ![c] = NewAccount(job[c])]
    /\ UNCHANGED <<people, members, details, balance, job, me, answer>>

AddMember(c) ==
    /\ pc[c] = "member"
    /\ members' = [members EXCEPT ![c] = @ \union {me[c]}]
    /\ \/ /\ job[c].do = "import" /\ Goto(c, "details") /\ UNCHANGED <<answer, faults>>
       \/ /\ job[c].do = "create" /\ Goto(c, "done") /\ UNCHANGED faults
          /\ answer' = [answer EXCEPT ![c] = c]
       \/ Fault /\ Goto(c, "failed") /\ UNCHANGED answer
    /\ UNCHANGED <<people, account, details, balance, job, me>>

\* Its error is ignored.
UpsertDetails(c) ==
    /\ pc[c] = "details" /\ Goto(c, "run")
    /\ answer' = [answer EXCEPT ![c] = c]
    /\ \/ details' = [details EXCEPT ![c] = job[c].number] /\ UNCHANGED faults
       \/ Fault /\ UNCHANGED details
    /\ UNCHANGED <<people, account, members, balance, job, me>>

\* Importer.Run in one step (ImportPipeline has its own).  Its run and its rows refer to
\* the account, which must be there; a statement may carry a balance.
RunImport(c) ==
    /\ pc[c] = "run"
    /\ \/ account[answer[c]] # None /\ (Goto(c, "balance") \/ Goto(c, "done"))
       \/ account[answer[c]] = None /\ Goto(c, "failed")
    /\ UNCHANGED <<people, tables, job, me, answer, faults>>

\* balance_as_of IS NULL OR balance_as_of <= @as_of.
Newer(c) == LET old == balance[answer[c]] IN old # None => old.on <= job[c].on

\* An import is done all the same, its error is only logged.
AfterError(c) == IF job[c].do = "import" THEN "done" ELSE "failed"

UpdateBalance(c) ==
    /\ pc[c] = "balance"
    /\ \/ /\ Newer(c)
          /\ balance' = [balance EXCEPT ![answer[c]] = [on |-> job[c].on, by |-> c]]
          /\ \/ Goto(c, "done") /\ UNCHANGED faults
             \/ Fault /\ Goto(c, AfterError(c))          \* the reply is lost
       \/ ~Newer(c) /\ Goto(c, "done") /\ UNCHANGED <<balance, faults>>
       \/ Fault /\ Goto(c, AfterError(c)) /\ UNCHANGED balance
    /\ UNCHANGED <<people, account, members, details, job, me, answer>>

\* A failing statement, a context that ends, a process that ends.
Break(c) ==
    /\ pc[c] \in Active /\ Fault /\ Goto(c, "failed")
    /\ UNCHANGED <<people, tables, job, me, answer>>

Settled == (\A c \in Calls : pc[c] \in Ended) /\ UNCHANGED vars

Next ==
    \/ \E u \in Users, k \in Keys : AddUser(u, k)
    \/ StartProcess \/ BootstrapUser \/ Settled
    \/ \E c \in Calls :
          \/ Receive(c) \/ Authenticate(c) \/ ResolveUser(c) \/ FindOrCreate(c)
          \/ TakeAccount(c) \/ CheckOwner(c) \/ HandleImport(c)
          \/ CreateAccount(c) \/ AddMember(c) \/ UpsertDetails(c)
          \/ RunImport(c) \/ UpdateBalance(c) \/ Break(c)

Spec == Init /\ [][Next]_vars

-----------------------------------------------------------------------------
TypeOK ==
    /\ keyOf \in [Users -> Keys \union {None}] /\ given \subseteq Keys \X Users
    /\ boot \in 0..Len(ConfiguredKeys)
    /\ account \in [Calls -> Account \union {None}]
    /\ members \in [Calls -> SUBSET Users]
    /\ details \in [Calls -> Numbers \union {NoNumber}]
    /\ balance \in [Calls -> [on : Dates, by : Calls] \union {None}]
    /\ job \in [Calls -> Asked \union {None}]
    /\ pc \in [Calls -> {"idle"} \union Active \union Ended]
    /\ me \in [Calls -> Users \union {None}]
    /\ answer \in [Calls -> Calls \union {None}]
    /\ faults \in 0..MaxFaults

\* A key opens the accounts of a user only if that user has been given that very key:
\* keys that share a prefix, a rotation and a half-done bootstrap do not mix people up.
KeyOpensItsUser ==
    \A c \in Calls : me[c] # None /\ job[c].door = "api" => <<job[c].who, me[c]>> \in given

\* An account without a member, which nobody sees and which blocks its number for
\* ever, comes from a failure between two statements, and from nothing else.
OrphansOnlyByFailure ==
    \A a \in Calls : account[a] # None /\ members[a] = {} => pc[a] = "member" \/ faults > 0

\* An import that found its account by the bank of the statement.
FoundByBank(c) ==
    answer[c] \notin {None, c} /\ job[c].do = "import" /\ ~job[c].named

\* Statements of one user and bank that find an account all find the same one, whatever
\* accounts are created between and while they look: transactions are not scattered.
ImportsAgree ==
    \A c, d \in Calls :
        /\ FoundByBank(c) /\ FoundByBank(d)
        /\ me[c] = me[d] /\ Fold[job[c].institution] = Fold[job[d].institution]
        => answer[c] = answer[d]

\* A step that changes a balance is one of a call whose user is a member of the account,
\* or an import of the command that was told the account by its id (nobody checks whose
\* it is); an import that was not told sets it only for an account of its bank.
BalanceByMember ==
    [][\A a \in Calls : balance'[a] # balance[a] =>
          LET c == balance'[a].by IN
          /\ \/ me[c] \in members[a]
             \/ job[c].door = "command" /\ job[c].do = "import" /\ job[c].named
          /\ (job[c].do = "import" /\ ~job[c].named)
                => Fold[account[a].institution] = Fold[job[c].institution]]_vars

=============================================================================
