--------------------------- MODULE AccountsProofs ---------------------------
(***************************************************************************)
(* Theorems about Accounts, for every set of calls, users, keys, accounts  *)
(* that are there before, and any number of failures.                      *)
(***************************************************************************)
EXTENDS Accounts, TLAPS, FiniteSetTheorems

\* What a call has when it gets to a statement; before its account is inserted it has
\* none, and before it is identified it has no user.
Prepared == \A c \in Calls :
    /\ pc[c] # "idle" => job[c] \in Asked
    /\ pc[c] = "insert" => job[c].number # NoNumber
    /\ job[c] # None /\ job[c].do = "create" => job[c].number # NoNumber
    /\ job[c] # None /\ job[c].door = "api" /\ job[c].do = "import" => job[c].named
    /\ pc[c] \in {"idle", "identify"} => me[c] = None
    /\ pc[c] \in {"idle", "identify", "list"} => answer[c] = None
    /\ pc[c] \in {"list", "insert", "member", "details", "run", "balance"} => me[c] \in Users
    /\ pc[c] \in {"idle", "identify", "list", "insert"} => account[c] = None /\ members[c] = {}

\* Every key in use was given to its user.
KeysGiven == \A u \in Users : keyOf[u] # None => <<keyOf[u], u>> \in given

\* What a call has created is of its bank, and before the details it is a member of it.
Created == \A c \in Calls :
    /\ pc[c] \in {"member", "details"} =>
           account[c] # None /\ account[c].institution = job[c].institution
    /\ pc[c] = "details" => me[c] \in members[c]

\* The command was told the account by its id.
Told(c) == job[c].door = "command" /\ job[c].do = "import" /\ job[c].named

\* A call about to import or to set a balance has an account of its user, unless it was
\* told one; if it looked for it, one of its bank.
OwnerChecked == \A c \in Calls :
    pc[c] \in {"run", "balance"} =>
        /\ answer[c] \in Calls
        /\ Told(c) \/ (account[answer[c]] # None /\ me[c] \in members[answer[c]])
        /\ (job[c].do = "import" /\ ~job[c].named) =>
               Fold[account[answer[c]].institution] = Fold[job[c].institution]

\* The account that an import has found is one that it would still find.
FoundStays == \A c \in Calls : FoundByBank(c) => answer[c] \in Matches(c)

IInv ==
    /\ TypeOK /\ Prepared /\ KeysGiven /\ Created /\ OwnerChecked /\ FoundStays
    /\ KeyOpensItsUser /\ OrphansOnlyByFailure /\ ImportsAgree

-----------------------------------------------------------------------------
LEMMA NewAccountType ==
    ASSUME NEW j \in Asked, j.number # NoNumber
    PROVE  NewAccount(j) \in Account /\ NewAccount(j) # None
<1>1. /\ j.institution \in Institutions /\ j.number \in Numbers
      /\ j.type \in DOMAIN AccountType
  BY DEF Asked
<1>2. AccountType[j.type] \in AccountTypeEnum
  BY <1>1 DEF AccountType, AccountTypeEnum
<1>3. NewAccount(j).type \in AccountTypeEnum
  BY <1>2 DEF NewAccount, AccountTypeEnum
<1>4. NewAccount(j) \in Account
  BY <1>1, <1>2 DEF NewAccount, Account, AccountTypeEnum
<1> QED
  BY <1>4, NoneAssumption

LEMMA BeforeEarlier ==
    ASSUME NEW c \in Calls, Done(c)
    PROVE  /\ Before(c) \in Earlier /\ Before(c)[1] = c
           /\ Before(c)[2] \in Asked /\ Before(c)[2].do = "create"
           /\ Before(c)[2].door = "api" /\ Before(c)[2].who = Before(c)[4]
           /\ Before(c)[2].number # NoNumber
           /\ Before(c)[3] \in Users /\ Before(c)[4] \in Keys
<1>1. Before(c) \in Earlier /\ Before(c)[1] = c
  BY DEF Done, Before
<1>2. Before(c) \in Calls \X Asked \X Users \X Keys
  BY <1>1, EarlierAssumption
<1> QED
  BY <1>1, <1>2, EarlierAssumption

LEMMA InitInvariant == Init => IInv
<1> SUFFICES ASSUME Init PROVE IInv
  OBVIOUS
<1>1. ASSUME NEW u \in Users, keyOf[u] # None
      PROVE  \E e \in Earlier : e[3] = u /\ keyOf[u] = e[4]
  <2>1. \E e \in Earlier : e[3] = u
    BY <1>1 DEF Init
  <2> DEFINE f == CHOOSE e \in Earlier : e[3] = u
  <2>2. f \in Earlier /\ f[3] = u
    BY <2>1
  <2> QED
    BY <2>1, <2>2 DEF Init
<1>2. \A e \in Earlier : e[3] \in Users /\ e[4] \in Keys
  BY EarlierAssumption
<1>3. TypeOK
  <2>1. keyOf \in [Users -> Keys \union {None}]
    <3>1. \A u \in Users : keyOf[u] \in Keys \union {None}
      BY <1>1, <1>2
    <3> QED BY <3>1 DEF Init
  <2>2. given \subseteq Keys \X Users
    BY <1>2 DEF Init
  <2>3. boot \in 0..Len(ConfiguredKeys)
    BY NamesAssumption DEF Init
  <2>4. account \in [Calls -> Account \union {None}]
    <3>1. \A c \in Calls : Done(c) => NewAccount(Before(c)[2]) \in Account
      BY BeforeEarlier, NewAccountType
    <3> QED BY <3>1 DEF Init
  <2>5. members \in [Calls -> SUBSET Users]
    <3>1. \A c \in Calls : Done(c) => {Before(c)[3]} \subseteq Users
      BY BeforeEarlier
    <3> QED BY <3>1 DEF Init
  <2>6. job \in [Calls -> Asked \union {None}]
    <3>1. \A c \in Calls : Done(c) => Before(c)[2] \in Asked
      BY BeforeEarlier
    <3> QED BY <3>1 DEF Init
  <2>7. me \in [Calls -> Users \union {None}]
    <3>1. \A c \in Calls : Done(c) => Before(c)[3] \in Users
      BY BeforeEarlier
    <3> QED BY <3>1 DEF Init
  <2>8. /\ details \in [Calls -> Numbers \union {NoNumber}]
        /\ balance \in [Calls -> [on : Dates, by : Calls] \union {None}]
        /\ pc \in [Calls -> {"idle"} \union Active \union Ended]
        /\ answer \in [Calls -> Calls \union {None}]
        /\ faults \in 0..MaxFaults
    BY BoundsAssumption DEF Init, Ended
  <2> QED
    BY <2>1, <2>2, <2>3, <2>4, <2>5, <2>6, <2>7, <2>8 DEF TypeOK
<1>4. Prepared
  <2>1. \A c \in Calls : Done(c) => /\ Before(c)[2] \in Asked /\ Before(c)[2].number # NoNumber
                                    /\ Before(c)[2].do = "create"
    BY BeforeEarlier
  <2> QED BY <2>1 DEF Init, Prepared
<1>5. KeysGiven
  BY <1>1 DEF Init, KeysGiven
<1>6. Created /\ OwnerChecked
  BY DEF Init, Created, OwnerChecked
<1>7. FoundStays /\ ImportsAgree
  <2>1. \A c \in Calls : answer[c] \in {None, c}
    BY DEF Init
  <2> QED BY <2>1 DEF FoundStays, ImportsAgree, FoundByBank
<1>8. KeyOpensItsUser
  <2> SUFFICES ASSUME NEW c \in Calls, me[c] # None
               PROVE  <<job[c].who, me[c]>> \in given
    BY DEF KeyOpensItsUser
  <2>1. Done(c) /\ job[c] = Before(c)[2] /\ me[c] = Before(c)[3]
    BY DEF Init
  <2>2. Before(c) \in Earlier /\ job[c].who = Before(c)[4]
    BY <2>1, BeforeEarlier
  <2> QED
    BY <2>1, <2>2 DEF Init
<1>9. OrphansOnlyByFailure
  BY DEF Init, OrphansOnlyByFailure
<1> QED
  BY <1>3, <1>4, <1>5, <1>6, <1>7, <1>8, <1>9 DEF IInv

-----------------------------------------------------------------------------
CallStep(c) ==
    \/ Receive(c) \/ Authenticate(c) \/ ResolveUser(c) \/ FindOrCreate(c)
    \/ TakeAccount(c) \/ CheckOwner(c) \/ HandleImport(c)
    \/ CreateAccount(c) \/ AddMember(c) \/ UpsertDetails(c)
    \/ RunImport(c) \/ UpdateBalance(c) \/ Break(c)

UserStep == (\E u \in Users, k \in Keys : AddUser(u, k)) \/ StartProcess \/ BootstrapUser

\* The users of the configuration are users with keys.
LEMMA ConfiguredType ==
    ASSUME boot \in 0..Len(ConfiguredKeys), boot > 0
    PROVE  ConfiguredKeys[boot][1] \in Users /\ ConfiguredKeys[boot][2] \in Keys
<1>1. ConfiguredKeys[boot] \in Users \X Keys
  BY NamesAssumption
<1> QED
  BY <1>1

LEMMA TypeStep ==
    ASSUME TypeOK, Prepared, NEW c \in Calls, CallStep(c)
    PROVE  TypeOK'
<1> USE DEF TypeOK, Goto, Active, Ended, tables, people
<1>0. pc[c] # "idle" => job[c] \in Asked
  BY DEF Prepared
<1>1. CASE Receive(c)
  <2>1. \A j \in Jobs : j \in Asked
    BY JobsAssumption
  <2> QED BY <1>1, <2>1 DEF Receive
<1>2. CASE Authenticate(c)
  BY <1>2 DEF Authenticate, FirstStep
<1>3. CASE ResolveUser(c)
  <2>1. Matching(job[c].who) \subseteq Users
    BY DEF Matching, Registered
  <2> QED BY <1>3, <2>1 DEF ResolveUser, FirstStep
<1>4. CASE FindOrCreate(c)
  <2>1. Matches(c) \subseteq Calls
    BY DEF Matches, AccountsOf
  <2> QED BY <1>4, <2>1 DEF FindOrCreate
<1>5. CASE CheckOwner(c)
  <2>1. MayUpdate(c) \subseteq Calls
    BY DEF MayUpdate, AccountsOf
  <2> QED BY <1>5, <2>1 DEF CheckOwner
<1>6. CASE CreateAccount(c)
  <2>1. job[c] \in Asked /\ NewAccount(job[c]) \in Account
    BY <1>0, <1>6, NewAccountType DEF CreateAccount, Prepared
  <2>2. account' \in [Calls -> Account \union {None}]
    BY <1>6, <2>1 DEF CreateAccount
  <2>3. pc' \in [Calls -> {"idle"} \union Active \union Ended]
    BY <1>6 DEF CreateAccount, AfterInsert
  <2>4. faults' \in 0..MaxFaults
    BY <1>6, BoundsAssumption DEF CreateAccount, Fault
  <2> QED BY <1>6, <2>2, <2>3, <2>4 DEF CreateAccount
<1>7. CASE AddMember(c)
  <2>1. me[c] \in Users
    BY <1>7 DEF AddMember, Prepared
  <2>2. members' \in [Calls -> SUBSET Users]
    BY <1>7, <2>1 DEF AddMember
  <2> QED BY <1>7, <2>2, BoundsAssumption DEF AddMember, Fault
<1>8. CASE UpsertDetails(c)
  <2>1. job[c].number \in Numbers \union {NoNumber}
    BY <1>0, <1>8 DEF UpsertDetails, Asked
  <2> QED BY <1>8, <2>1, BoundsAssumption DEF UpsertDetails, Fault
<1>11. CASE HandleImport(c)
  <2>1. MayUpdate(c) \subseteq Calls
    BY DEF MayUpdate, AccountsOf
  <2> QED BY <1>11, <2>1 DEF HandleImport
<1>12. CASE TakeAccount(c)
  BY <1>12 DEF TakeAccount
<1>13. CASE RunImport(c)
  BY <1>13 DEF RunImport
<1>9. CASE UpdateBalance(c)
  <2>1. [on |-> job[c].on, by |-> c] \in [on : Dates, by : Calls]
    BY <1>0, <1>9 DEF UpdateBalance, Asked
  <2>2. balance' \in [Calls -> [on : Dates, by : Calls] \union {None}]
    BY <1>9, <2>1 DEF UpdateBalance
  <2> QED BY <1>9, <2>2, BoundsAssumption DEF UpdateBalance, AfterError, Fault
<1>10. CASE Break(c)
  BY <1>10, BoundsAssumption DEF Break, Fault
<1> QED
  BY <1>1, <1>2, <1>3, <1>4, <1>5, <1>6, <1>7, <1>8, <1>9, <1>10, <1>11, <1>12, <1>13
  DEF CallStep

LEMMA PreparedStep ==
    ASSUME TypeOK, Prepared, NEW c \in Calls, CallStep(c)
    PROVE  Prepared'
<1> SUFFICES ASSUME NEW d \in Calls
             PROVE  /\ pc'[d] # "idle" => job'[d] \in Asked
                    /\ pc'[d] = "insert" => job'[d].number # NoNumber
                    /\ job'[d] # None /\ job'[d].do = "create" => job'[d].number # NoNumber
                    /\ job'[d] # None /\ job'[d].door = "api" /\ job'[d].do = "import" =>
                           job'[d].named
                    /\ pc'[d] \in {"idle", "identify"} => me'[d] = None
                    /\ pc'[d] \in {"idle", "identify", "list"} => answer'[d] = None
                    /\ pc'[d] \in {"list", "insert", "member", "details", "run", "balance"} =>
                           me'[d] \in Users
                    /\ pc'[d] \in {"idle", "identify", "list", "insert"} =>
                           account'[d] = None /\ members'[d] = {}
  BY DEF Prepared
<1> USE DEF TypeOK, Goto, tables, people
<1>0. /\ pc[d] # "idle" => job[d] \in Asked /\ job[d] # None
      /\ pc[d] = "insert" => job[d].number # NoNumber
      /\ job[d] # None /\ job[d].do = "create" => job[d].number # NoNumber
      /\ job[d] # None /\ job[d].door = "api" /\ job[d].do = "import" => job[d].named
      /\ pc[d] \in {"idle", "identify"} => me[d] = None
      /\ pc[d] \in {"idle", "identify", "list"} => answer[d] = None
      /\ pc[d] \in {"list", "insert", "member", "details", "run", "balance"} => me[d] \in Users
      /\ pc[d] \in {"idle", "identify", "list", "insert"} => account[d] = None /\ members[d] = {}
  BY NoneAssumption DEF Prepared
<1>1. CASE Receive(c)
  BY <1>0, <1>1, JobsAssumption DEF Receive
<1>2. CASE Authenticate(c)
  BY <1>0, <1>2 DEF Authenticate, FirstStep
<1>3. CASE ResolveUser(c)
  <2>1. Matching(job[c].who) \subseteq Users
    BY DEF Matching, Registered
  <2> QED BY <1>0, <1>3, <2>1 DEF ResolveUser, FirstStep
<1>4. CASE FindOrCreate(c)
  BY <1>0, <1>4 DEF FindOrCreate
<1>5. CASE CheckOwner(c)
  BY <1>0, <1>5 DEF CheckOwner
<1>11. CASE HandleImport(c)
  BY <1>0, <1>11 DEF HandleImport
<1>12. CASE TakeAccount(c)
  BY <1>0, <1>12 DEF TakeAccount
<1>13. CASE RunImport(c)
  BY <1>0, <1>13 DEF RunImport
<1>6. CASE CreateAccount(c)
  BY <1>0, <1>6 DEF CreateAccount, AfterInsert
<1>7. CASE AddMember(c)
  <2>1. UNCHANGED <<job, me, account>> /\ (d = c \/ members'[d] = members[d])
    BY <1>7 DEF AddMember
  <2>2. pc[c] = "member" /\ pc'[c] \in {"details", "done", "failed"}
    BY <1>7 DEF AddMember
  <2>3. d # c => pc'[d] = pc[d]
    BY <1>7 DEF AddMember
  <2>4. answer'[d] = answer[d] \/ pc'[d] = "done"
    BY <1>7 DEF AddMember
  <2> QED BY <1>0, <2>1, <2>2, <2>3, <2>4
<1>8. CASE UpsertDetails(c)
  BY <1>0, <1>8 DEF UpsertDetails
<1>9. CASE UpdateBalance(c)
  <2>1. UNCHANGED <<job, me, account, members, answer>>
    BY <1>9 DEF UpdateBalance
  <2>2. pc[c] # "idle" /\ pc'[c] \in {"done", "failed"} /\ (d # c => pc'[d] = pc[d])
    BY <1>9 DEF UpdateBalance, AfterError
  <2> QED BY <1>0, <2>1, <2>2
<1>10. CASE Break(c)
  <2>1. UNCHANGED <<job, me, account, members, answer>>
    BY <1>10 DEF Break
  <2>2. pc[c] # "idle" /\ pc'[d] = (IF d = c THEN "failed" ELSE pc[d])
    BY <1>10 DEF Break, Active
  <2> QED BY <1>0, <2>1, <2>2
<1> QED
  BY <1>1, <1>2, <1>3, <1>4, <1>5, <1>6, <1>7, <1>8, <1>9, <1>10, <1>11, <1>12, <1>13
  DEF CallStep

-----------------------------------------------------------------------------
(* Keys *)

LEMMA UpsertKeys ==
    ASSUME TypeOK, KeysGiven, KeyOpensItsUser, NEW u \in Users, NEW k \in Keys, Upsert(u, k),
           UNCHANGED <<tables, job, pc, me, answer, faults>>
    PROVE  /\ keyOf' \in [Users -> Keys \union {None}] /\ given' \subseteq Keys \X Users
           /\ KeysGiven' /\ KeyOpensItsUser'
BY DEF TypeOK, KeysGiven, KeyOpensItsUser, Upsert

\* The steps that change who has which key change nothing else.
LEMMA PeopleStep ==
    ASSUME TypeOK, KeysGiven, KeyOpensItsUser, UserStep
    PROVE  /\ TypeOK' /\ KeysGiven' /\ KeyOpensItsUser'
           /\ UNCHANGED <<tables, job, pc, me, answer, faults>>
<1>1. CASE \E u \in Users, k \in Keys : AddUser(u, k)
  BY <1>1, UpsertKeys DEF AddUser, TypeOK, tables
<1>2. CASE StartProcess
  BY <1>2 DEF StartProcess, TypeOK, KeysGiven, KeyOpensItsUser, tables
<1>3. CASE BootstrapUser
  <2> DEFINE u == ConfiguredKeys[boot][1]
             k == ConfiguredKeys[boot][2]
  <2>1. u \in Users /\ k \in Keys
    BY <1>3, ConfiguredType DEF BootstrapUser, TypeOK
  <2>2. UNCHANGED <<tables, job, pc, me, answer, faults>>
    BY <1>3 DEF BootstrapUser
  <2>3. boot' \in 0..Len(ConfiguredKeys)
    BY <1>3, NamesAssumption DEF BootstrapUser, TypeOK
  <2>4. Upsert(u, k) \/ UNCHANGED <<keyOf, given>>
    BY <1>3 DEF BootstrapUser
  <2>5. /\ keyOf' \in [Users -> Keys \union {None}] /\ given' \subseteq Keys \X Users
        /\ KeysGiven' /\ KeyOpensItsUser'
    <3>1. CASE Upsert(u, k)
      BY <2>1, <2>2, <3>1, UpsertKeys
    <3>2. CASE UNCHANGED <<keyOf, given>>
      BY <2>2, <3>2 DEF TypeOK, KeysGiven, KeyOpensItsUser
    <3> QED BY <2>4, <3>1, <3>2
  <2> QED
    BY <2>2, <2>3, <2>5 DEF TypeOK, tables
<1> QED
  BY <1>1, <1>2, <1>3 DEF UserStep

LEMMA KeyStep ==
    ASSUME TypeOK, Prepared, KeysGiven, KeyOpensItsUser, NEW c \in Calls, CallStep(c)
    PROVE  KeysGiven' /\ KeyOpensItsUser'
<1>1. UNCHANGED people
  BY DEF CallStep, Receive, Authenticate, ResolveUser, FindOrCreate, TakeAccount, CheckOwner,
         HandleImport, CreateAccount, AddMember, UpsertDetails, RunImport, UpdateBalance, Break
<1>2. KeysGiven'
  BY <1>1 DEF KeysGiven, people
<1>3. KeyOpensItsUser'
  <2> SUFFICES ASSUME NEW d \in Calls, me'[d] # None, job'[d].door = "api"
               PROVE  <<job'[d].who, me'[d]>> \in given
    BY <1>1 DEF KeyOpensItsUser, people
  <2>1. CASE Receive(c)
    <3>1. me'[d] = me[d] /\ d # c
      BY <2>1 DEF Receive, Prepared, TypeOK
    <3>2. job'[d] = job[d]
      BY <2>1, <3>1 DEF Receive, TypeOK
    <3> QED BY <3>1, <3>2 DEF KeyOpensItsUser
  <2>2. CASE Authenticate(c)
    BY <2>2 DEF Authenticate, Verify, HasPrefix, KeysGiven, KeyOpensItsUser, TypeOK
  <2>3. CASE ResolveUser(c)
    BY <2>3 DEF ResolveUser, KeyOpensItsUser, TypeOK
  <2>4. CASE UNCHANGED <<job, me>>
    BY <2>4 DEF KeyOpensItsUser
  <2> QED
    BY <2>1, <2>2, <2>3, <2>4
    DEF CallStep, FindOrCreate, TakeAccount, CheckOwner, HandleImport, CreateAccount,
        AddMember, UpsertDetails, RunImport, UpdateBalance, Break
<1> QED
  BY <1>2, <1>3

-----------------------------------------------------------------------------
(* Accounts *)

LEMMA OrphanStep ==
    ASSUME TypeOK, Prepared, OrphansOnlyByFailure, NEW c \in Calls, CallStep(c)
    PROVE  OrphansOnlyByFailure'
<1> SUFFICES ASSUME NEW a \in Calls, account'[a] # None, members'[a] = {}
             PROVE  pc'[a] = "member" \/ faults' > 0
  BY DEF OrphansOnlyByFailure
<1>0. faults \in Nat /\ (pc[a] \in {"idle", "identify", "list", "insert"} => account[a] = None)
  BY BoundsAssumption DEF TypeOK, Prepared
<1>1. faults' = faults \/ faults' = faults + 1
  BY DEF CallStep, Receive, Authenticate, ResolveUser, FindOrCreate, TakeAccount, CheckOwner,
         HandleImport, CreateAccount, AddMember, UpsertDetails, RunImport, UpdateBalance, Break, Fault
<1>2. CASE CreateAccount(c)
  BY <1>0, <1>1, <1>2
  DEF CreateAccount, AfterInsert, Fault, Goto, TypeOK, OrphansOnlyByFailure
<1>3. CASE AddMember(c)
  <2>1. UNCHANGED account /\ members' = [members EXCEPT ![c] = @ \union {me[c]}]
    BY <1>3 DEF AddMember
  <2>2. a # c /\ members'[a] = members[a]
    BY <2>1 DEF TypeOK
  <2>3. pc'[a] = pc[a]
    BY <1>3, <2>2 DEF AddMember, Goto, TypeOK
  <2> QED
    BY <1>0, <1>1, <2>1, <2>2, <2>3 DEF OrphansOnlyByFailure
<1>4. CASE Break(c)
  BY <1>0, <1>1, <1>4 DEF Break, Fault, tables
<1>5. CASE UNCHANGED <<account, members>> /\ (pc[a] = "member" => pc'[a] = "member")
  BY <1>0, <1>1, <1>5 DEF OrphansOnlyByFailure
<1>6. Receive(c) \/ Authenticate(c) \/ ResolveUser(c) \/ FindOrCreate(c) \/ CheckOwner(c)
        \/ TakeAccount(c) \/ HandleImport(c) \/ UpsertDetails(c) \/ RunImport(c)
        \/ UpdateBalance(c)
      => UNCHANGED <<account, members>> /\ (pc[a] = "member" => pc'[a] = "member")
  BY DEF Receive, Authenticate, ResolveUser, FindOrCreate, TakeAccount, CheckOwner,
         HandleImport, UpsertDetails, RunImport, UpdateBalance, Goto, TypeOK, tables
<1> QED
  BY <1>2, <1>3, <1>4, <1>5, <1>6 DEF CallStep

\* Accounts and members stay, for calls that are identified.
LEMMA FoundLater ==
    ASSUME TypeOK, Prepared, NEW c \in Calls, CallStep(c),
           NEW a \in Calls, account[a] # None
    PROVE  account'[a] = account[a] /\ members[a] \subseteq members'[a]
<1>1. CASE CreateAccount(c)
  BY <1>1 DEF CreateAccount, Prepared, TypeOK
<1>2. CASE AddMember(c)
  BY <1>2 DEF AddMember, TypeOK
<1>3. CASE UNCHANGED <<account, members>>
  BY <1>3
<1> QED
  BY <1>1, <1>2, <1>3
  DEF CallStep, Receive, Authenticate, ResolveUser, FindOrCreate, TakeAccount, CheckOwner,
      HandleImport, UpsertDetails, RunImport, UpdateBalance, Break, tables

LEMMA MatchesLater ==
    ASSUME TypeOK, Prepared, NEW c \in Calls, CallStep(c),
           NEW d \in Calls, job'[d] = job[d], me'[d] = me[d]
    PROVE  Matches(d) \subseteq Matches(d)'
<1> SUFFICES ASSUME NEW a \in Matches(d) PROVE a \in Matches(d)'
  OBVIOUS
<1>1. /\ a \in Calls /\ account[a] # None /\ me[d] \in members[a]
      /\ Fold[account[a].institution] = Fold[job[d].institution]
  BY DEF Matches, AccountsOf
<1>2. account'[a] = account[a] /\ members[a] \subseteq members'[a]
  BY <1>1, FoundLater
<1> QED
  BY <1>1, <1>2 DEF Matches, AccountsOf

\* Two imports that look for the same bank of the same user have the same matches.
LEMMA SameMatches ==
    ASSUME NEW c, NEW d, me[c] = me[d], Fold[job[c].institution] = Fold[job[d].institution]
    PROVE  Matches(c) = Matches(d)
BY DEF Matches, AccountsOf

LEMMA OneUsable ==
    ASSUME NEW c \in Calls, Usable(Matches(c))
    PROVE  \E a : Matches(c) = {a}
<1>1. Matches(c) \subseteq Calls
  BY DEF Matches, AccountsOf
<1>2. IsFiniteSet(Matches(c))
  BY <1>1, NamesAssumption, FS_Subset
<1> QED
  BY <1>2, FS_Singleton DEF Usable

\* Where an import that has found its account comes from.
LEMMA FoundNow ==
    ASSUME TypeOK, Prepared, NEW c \in Calls, CallStep(c), NEW d \in Calls,
           answer'[d] \notin {None, d}, job'[d].do = "import", ~job'[d].named
    PROVE  /\ job'[d] = job[d] /\ me'[d] = me[d]
           /\ \/ FoundByBank(d) /\ answer'[d] = answer[d]
              \/ Usable(Matches(d)) /\ answer'[d] \in Matches(d)
<1> USE DEF TypeOK, FoundByBank
<1>1. CASE Receive(c)
  BY <1>1 DEF Receive, Prepared
<1>2. CASE Authenticate(c)
  BY <1>2 DEF Authenticate, Prepared
<1>3. CASE ResolveUser(c)
  BY <1>3 DEF ResolveUser, Prepared
<1>4. CASE FindOrCreate(c)
  BY <1>4 DEF FindOrCreate
<1>5. CASE CheckOwner(c)
  BY <1>5 DEF CheckOwner
<1>6. CASE TakeAccount(c)
  BY <1>6 DEF TakeAccount
<1>7. CASE HandleImport(c)
  <2>1. job[c].named
    BY <1>7, NoneAssumption DEF HandleImport, Prepared
  <2> QED BY <1>7, <2>1 DEF HandleImport
<1>8. CASE AddMember(c)
  BY <1>8 DEF AddMember
<1>9. CASE UpsertDetails(c)
  BY <1>9 DEF UpsertDetails
<1>10. CASE UNCHANGED <<job, me, answer>>
  BY <1>10
<1> QED
  BY <1>1, <1>2, <1>3, <1>4, <1>5, <1>6, <1>7, <1>8, <1>9, <1>10
  DEF CallStep, CreateAccount, RunImport, UpdateBalance, Break

LEMMA ImportStep ==
    ASSUME TypeOK, Prepared, FoundStays, ImportsAgree, NEW c \in Calls, CallStep(c)
    PROVE  FoundStays' /\ ImportsAgree'
<1>1. ASSUME NEW d \in Calls, FoundByBank(d)'
      PROVE  /\ job'[d] = job[d] /\ me'[d] = me[d] /\ answer'[d] \in Matches(d)
             /\ (FoundByBank(d) /\ answer'[d] = answer[d]) \/ Matches(d) = {answer'[d]}
  <2>1. /\ job'[d] = job[d] /\ me'[d] = me[d]
        /\ \/ FoundByBank(d) /\ answer'[d] = answer[d]
           \/ Usable(Matches(d)) /\ answer'[d] \in Matches(d)
    BY <1>1, FoundNow DEF FoundByBank
  <2>2. CASE FoundByBank(d) /\ answer'[d] = answer[d]
    BY <2>1, <2>2 DEF FoundStays
  <2>3. CASE Usable(Matches(d)) /\ answer'[d] \in Matches(d)
    BY <2>1, <2>3, OneUsable
  <2> QED BY <2>1, <2>2, <2>3
<1>2. FoundStays'
  <2> SUFFICES ASSUME NEW d \in Calls, FoundByBank(d)'
               PROVE  answer'[d] \in Matches(d)'
    BY DEF FoundStays
  <2> QED BY <1>1, MatchesLater
<1>3. ImportsAgree'
  <2> SUFFICES ASSUME NEW d \in Calls, FoundByBank(d)', NEW e \in Calls, FoundByBank(e)',
                      me'[d] = me'[e],
                      Fold[job'[d].institution] = Fold[job'[e].institution]
               PROVE  answer'[d] = answer'[e]
    BY DEF ImportsAgree
  <2>1. /\ job'[d] = job[d] /\ me'[d] = me[d] /\ answer'[d] \in Matches(d)
        /\ (FoundByBank(d) /\ answer'[d] = answer[d]) \/ Matches(d) = {answer'[d]}
    BY <1>1
  <2>2. /\ job'[e] = job[e] /\ me'[e] = me[e] /\ answer'[e] \in Matches(e)
        /\ (FoundByBank(e) /\ answer'[e] = answer[e]) \/ Matches(e) = {answer'[e]}
    BY <1>1
  <2>3. Matches(d) = Matches(e)
    BY <2>1, <2>2, SameMatches
  <2>4. CASE /\ FoundByBank(d) /\ answer'[d] = answer[d]
             /\ FoundByBank(e) /\ answer'[e] = answer[e]
    BY <2>1, <2>2, <2>4 DEF ImportsAgree
  <2> QED BY <2>1, <2>2, <2>3, <2>4
<1> QED BY <1>2, <1>3

\* A call that is not the one that steps keeps what is its own.
LEMMA OthersStay ==
    ASSUME TypeOK, NEW c \in Calls, CallStep(c), NEW d \in Calls, d # c
    PROVE  /\ pc'[d] = pc[d] /\ job'[d] = job[d] /\ me'[d] = me[d] /\ answer'[d] = answer[d]
           /\ account'[d] = account[d] /\ members'[d] = members[d]
<1> USE DEF TypeOK, Goto, tables
<1>1. UNCHANGED job \/ Receive(c)
  BY DEF CallStep, Receive, Authenticate, ResolveUser, FindOrCreate, TakeAccount, CheckOwner,
         HandleImport, CreateAccount, AddMember, UpsertDetails, RunImport, UpdateBalance, Break
<1>2. job'[d] = job[d]
  BY <1>1 DEF Receive
<1>3. UNCHANGED me \/ Authenticate(c) \/ ResolveUser(c)
  BY DEF CallStep, Receive, FindOrCreate, TakeAccount, CheckOwner,
         HandleImport, CreateAccount, AddMember, UpsertDetails, RunImport, UpdateBalance, Break
<1>4. me'[d] = me[d]
  BY <1>3 DEF Authenticate, ResolveUser
<1>5. answer'[d] = answer[d]
  BY DEF CallStep, Receive, Authenticate, ResolveUser, FindOrCreate, TakeAccount, CheckOwner,
         HandleImport, CreateAccount, AddMember, UpsertDetails, RunImport, UpdateBalance, Break
<1>6. pc'[d] = pc[d]
  BY DEF CallStep, Receive, Authenticate, ResolveUser, FindOrCreate, TakeAccount, CheckOwner,
         HandleImport, CreateAccount, AddMember, UpsertDetails, RunImport, UpdateBalance, Break
<1>7. account'[d] = account[d] /\ members'[d] = members[d]
  BY DEF CallStep, Receive, Authenticate, ResolveUser, FindOrCreate, TakeAccount, CheckOwner,
         HandleImport, CreateAccount, AddMember, UpsertDetails, RunImport, UpdateBalance, Break
<1> QED BY <1>2, <1>4, <1>5, <1>6, <1>7

LEMMA CreatedStep ==
    ASSUME TypeOK, Prepared, Created, NEW c \in Calls, CallStep(c)
    PROVE  Created'
<1> SUFFICES ASSUME NEW d \in Calls
             PROVE  /\ pc'[d] \in {"member", "details"} =>
                           account'[d] # None /\ account'[d].institution = job'[d].institution
                    /\ pc'[d] = "details" => me'[d] \in members'[d]
  BY DEF Created
<1>1. CASE d # c
  BY <1>1, OthersStay DEF Created
<1>2. CASE d = c /\ CreateAccount(c)
  <2>1. ASSUME pc'[c] \in {"member", "details"}
        PROVE  /\ pc'[c] = "member" /\ job' = job
               /\ account'[c] = NewAccount(job[c]) /\ NewAccount(job[c]) # None
    <3>1. job[c] \in Asked /\ job[c].number # NoNumber
      BY <1>2 DEF CreateAccount, Prepared
    <3>2. NewAccount(job[c]) # None
      BY <3>1, NewAccountType
    <3> QED
      BY <1>2, <2>1, <3>2 DEF CreateAccount, AfterInsert, Goto, TypeOK
  <2>2. NewAccount(job[c]).institution = job[c].institution
    BY DEF NewAccount
  <2> QED
    BY <1>2, <2>1, <2>2
<1>3. CASE d = c /\ AddMember(c)
  BY <1>3 DEF AddMember, Goto, TypeOK, Created
<1>4. CASE d = c /\ ~CreateAccount(c) /\ ~AddMember(c)
  <2>1. pc'[c] \notin {"member", "details"}
    BY <1>4 DEF CallStep, Receive, Authenticate, ResolveUser, FirstStep, FindOrCreate,
         TakeAccount, CheckOwner, HandleImport, UpsertDetails, RunImport, UpdateBalance,
         AfterError, Break, Goto, TypeOK
  <2> QED BY <1>4, <2>1
<1> QED BY <1>1, <1>2, <1>3, <1>4

LEMMA OwnerStep ==
    ASSUME TypeOK, Prepared, Created, OwnerChecked, NEW c \in Calls, CallStep(c)
    PROVE  OwnerChecked'
<1> DEFINE Right(d) ==
        /\ answer'[d] \in Calls
        /\ \/ job'[d].door = "command" /\ job'[d].do = "import" /\ job'[d].named
           \/ account'[answer'[d]] # None /\ me'[d] \in members'[answer'[d]]
        /\ (job'[d].do = "import" /\ ~job'[d].named) =>
               Fold[account'[answer'[d]].institution] = Fold[job'[d].institution]
<1> SUFFICES ASSUME NEW d \in Calls, pc'[d] \in {"run", "balance"}
             PROVE  Right(d)
  <2>1. \A d \in Calls : pc'[d] \in {"run", "balance"} => Right(d)
    OBVIOUS
  <2> QED BY <2>1 DEF OwnerChecked, Told
<1>0. \A a \in Calls : account[a] # None => account'[a] = account[a] /\ members[a] \subseteq members'[a]
  BY FoundLater
<1>1. ASSUME pc[d] \in {"run", "balance"}, job'[d] = job[d], me'[d] = me[d], answer'[d] = answer[d]
      PROVE  Right(d)
  <2>1. CASE account[answer[d]] # None
    BY <1>0, <1>1, <2>1 DEF OwnerChecked, Told
  <2>2. CASE account[answer[d]] = None
    BY <1>1, <2>2 DEF OwnerChecked, Told
  <2> QED BY <2>1, <2>2
<1>2. CASE d # c
  BY <1>1, <1>2, OthersStay
<1>3. CASE d = c
  <2>1. CASE FindOrCreate(c)
    <3>1. answer'[c] \in Matches(c) /\ UNCHANGED <<tables, job, me>>
      BY <1>3, <2>1 DEF FindOrCreate, Goto, TypeOK
    <3> QED
      BY <1>3, <3>1 DEF Matches, AccountsOf, tables
  <2>2. CASE TakeAccount(c)
    BY <1>3, <2>2 DEF TakeAccount, TypeOK, tables
  <2>3. CASE CheckOwner(c)
    <3>1. answer'[c] \in MayUpdate(c) /\ job[c].do = "balance" /\ UNCHANGED <<tables, job, me>>
      BY <1>3, <2>3 DEF CheckOwner, Goto, TypeOK
    <3> QED
      BY <1>3, <3>1 DEF MayUpdate, AccountsOf, tables
  <2>4. CASE HandleImport(c)
    <3>1. answer'[c] \in MayUpdate(c) /\ UNCHANGED <<tables, job, me>>
      BY <1>3, <2>4 DEF HandleImport, Goto, TypeOK
    <3>2. job[c].named
      BY <2>4, NoneAssumption DEF HandleImport, Prepared
    <3> QED
      BY <1>3, <3>1, <3>2 DEF MayUpdate, AccountsOf, tables
  <2>5. CASE UpsertDetails(c)
    <3>1. /\ account[c] # None /\ account[c].institution = job[c].institution
          /\ me[c] \in members[c]
      BY <2>5 DEF UpsertDetails, Created
    <3>2. answer'[c] = c /\ UNCHANGED <<account, members, job, me>>
      BY <2>5 DEF UpsertDetails, TypeOK
    <3> QED
      BY <1>3, <3>1, <3>2
  <2>6. CASE RunImport(c)
    BY <1>1, <1>3, <2>6 DEF RunImport
  <2>7. CASE Receive(c) \/ Authenticate(c) \/ ResolveUser(c) \/ CreateAccount(c) \/ AddMember(c)
               \/ UpdateBalance(c) \/ Break(c)
    BY <1>3, <2>7 DEF Receive, Authenticate, ResolveUser, FirstStep, CreateAccount, AfterInsert,
       AddMember, UpdateBalance, AfterError, Break, Goto, TypeOK
  <2> QED
    BY <2>1, <2>2, <2>3, <2>4, <2>5, <2>6, <2>7 DEF CallStep
<1> QED BY <1>2, <1>3

-----------------------------------------------------------------------------
LEMMA NextInvariant == IInv /\ [Next]_vars => IInv'
<1> SUFFICES ASSUME IInv, [Next]_vars PROVE IInv'
  OBVIOUS
<1> USE DEF IInv
<1>1. CASE UserStep
  <2>1. /\ TypeOK' /\ KeysGiven' /\ KeyOpensItsUser'
        /\ UNCHANGED <<tables, job, pc, me, answer, faults>>
    BY <1>1, PeopleStep
  <2>2. Prepared' /\ Created' /\ OwnerChecked' /\ OrphansOnlyByFailure'
    BY <2>1 DEF Prepared, Created, OwnerChecked, Told, OrphansOnlyByFailure, tables
  <2>3. FoundStays' /\ ImportsAgree'
    BY <2>1 DEF FoundStays, ImportsAgree, FoundByBank, Matches, AccountsOf, tables
  <2> QED BY <2>1, <2>2, <2>3
<1>2. ASSUME NEW c \in Calls, CallStep(c) PROVE IInv'
  BY <1>2, TypeStep, PreparedStep, KeyStep, OrphanStep, ImportStep, CreatedStep,
     OwnerStep
<1>3. CASE UNCHANGED vars
  <2>1. TypeOK' /\ Prepared' /\ KeysGiven' /\ KeyOpensItsUser'
    BY <1>3 DEF vars, people, tables, TypeOK, Prepared, KeysGiven, KeyOpensItsUser
  <2>2. Created' /\ OwnerChecked' /\ OrphansOnlyByFailure'
    BY <1>3 DEF vars, people, tables, Created, OwnerChecked, Told, OrphansOnlyByFailure
  <2>3. FoundStays' /\ ImportsAgree'
    BY <1>3 DEF vars, people, tables, FoundStays, ImportsAgree, FoundByBank, Matches,
       AccountsOf
  <2> QED BY <2>1, <2>2, <2>3
<1> QED
  BY <1>1, <1>2, <1>3 DEF Next, UserStep, CallStep, Settled

-----------------------------------------------------------------------------
\* In every behaviour.
LEMMA Invariant == Spec => []IInv
BY InitInvariant, NextInvariant, PTL DEF Spec

\* Every variable keeps its type, for any users, keys, jobs and interruptions.
THEOREM TypeCorrect == Spec => []TypeOK
<1>1. IInv => TypeOK
  BY DEF IInv
<1> QED BY <1>1, Invariant, PTL

\* A key opens only the accounts of the user it was given to, however keys are
\* configured and rotated between starts (BootstrapUser, Authenticate).
THEOREM KeyOpensItsUserAlways == Spec => []KeyOpensItsUser
<1>1. IInv => KeyOpensItsUser
  BY DEF IInv
<1> QED BY <1>1, Invariant, PTL

\* An account without a member is being given one, or a statement has failed or the
\* process was stopped in between (FindOrCreate).
THEOREM OrphansOnlyByFailureAlways == Spec => []OrphansOnlyByFailure
<1>1. IInv => OrphansOnlyByFailure
  BY DEF IInv
<1> QED BY <1>1, Invariant, PTL

\* The imports of a user and a bank that find an account find the same one
\* (FindOrCreate).
THEOREM ImportsAgreeAlways == Spec => []ImportsAgree
<1>1. IInv => ImportsAgree
  BY DEF IInv
<1> QED BY <1>1, Invariant, PTL

\* A balance is changed by a call of a member of the account, or by an import that the
\* command was told to put there; an import that looked for its account changes the
\* balance of one of its bank only, although it looked before it ran (UpdateBalance).
THEOREM BalanceByMemberAlways == Spec => BalanceByMember
<1> DEFINE RightCall == \A a \in Calls : balance'[a] # balance[a] =>
          LET c == balance'[a].by IN
          /\ \/ me[c] \in members[a]
             \/ job[c].door = "command" /\ job[c].do = "import" /\ job[c].named
          /\ (job[c].do = "import" /\ ~job[c].named)
                => Fold[account[a].institution] = Fold[job[c].institution]
<1>1. IInv /\ [Next]_vars => [RightCall]_vars
  <2> SUFFICES ASSUME IInv, Next PROVE RightCall
    BY DEF IInv
  <2>1. ASSUME NEW c \in Calls, UpdateBalance(c) PROVE RightCall
    <3>1. /\ answer[c] \in Calls
          /\ Told(c) \/ me[c] \in members[answer[c]]
          /\ (job[c].do = "import" /\ ~job[c].named) =>
                 Fold[account[answer[c]].institution] = Fold[job[c].institution]
      BY <2>1 DEF UpdateBalance, IInv, OwnerChecked
    <3>2. \/ balance' = [balance EXCEPT ![answer[c]] = [on |-> job[c].on, by |-> c]]
          \/ UNCHANGED balance
      BY <2>1 DEF UpdateBalance
    <3>3. ASSUME NEW a \in Calls, balance'[a] # balance[a]
          PROVE  a = answer[c] /\ balance'[a] = [on |-> job[c].on, by |-> c]
      BY <3>1, <3>2, <3>3 DEF IInv, TypeOK
    <3> QED BY <3>1, <3>3 DEF Told
  <2>2. CASE UNCHANGED balance
    BY <2>2
  <2> QED
    BY <2>1, <2>2
    DEF Next, AddUser, StartProcess, BootstrapUser, Settled, Receive, Authenticate, ResolveUser,
        FindOrCreate, TakeAccount, CheckOwner, HandleImport, CreateAccount, AddMember,
        UpsertDetails, RunImport, Break, tables, vars
<1> QED
  BY <1>1, InitInvariant, NextInvariant, PTL DEF Spec, BalanceByMember

=============================================================================
