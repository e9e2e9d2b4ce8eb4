------------------------ MODULE ImportPipelineProofs ------------------------
(***************************************************************************)
(* Proofs about ImportPipeline, for any sets of imports, statements and    *)
(* bounds: its type invariant, that it implements the Ledger, what an      *)
(* import reports (its counts, its verdict, its open row), the failures    *)
(* that explain each orphan, and the balance of the account.  And proofs   *)
(* about Statements, which reads what is imported, for statements of any   *)
(* length: they are recognised, and read whole or given up for a reason.   *)
(***************************************************************************)
EXTENDS ImportPipeline, StatementLayout, WellFoundedInduction, FiniteSetTheorems, TLAPS

-----------------------------------------------------------------------------
(* Lemmas about the operators *)

\* A nonempty set of row numbers has a greatest element: the scan for the latest
\* balance finds a row.
LEMMA GreatestExists ==
    ASSUME NEW n \in Nat, NEW S \in SUBSET (1 .. n), S # {}
    PROVE  \E i \in S : \A j \in S : j <= i
<1> DEFINE T == {n - i : i \in S}
           R == OpToRel(<, Nat)
<1> HIDE DEF R
<1>1. T \subseteq Nat /\ T # {}
  <2>1. \A i \in S : i \in 1 .. n
    OBVIOUS
  <2>2. \A i \in S : n - i \in Nat
    BY <2>1
  <2>3. T # {}
    <3>1. PICK i \in S : TRUE
      OBVIOUS
    <3>2. n - i \in T
      BY <3>1
    <3> QED BY <3>2
  <2> QED BY <2>2, <2>3
<1>2. PICK x \in T : \A y \in T : ~(<<y, x>> \in R)
  <2> HIDE DEF T
  <2>1. IsWellFoundedOn(R, Nat)
    BY NatLessThanWellFounded DEF R
  <2> QED BY <1>1, <2>1, WFMin, Zenon
<1>3. \A y \in T : x <= y
  <2> SUFFICES ASSUME NEW y \in T PROVE x <= y
    OBVIOUS
  <2>1. x \in Nat /\ y \in Nat
    BY <1>1
  <2>2. ~(y < x)
    BY <1>2, <2>1 DEF OpToRel, R
  <2> QED BY <2>1, <2>2
<1>4. PICK i \in S : x = n - i
  OBVIOUS
<1>5. \A j \in S : j <= i
  <2> SUFFICES ASSUME NEW j \in S PROVE j <= i
    OBVIOUS
  <2>1. n - j \in T
    OBVIOUS
  <2>2. n - i <= n - j
    BY <1>3, <1>4, <2>1
  <2> HIDE DEF T
  <2> QED BY <2>2
<1> QED BY <1>5

\* The rows of a statement.
LEMMA RowType ==
    ASSUME NEW s \in Statements, NEW i \in DOMAIN s
    PROVE  s[i] \in RawTransaction /\ IdempotencyKey(s[i]) \in Keys
<1>1. s \in Seq(RawTransaction)
  BY StatementsAssumption
<1>2. s[i] \in RawTransaction
  BY <1>1
<1> QED BY <1>2 DEF Keys

\* The row the balance scan ends at is a row of the statement, and has a balance.
LEMMA LatestBalanceType ==
    ASSUME NEW s \in Statements, BalanceRows(s) # {}
    PROVE  LatestBalance(s) \in RawTransaction
<1>1. s \in Seq(RawTransaction) /\ DOMAIN s = 1 .. Len(s) /\ Len(s) \in Nat
  BY StatementsAssumption
<1>2. BalanceRows(s) \in SUBSET (1 .. Len(s))
  BY <1>1 DEF BalanceRows
<1>3. \E i \in BalanceRows(s) : \A j \in BalanceRows(s) : j <= i
  BY <1>1, <1>2, GreatestExists
<1>4. (CHOOSE i \in BalanceRows(s) : \A j \in BalanceRows(s) : j <= i) \in DOMAIN s
  BY <1>3 DEF BalanceRows
<1> QED BY <1>4, RowType DEF LatestBalance

-----------------------------------------------------------------------------
(* The type invariant *)

\* However a call ends, the number of faults so far is a natural number.
LEMMA OutcomeType ==
    ASSUME faults \in Nat, NEW r \in Runs, Succeeds(r) \/ Fails(r) \/ ReplyLost(r)
    PROVE  faults' \in Nat
BY DEF Succeeds, Fails, ReplyLost

\* Control stays within the calls of an import.
LEMMA ControlType ==
    ASSUME TypeOK, NEW r \in Runs, NEW l \in PC, NEW m \in PC,
           Goto(r, l) \/ NextRow(r, l, m)
    PROVE  pc' \in [Runs -> PC] /\ idx' \in [Runs -> Nat \ {0}]
BY DEF TypeOK, Goto, NextRow

LEMMA CountType ==
    ASSUME TypeOK, NEW r \in Runs, NEW f \in {"inserted", "duplicate", "failed"},
           Count(r, f)
    PROVE  res' \in [Runs -> Counts]
BY DEF TypeOK, Count, Counts

LEMMA TagType ==
    ASSUME TypeOK, NEW k, NEW status \in TaggingStatus
    PROVE  Tagged(k, status) \in [Keys -> TaggingStatus]
           /\ Blank(k) \in [Keys -> TaggingStatus]
BY DEF TypeOK, Tagged, Blank, TaggingStatus

LEMMA RunRowType ==
    ASSUME TypeOK, NEW r \in Runs, NEW status \in ImportStatus
    PROVE  /\ Finished(r, status) \in [Runs -> RunRow]
           /\ [runRow EXCEPT ![r].status = status] \in [Runs -> RunRow]
           /\ [runRow EXCEPT ![r].parsed = Total(r), ![r].counts = res[r]]
                  \in [Runs -> RunRow]
<1>1. Total(r) \in Nat
  BY StatementsAssumption DEF TypeOK, Job, Total
<1>2. runRow \in [Runs -> RunRow] /\ res[r] \in Counts
  BY DEF TypeOK
<1>3. /\ [runRow[r] EXCEPT !.status = status] \in RunRow
      /\ [runRow[r] EXCEPT !.status = status, !.finished = TRUE] \in RunRow
      /\ [runRow[r] EXCEPT !.parsed = Total(r), !.counts = res[r]] \in RunRow
  <2>1. runRow[r] \in RunRow
    BY <1>2
  <2> QED BY <1>1, <1>2, <2>1 DEF RunRow
<1>4. Finished(r, status) \in [Runs -> RunRow]
  BY <1>2, <1>3 DEF Finished
<1> QED BY <1>2, <1>3, <1>4

LEMMA VerdictType ==
    ASSUME NEW n, NEW b PROVE Verdict(n, b) \in ImportStatus
BY DEF Verdict, ImportStatus

LEMMA BalanceType ==
    ASSUME TypeOK, NEW s \in Statements, BalanceRows(s) # {}
    PROVE  Rebalanced(LatestBalance(s)) \in [paise : Int \union {NoBalance}, asOf : Nat]
BY LatestBalanceType DEF TypeOK, Rebalanced, RawTransaction

\* Every step of an import keeps the types.
LEMMA StepType ==
    ASSUME TypeOK, NEW r \in Runs, Step(r)
    PROVE  TypeOK'
<1> USE DEF RowSteps, Foreground, Background, Ended, PC
<1>1. CASE CreateRun(r)
  <2>1. pc' \in [Runs -> PC] /\ idx' \in [Runs -> Nat \ {0}]
    BY <1>1, ControlType DEF CreateRun
  <2>2. faults' \in Nat
    BY <1>1, OutcomeType DEF CreateRun, TypeOK
  <2>3. runRow' \in [Runs -> RunRow]
    <3>1. [runRow EXCEPT ![r].status = "running"] \in [Runs -> RunRow]
      BY RunRowType DEF ImportStatus
    <3>2. runRow \in [Runs -> RunRow]
      BY DEF TypeOK
    <3> QED BY <1>1, <3>1, <3>2 DEF CreateRun
  <2> QED BY <1>1, <2>1, <2>2, <2>3 DEF CreateRun, TypeOK
<1>2. CASE CheckKey(r)
  <2>1. pc' \in [Runs -> PC] /\ idx' \in [Runs -> Nat \ {0}]
    BY <1>2, ControlType DEF CheckKey, Continue
  <2>2. faults' \in Nat
    BY <1>2, OutcomeType DEF CheckKey, TypeOK
  <2>3. res' \in [Runs -> Counts]
    BY <1>2, CountType DEF CheckKey, TypeOK
  <2> QED BY <1>2, <2>1, <2>2, <2>3 DEF CheckKey, TypeOK, dbVars
<1>3. CASE LookupKey(r)
  <2>1. pc' \in [Runs -> PC] /\ idx' \in [Runs -> Nat \ {0}]
    BY <1>3, ControlType DEF LookupKey, Continue
  <2>2. faults' \in Nat
    BY <1>3, OutcomeType DEF LookupKey, TypeOK
  <2> QED BY <1>3, <2>1, <2>2 DEF LookupKey, TypeOK, dbVars
<1>4. CASE TagRow(r)
  <2>1. pc' \in [Runs -> PC] /\ idx' \in [Runs -> Nat \ {0}]
    BY <1>4, ControlType DEF TagRow, Continue
  <2>2. faults' \in Nat
    BY <1>4, OutcomeType DEF TagRow, TypeOK
  <2>3. tag' \in [Keys -> TaggingStatus]
    BY <1>4, TagType DEF TagRow, TypeOK, TaggingStatus
  <2> QED BY <1>4, <2>1, <2>2, <2>3 DEF TagRow, TypeOK
<1>5. CASE InsertTransaction(r)
  <2>1. pc' \in [Runs -> PC] /\ idx' \in [Runs -> Nat \ {0}]
    BY <1>5, ControlType DEF InsertTransaction, Continue
  <2>2. faults' \in Nat
    BY <1>5, OutcomeType DEF InsertTransaction, TypeOK
  <2>3. res' \in [Runs -> Counts]
    BY <1>5, CountType DEF InsertTransaction, TypeOK
  <2>4. stored' \in [Keys -> Nat]
    BY <1>5 DEF InsertTransaction, TypeOK
  <2> QED BY <1>5, <2>1, <2>2, <2>3, <2>4 DEF InsertTransaction, TypeOK
<1>6. CASE InsertEnrichment(r)
  <2>1. pc' \in [Runs -> PC] /\ idx' \in [Runs -> Nat \ {0}]
    BY <1>6, ControlType DEF InsertEnrichment, Continue
  <2>2. faults' \in Nat
    BY <1>6, OutcomeType DEF InsertEnrichment, TypeOK
  <2>3. res' \in [Runs -> Counts]
    BY <1>6, CountType DEF InsertEnrichment, TypeOK
  <2>4. tag' \in [Keys -> TaggingStatus]
    BY <1>6, TagType DEF InsertEnrichment, TypeOK, TaggingStatus
  <2>5. claims' \in [Keys -> Nat]
    BY <1>6 DEF InsertEnrichment, TypeOK
  <2> QED BY <1>6, <2>1, <2>2, <2>3, <2>4, <2>5 DEF InsertEnrichment, TypeOK
<1>7. CASE UpdateCounts(r)
  <2>1. pc' \in [Runs -> PC] /\ idx' \in [Runs -> Nat \ {0}]
    BY <1>7, ControlType DEF UpdateCounts
  <2>2. faults' \in Nat
    BY <1>7, OutcomeType DEF UpdateCounts, TypeOK
  <2>3. runRow' \in [Runs -> RunRow]
    <3>1. [runRow EXCEPT ![r].parsed = Total(r), ![r].counts = res[r]]
             \in [Runs -> RunRow]
      BY RunRowType DEF ImportStatus
    <3>2. runRow \in [Runs -> RunRow]
      BY DEF TypeOK
    <3> QED BY <1>7, <3>1, <3>2 DEF UpdateCounts
  <2> QED BY <1>7, <2>1, <2>2, <2>3 DEF UpdateCounts, TypeOK
<1>8. CASE FinishRun(r)
  <2>1. pc' \in [Runs -> PC] /\ idx' \in [Runs -> Nat \ {0}]
    BY <1>8, ControlType DEF FinishRun
  <2>2. faults' \in Nat
    BY <1>8, OutcomeType DEF FinishRun, TypeOK
  <2>3. runRow' \in [Runs -> RunRow]
    <3>1. Finished(r, Verdict(res[r].failed, res[r].inserted = 0)) \in [Runs -> RunRow]
      BY RunRowType, VerdictType
    <3>2. runRow \in [Runs -> RunRow]
      BY DEF TypeOK
    <3> QED BY <1>8, <3>1, <3>2 DEF FinishRun
  <2> QED BY <1>8, <2>1, <2>2, <2>3 DEF FinishRun, TypeOK
<1>9. CASE UpdateBalance(r)
  <2>1. pc' \in [Runs -> PC] /\ idx' \in [Runs -> Nat \ {0}]
    BY <1>9, ControlType DEF UpdateBalance
  <2>2. faults' \in Nat
    BY <1>9, OutcomeType DEF UpdateBalance, TypeOK
  <2>3. job[r].rows \in Statements
    BY DEF TypeOK, Job
  <2>4. balance' \in [paise : Int \union {NoBalance}, asOf : Nat]
    BY <1>9, <2>3, BalanceType DEF UpdateBalance, TypeOK
  <2> QED BY <1>9, <2>1, <2>2, <2>4 DEF UpdateBalance, TypeOK
<1>10. CASE LoadCategories(r)
  <2>1. pc' \in [Runs -> PC] /\ idx' \in [Runs -> Nat \ {0}]
    BY <1>10, ControlType DEF LoadCategories
  <2>2. faults' \in Nat
    BY <1>10, OutcomeType DEF LoadCategories, TypeOK
  <2> QED BY <1>10, <2>1, <2>2 DEF LoadCategories, TypeOK, dbVars
<1>11. CASE MarkEnriching(r)
  <2>1. faults' \in Nat
    BY <1>11, OutcomeType DEF MarkEnriching, TypeOK
  <2>2. runRow' \in [Runs -> RunRow]
    <3>1. [runRow EXCEPT ![r].status = "enriching"] \in [Runs -> RunRow]
      BY RunRowType DEF ImportStatus
    <3>2. runRow \in [Runs -> RunRow]
      BY DEF TypeOK
    <3> QED BY <1>11, <3>1, <3>2 DEF MarkEnriching
  <2>3. /\ pc' \in [Runs -> PC] /\ idx' \in [Runs -> Nat \ {0}]
        /\ cancelled' \in [Runs -> BOOLEAN]
    BY <1>11 DEF MarkEnriching, TypeOK, FirstRow
  <2> QED BY <1>11, <2>1, <2>2, <2>3 DEF MarkEnriching, TypeOK
<1>12. CASE BgLookup(r)
  <2>1. pc' \in [Runs -> PC] /\ idx' \in [Runs -> Nat \ {0}]
    BY <1>12, ControlType DEF BgLookup, ContinueBg
  <2>2. faults' \in Nat
    BY <1>12, OutcomeType DEF BgLookup, TypeOK
  <2> QED BY <1>12, <2>1, <2>2 DEF BgLookup, TypeOK, dbVars
<1>13. CASE BgTagRow(r)
  <2>1. pc' \in [Runs -> PC] /\ idx' \in [Runs -> Nat \ {0}]
    BY <1>13, ControlType DEF BgTagRow, ContinueBg
  <2>2. faults' \in Nat
    BY <1>13, OutcomeType DEF BgTagRow, TypeOK
  <2>3. tag' \in [Keys -> TaggingStatus]
    BY <1>13, TagType DEF BgTagRow, TypeOK, TaggingStatus
  <2>4. enrichFailed' \in [Runs -> Nat]
    BY <1>13 DEF BgTagRow, CountEnrichFailed, TypeOK
  <2> QED BY <1>13, <2>1, <2>2, <2>3, <2>4 DEF BgTagRow, TypeOK
<1>14. CASE BgFinish(r)
  <2>1. pc' \in [Runs -> PC] /\ idx' \in [Runs -> Nat \ {0}]
    BY <1>14, ControlType DEF BgFinish
  <2>2. faults' \in Nat
    BY <1>14, OutcomeType DEF BgFinish, TypeOK
  <2>3. runRow' \in [Runs -> RunRow]
    <3>1. Finished(r, Verdict(enrichFailed[r], enrichFailed[r] = Total(r)))
             \in [Runs -> RunRow]
      BY RunRowType, VerdictType
    <3>2. runRow \in [Runs -> RunRow]
      BY DEF TypeOK
    <3> QED BY <1>14, <3>1, <3>2 DEF BgFinish
  <2> QED BY <1>14, <2>1, <2>2, <2>3 DEF BgFinish, TypeOK
<1> QED BY <1>1, <1>2, <1>3, <1>4, <1>5, <1>6, <1>7, <1>8, <1>9, <1>10, <1>11,
           <1>12, <1>13, <1>14 DEF Step

\* So do the steps of the environment.
LEMMA EnvironmentType ==
    ASSUME TypeOK,
           \/ \E r \in Runs : Submit(r) \/ Cancel(r) \/ CrashCommand(r)
           \/ CrashServer
           \/ \E k \in Keys : PatchEnrichment(k)
           \/ UNCHANGED vars
    PROVE  TypeOK'
<1>1. ASSUME NEW r \in Runs, Submit(r) PROVE TypeOK'
  BY <1>1 DEF Submit, Goto, TypeOK, dbVars, PC, Foreground
<1>2. ASSUME NEW r \in Runs, Cancel(r) PROVE TypeOK'
  BY <1>2 DEF Cancel, TypeOK, dbVars
<1>3. ASSUME NEW victims, Crash(victims) PROVE TypeOK'
  BY <1>3 DEF Crash, TypeOK, dbVars, PC, Ended
<1>4. ASSUME NEW k \in Keys, PatchEnrichment(k) PROVE TypeOK'
  BY <1>4, TagType DEF PatchEnrichment, TypeOK, procVars, TaggingStatus
<1>5. ASSUME UNCHANGED vars PROVE TypeOK'
  BY <1>5 DEF vars, procVars, dbVars, TypeOK
<1> QED BY <1>1, <1>2, <1>3, <1>4, <1>5 DEF CrashServer, CrashCommand

\* Every variable has its type, always: in particular an import never looks at a
\* row number 0, and a status is one of the enum's.
THEOREM TypeCorrect == Spec => []TypeOK
<1>1. Init => TypeOK
  BY DEF Init, TypeOK, Counts, NoCounts, RunRow, ImportStatus, TaggingStatus, PC
<1>2. TypeOK /\ [Next]_vars => TypeOK'
  BY StepType, EnvironmentType DEF Next, Settled
<1> QED BY <1>1, <1>2, PTL DEF Spec

-----------------------------------------------------------------------------
(* The ledger *)

AtRow == RowSteps \union {"bgLookup", "bgTag"}
AtStart == {"idle", "create"}

\* Control moves that keep an import within its statement: to a call that looks at
\* no row, to another call about the same row, to the next row if there is one.
LEMMA ControlInRange ==
    ASSUME TypeOK, RowInRange, NEW r \in Runs, UNCHANGED job,
           \/ \E l \in PC \ (AtRow \union AtStart) : Goto(r, l)
           \/ pc[r] \in AtRow /\ \E l \in AtRow : Goto(r, l)
           \/ pc[r] = "idle" /\ Goto(r, "create")
           \/ pc[r] = "create" /\ Goto(r, "check")
           \/ /\ pc[r] \in AtRow
              /\ \E l \in AtRow : \E m \in PC \ (AtRow \union AtStart) : NextRow(r, l, m)
    PROVE  RowInRange'
<1> USE DEF RowSteps, AtRow, AtStart
<1>1. Total(r) \in Nat \ {0} /\ \A q \in Runs : Total(q)' = Total(q)
  BY StatementsAssumption DEF TypeOK, Job, Total
<1>2. SUFFICES ASSUME NEW q \in Runs
               PROVE  /\ pc'[q] \in AtStart => idx'[q] = 1
                      /\ pc'[q] \in AtRow => idx'[q] \in 1 .. Total(q)
  BY <1>1 DEF RowInRange
<1>3. CASE q # r
  BY <1>3 DEF RowInRange, TypeOK, Goto, NextRow
<1>4. CASE q = r
  BY <1>1, <1>4 DEF RowInRange, TypeOK, Goto, NextRow
<1> QED BY <1>3, <1>4

LEMMA StepInRange ==
    ASSUME TypeOK, RowInRange, NEW r \in Runs, Step(r)
    PROVE  RowInRange'
<1> USE DEF RowSteps, AtRow, AtStart, Foreground, Background, Ended, PC
<1>1. UNCHANGED job
  BY DEF Step, CreateRun, CheckKey, LookupKey, TagRow, InsertTransaction,
         InsertEnrichment, UpdateCounts, FinishRun, UpdateBalance, LoadCategories,
         MarkEnriching, BgLookup, BgTagRow, BgFinish
<1>2. CASE CreateRun(r)
  BY <1>1, <1>2, ControlInRange DEF CreateRun
<1>3. CASE CheckKey(r)
  BY <1>1, <1>3, ControlInRange DEF CheckKey, Continue
<1>4. CASE LookupKey(r)
  BY <1>1, <1>4, ControlInRange DEF LookupKey, Continue
<1>5. CASE TagRow(r)
  BY <1>1, <1>5, ControlInRange DEF TagRow, Continue
<1>6. CASE InsertTransaction(r)
  BY <1>1, <1>6, ControlInRange DEF InsertTransaction, Continue
<1>7. CASE InsertEnrichment(r)
  BY <1>1, <1>7, ControlInRange DEF InsertEnrichment, Continue
<1>8. CASE UpdateCounts(r)
  BY <1>1, <1>8, ControlInRange DEF UpdateCounts
<1>9. CASE FinishRun(r)
  BY <1>1, <1>9, ControlInRange DEF FinishRun
<1>10. CASE UpdateBalance(r)
  BY <1>1, <1>10, ControlInRange DEF UpdateBalance
<1>11. CASE LoadCategories(r)
  BY <1>1, <1>11, ControlInRange DEF LoadCategories
<1>12. CASE MarkEnriching(r)
  <2>1. \A q \in Runs : Total(q)' = Total(q) /\ Total(q) \in Nat \ {0}
    BY <1>1, StatementsAssumption DEF TypeOK, Job, Total
  <2> QED BY <1>12, <2>1 DEF MarkEnriching, FirstRow, RowInRange, TypeOK
<1>13. CASE BgLookup(r)
  BY <1>1, <1>13, ControlInRange DEF BgLookup, ContinueBg
<1>14. CASE BgTagRow(r)
  BY <1>1, <1>14, ControlInRange DEF BgTagRow, ContinueBg
<1>15. CASE BgFinish(r)
  BY <1>1, <1>15, ControlInRange DEF BgFinish
<1> QED BY <1>2, <1>3, <1>4, <1>5, <1>6, <1>7, <1>8, <1>9, <1>10, <1>11, <1>12,
           <1>13, <1>14, <1>15 DEF Step

LEMMA EnvironmentInRange ==
    ASSUME TypeOK, RowInRange,
           \/ \E r \in Runs : Submit(r) \/ Cancel(r) \/ CrashCommand(r)
           \/ CrashServer
           \/ \E k \in Keys : PatchEnrichment(k)
           \/ UNCHANGED vars
    PROVE  RowInRange'
<1>1. ASSUME NEW r \in Runs, Submit(r) PROVE RowInRange'
  BY <1>1, ControlInRange DEF Submit
<1>2. ASSUME UNCHANGED <<job, pc, idx>> PROVE RowInRange'
  BY <1>2 DEF RowInRange, Total
<1>3. ASSUME NEW victims, Crash(victims) PROVE RowInRange'
  BY <1>3 DEF Crash, RowInRange, Total, RowSteps
<1> QED BY <1>1, <1>2, <1>3 DEF CrashServer, CrashCommand, Cancel, PatchEnrichment,
                                vars, procVars

\* The key of the row an import is at is one of Keys.
LEMMA KeyType ==
    ASSUME TypeOK, RowInRange, NEW r \in Runs, pc[r] \in AtRow
    PROVE  Key(r) \in Keys
<1>1. job[r].rows \in Statements
  BY DEF TypeOK, Job
<1>2. idx[r] \in DOMAIN job[r].rows
  BY <1>1, StatementsAssumption DEF RowInRange, Total, AtRow
<1> QED BY <1>1, <1>2, RowType DEF Key

\* Moves of one import that touch neither table and do not lead between the two
\* statements of Insert keep RecordedOnce.
LEMMA RecordedOnceQuiet ==
    ASSUME TypeOK, RecordedOnce, NEW r \in Runs, UNCHANGED <<job, stored, claims>>,
           pc'[r] # "blank",
           \A q \in Runs \ {r} : pc'[q] = pc[q] /\ idx'[q] = idx[q]
    PROVE  RecordedOnce'
BY DEF RecordedOnce, Key

\* Moves that leave the other imports where they are.
LEMMA OthersStay ==
    ASSUME TypeOK, NEW r \in Runs, NEW l, NEW m, Goto(r, l) \/ NextRow(r, l, m),
           l # "blank", m # "blank"
    PROVE  /\ pc'[r] # "blank"
           /\ \A q \in Runs \ {r} : pc'[q] = pc[q] /\ idx'[q] = idx[q]
BY DEF TypeOK, Goto, NextRow

\* Only the two statements of Insert touch the ledger.
LEMMA OtherSteps ==
    ASSUME TypeOK, NEW r \in Runs, Step(r),
           ~InsertTransaction(r), ~InsertEnrichment(r)
    PROVE  /\ UNCHANGED <<job, stored, claims>>
           /\ pc'[r] # "blank"
           /\ \A q \in Runs \ {r} : pc'[q] = pc[q] /\ idx'[q] = idx[q]
<1>1. CASE CreateRun(r)
  BY <1>1, OthersStay DEF CreateRun
<1>2. CASE CheckKey(r)
  BY <1>2, OthersStay DEF CheckKey, Continue, dbVars
<1>3. CASE LookupKey(r)
  BY <1>3, OthersStay DEF LookupKey, Continue, dbVars
<1>4. CASE TagRow(r)
  BY <1>4, OthersStay DEF TagRow, Continue
<1>5. CASE UpdateCounts(r)
  BY <1>5, OthersStay DEF UpdateCounts
<1>6. CASE FinishRun(r)
  BY <1>6, OthersStay DEF FinishRun
<1>7. CASE UpdateBalance(r)
  BY <1>7, OthersStay DEF UpdateBalance
<1>8. CASE LoadCategories(r)
  BY <1>8, OthersStay DEF LoadCategories, dbVars
<1>9. CASE MarkEnriching(r)
  BY <1>9 DEF MarkEnriching, TypeOK
<1>10. CASE BgLookup(r)
  BY <1>10, OthersStay DEF BgLookup, ContinueBg, dbVars
<1>11. CASE BgTagRow(r)
  BY <1>11, OthersStay DEF BgTagRow, ContinueBg
<1>12. CASE BgFinish(r)
  BY <1>12, OthersStay DEF BgFinish
<1> QED BY <1>1, <1>2, <1>3, <1>4, <1>5, <1>6, <1>7, <1>8, <1>9, <1>10, <1>11,
           <1>12 DEF Step

\* The first statement of Insert records the key, once; what it stored is not yet
\* counted by anybody.
LEMMA InsertRecords ==
    ASSUME TypeOK, RowInRange, RecordedOnce, NEW r \in Runs, InsertTransaction(r)
    PROVE  /\ RecordedOnce'
           /\ UNCHANGED claims
           /\ \/ UNCHANGED stored
              \/ /\ Key(r) \in Keys /\ stored[Key(r)] = 0
                 /\ stored' = [stored EXCEPT ![Key(r)] = 1]
<1> DEFINE k == Key(r)
<1>1. k \in Keys /\ stored \in [Keys -> Nat] /\ claims \in [Keys -> Nat]
  BY KeyType DEF InsertTransaction, AtRow, RowSteps, TypeOK
<1>2. UNCHANGED <<job, claims>>
  BY DEF InsertTransaction
<1>3. CASE UNCHANGED stored
  <2>1. Goto(r, "blank") => stored' = [stored EXCEPT ![k] = @ + 1]
    BY OthersStay DEF InsertTransaction, Continue, NextRow, Goto, TypeOK
  <2>2. ~Goto(r, "blank")
    BY <1>1, <1>3, <2>1
  <2>3. Continue(r)
    BY <2>2 DEF InsertTransaction
  <2>4. /\ pc'[r] # "blank"
        /\ \A q \in Runs \ {r} : pc'[q] = pc[q] /\ idx'[q] = idx[q]
    BY <2>3, OthersStay DEF Continue
  <2> QED BY <1>2, <1>3, <2>4, RecordedOnceQuiet
<1>4. CASE ~UNCHANGED stored
  <2>1. stored[k] = 0 /\ stored' = [stored EXCEPT ![k] = 1]
    BY <1>1, <1>4 DEF InsertTransaction, Unique
  <2>2. \A q \in Runs \ {r} : pc'[q] = pc[q] /\ idx'[q] = idx[q]
    BY DEF InsertTransaction, Continue, Goto, NextRow, TypeOK
  <2>3. \A q \in Runs \ {r} : Key(q)' = Key(q) /\ (pc[q] = "blank" => Key(q) # k)
    BY <1>2, <2>1, <2>2 DEF Key, RecordedOnce
  <2>4. pc'[r] = "blank" => Key(r)' = k
    <3>1. idx'[r] # idx[r] => pc'[r] # "blank"
      BY DEF InsertTransaction, Continue, Goto, NextRow, TypeOK
    <3> QED BY <1>2, <3>1 DEF Key
  <2>5. claims[k] = 0
    BY <1>1, <2>1 DEF RecordedOnce
  <2>6. \A j \in Keys : stored'[j] <= 1 /\ claims'[j] <= stored'[j]
    BY <1>1, <1>2, <2>1, <2>5 DEF RecordedOnce
  <2>7. \A q \in Runs : pc'[q] = "blank" => stored'[Key(q)'] = 1 /\ claims'[Key(q)'] = 0
    <3>1. \A q \in Runs \ {r} : pc[q] = "blank" => stored'[Key(q)] = 1 /\ claims[Key(q)] = 0
      BY <2>1, <2>3 DEF RecordedOnce
    <3> QED BY <1>1, <1>2, <2>1, <2>2, <2>3, <2>4, <2>5, <3>1
  <2>8. \A p, q \in Runs :
           pc'[p] = "blank" /\ pc'[q] = "blank" /\ Key(p)' = Key(q)' => p = q
    BY <2>2, <2>3, <2>4 DEF RecordedOnce
  <2>9. RecordedOnce'
    BY <2>6, <2>7, <2>8 DEF RecordedOnce
  <2> QED BY <1>1, <1>2, <2>1, <2>9
<1> QED BY <1>3, <1>4

\* The second statement of Insert lets the import that stored the key, and no other,
\* count it.
LEMMA InsertClaims ==
    ASSUME TypeOK, RowInRange, RecordedOnce, NEW r \in Runs, InsertEnrichment(r)
    PROVE  /\ RecordedOnce'
           /\ UNCHANGED stored
           /\ \/ UNCHANGED claims
              \/ /\ Key(r) \in Keys /\ stored[Key(r)] = 1 /\ claims[Key(r)] = 0
                 /\ claims' = [claims EXCEPT ![Key(r)] = 1]
<1> DEFINE k == Key(r)
<1>1. k \in Keys /\ stored \in [Keys -> Nat] /\ claims \in [Keys -> Nat]
  BY KeyType DEF InsertEnrichment, AtRow, RowSteps, TypeOK
<1>2. UNCHANGED <<job, stored>> /\ pc[r] = "blank"
  BY DEF InsertEnrichment
<1>3. stored[k] = 1 /\ claims[k] = 0
  BY <1>2 DEF RecordedOnce
<1>4. /\ pc'[r] # "blank"
      /\ \A q \in Runs \ {r} : pc'[q] = pc[q] /\ idx'[q] = idx[q]
  <2>1. Goto(r, "tag") \/ Continue(r)
    BY DEF InsertEnrichment
  <2>2. CASE Goto(r, "tag")
    BY <2>2 DEF Goto, TypeOK
  <2>3. CASE Continue(r)
    BY <2>3 DEF Continue, NextRow, TypeOK
  <2> QED BY <2>1, <2>2, <2>3
<1>5. CASE UNCHANGED claims
  BY <1>2, <1>4, <1>5, RecordedOnceQuiet
<1>6. CASE claims' = [claims EXCEPT ![k] = 1]
  <2>1. \A j \in Keys : stored'[j] <= 1 /\ claims'[j] <= stored'[j]
    BY <1>1, <1>2, <1>3, <1>6 DEF RecordedOnce
  <2>2. \A q \in Runs \ {r} : pc[q] = "blank" => Key(q) # k
    BY <1>2 DEF RecordedOnce
  <2>3. \A q \in Runs \ {r} : Key(q)' = Key(q)
    BY <1>2, <1>4 DEF Key
  <2>4. \A q \in Runs : pc'[q] = "blank" => stored'[Key(q)'] = 1 /\ claims'[Key(q)'] = 0
    BY <1>2, <1>4, <1>6, <2>2, <2>3 DEF RecordedOnce
  <2>5. \A p, q \in Runs :
           pc'[p] = "blank" /\ pc'[q] = "blank" /\ Key(p)' = Key(q)' => p = q
    BY <1>4, <2>3 DEF RecordedOnce
  <2>6. RecordedOnce'
    BY <2>1, <2>4, <2>5 DEF RecordedOnce
  <2> QED BY <1>1, <1>2, <1>3, <1>6, <2>6
<1>7. UNCHANGED claims \/ claims' = [claims EXCEPT ![k] = 1]
  BY <1>1, <1>3 DEF InsertEnrichment
<1> QED BY <1>5, <1>6, <1>7

LEMMA EnvironmentRecordedOnce ==
    ASSUME TypeOK, RecordedOnce,
           \/ \E r \in Runs : Submit(r) \/ Cancel(r) \/ CrashCommand(r)
           \/ CrashServer
           \/ \E k \in Keys : PatchEnrichment(k)
           \/ UNCHANGED vars
    PROVE  RecordedOnce' /\ UNCHANGED <<stored, claims>>
<1>1. ASSUME NEW r \in Runs, Submit(r) PROVE RecordedOnce' /\ UNCHANGED <<stored, claims>>
  BY <1>1, OthersStay, RecordedOnceQuiet DEF Submit, dbVars
<1>2. ASSUME UNCHANGED <<job, pc, idx, stored, claims>> PROVE RecordedOnce'
  BY <1>2 DEF RecordedOnce, Key
<1>3. ASSUME NEW victims, Crash(victims)
      PROVE RecordedOnce' /\ UNCHANGED <<stored, claims>>
  BY <1>3 DEF Crash, RecordedOnce, Key, dbVars
<1> QED BY <1>1, <1>2, <1>3 DEF CrashServer, CrashCommand, Cancel, PatchEnrichment,
                                vars, procVars, dbVars

-----------------------------------------------------------------------------

\* One step of the system, on the inductive invariant: it is kept, and the step is
\* a step of the ledger or leaves the ledger alone.
LEMMA StepRefines ==
    ASSUME TypeOK, RowInRange, RecordedOnce, [Next]_vars
    PROVE  TypeOK' /\ RowInRange' /\ RecordedOnce' /\ [L!Next]_(L!vars)
<1>1. ASSUME NEW r \in Runs, Step(r)
      PROVE  TypeOK' /\ RowInRange' /\ RecordedOnce' /\ [L!Next]_(L!vars)
  <2>1. TypeOK' /\ RowInRange'
    BY <1>1, StepType, StepInRange
  <2>2. CASE InsertTransaction(r)
    BY <2>1, <2>2, InsertRecords DEF L!Next, L!Record, L!vars
  <2>3. CASE InsertEnrichment(r)
    BY <2>1, <2>3, InsertClaims DEF L!Next, L!Claim, L!vars
  <2>4. CASE ~InsertTransaction(r) /\ ~InsertEnrichment(r)
    BY <1>1, <2>1, <2>4, OtherSteps, RecordedOnceQuiet DEF L!vars
  <2> QED BY <2>2, <2>3, <2>4
<1>2. ASSUME \/ \E r \in Runs : Submit(r) \/ Cancel(r) \/ CrashCommand(r)
             \/ CrashServer
             \/ \E k \in Keys : PatchEnrichment(k)
             \/ UNCHANGED vars
      PROVE  TypeOK' /\ RowInRange' /\ RecordedOnce' /\ [L!Next]_(L!vars)
  BY <1>2, EnvironmentType, EnvironmentInRange, EnvironmentRecordedOnce DEF L!vars
<1> QED BY <1>1, <1>2 DEF Next, Settled

LEMMA InitInvariant == Init => TypeOK /\ RowInRange /\ RecordedOnce
<1> SUFFICES ASSUME Init PROVE TypeOK /\ RowInRange /\ RecordedOnce
  OBVIOUS
<1>1. TypeOK
  BY DEF Init, TypeOK, Counts, NoCounts, RunRow, ImportStatus, TaggingStatus, PC
<1>2. RowInRange
  BY DEF Init, RowInRange, RowSteps
<1>3. RecordedOnce
  BY DEF Init, RecordedOnce
<1> QED BY <1>1, <1>2, <1>3

LEMMA RecordedInvariant == Spec => [](TypeOK /\ RowInRange /\ RecordedOnce)
<1>1. TypeOK /\ RowInRange /\ RecordedOnce /\ [Next]_vars
          => TypeOK' /\ RowInRange' /\ RecordedOnce'
  BY StepRefines
<1> QED BY <1>1, InitInvariant, PTL DEF Spec

\* An import never looks at a row its statement does not have, however the imports
\* interleave, fail, are cancelled and crash.
THEOREM RowInRangeAlways == Spec => []RowInRange
BY RecordedInvariant, PTL

\* No transaction is stored twice or reported as Inserted by two imports, however
\* they interleave, fail, lose replies and crash.
THEOREM RecordedOnceAlways == Spec => []RecordedOnce
BY RecordedInvariant, PTL

\* Importing implements the ledger: every step of the four tables' users is one of
\* its steps or does not concern it.
THEOREM ImplementsLedger == Spec => LedgerSpec
<1>1. Init => L!Init
  BY DEF Init, L!Init
<1>2. TypeOK /\ RowInRange /\ RecordedOnce /\ [Next]_vars => [L!Next]_(L!vars)
  BY StepRefines
<1> QED BY <1>1, <1>2, RecordedInvariant, PTL DEF Spec, LedgerSpec, L!Spec

-----------------------------------------------------------------------------
(* What an import reports *)

PastRows == {"counts", "finish", "balance", "categories", "enriching"}
Verdicts == {"success", "partial", "failed"}

\* RowsAccounted, and an import that has not begun has counted nothing.
CountsFit(r) ==
    LET counted == res[r].inserted + res[r].duplicate + res[r].failed IN
    /\ pc[r] \in {"idle", "create"} => counted = 0
    /\ pc[r] \in {"check", "insert", "blank"} => counted = idx[r] - 1
    /\ pc[r] \in {"lookup", "tag"} => counted = idx[r]
    /\ pc[r] \in PastRows => counted = Total(r)

\* Of the first n rows, those that are not stored: no more than were counted as
\* failed, and none as long as no statement has failed and the context lasts.
Lost(r, n) == {i \in 1 .. n : stored[IdempotencyKey(job[r].rows[i])] = 0}
LossCounted(r, n) ==
    /\ Cardinality(Lost(r, n)) <= res[r].failed
    /\ faults = 0 /\ ~cancelled[r] => Lost(r, n) = {}

\* The rows the import has dealt with.
RowsStored(r) ==
    /\ pc[r] \in {"check", "insert", "blank"} => LossCounted(r, idx[r] - 1)
    /\ pc[r] \in {"lookup", "tag"} => LossCounted(r, idx[r])
    /\ pc[r] \in PastRows => LossCounted(r, Total(r))

\* A verdict is given after the last row and holds until EnrichRows gives another.
VerdictTold(r) ==
    /\ runRow[r].status = "success" => Lost(r, Total(r)) = {}
    /\ Cardinality(Lost(r, Total(r))) <= res[r].failed
    /\ Lost(r, Total(r)) # {} => faults > 0
VerdictFits(r) ==
    /\ runRow[r].status \in Verdicts \union {"enriching"} =>
           pc[r] \in {"balance", "categories", "enriching"} \union Background \union Ended
    /\ pc[r] \in {"categories", "enriching"} \union Background => Deferred(r)
    /\ runRow[r].status \in Verdicts /\ ~(Deferred(r) /\ pc[r] \in Ended) => VerdictTold(r)

\* Who still has to close the row of an import, or why nobody will.
ClosedBySomebody(r) ==
    /\ pc[r] = "idle" => runRow[r].status = "none"
    /\ pc[r] \in {"balance", "categories"} =>
           \/ runRow[r].status \in Verdicts /\ runRow[r].finished
           \/ cancelled[r] \/ faults > 0
    /\ pc[r] = "enriching" => runRow[r].finished \/ faults > 0
    /\ pc[r] \in Background => runRow[r].finished \/ faults > 0
    /\ runRow[r].status \in {"running", "enriching"} /\ pc[r] = "done" =>
           cancelled[r] \/ faults > 0

Reported(r) == CountsFit(r) /\ RowsStored(r) /\ VerdictFits(r) /\ ClosedBySomebody(r)

IInv == TypeOK /\ RowInRange /\ RecordedOnce /\ \A r \in Runs : Reported(r)

-----------------------------------------------------------------------------
(* What a step leaves alone *)

\* The parts of the counts, one of which a row adds to.
LEMMA Counted ==
    ASSUME TypeOK, NEW r \in Runs, NEW f \in {"inserted", "duplicate", "failed"}, Count(r, f)
    PROVE  /\ res'[r].inserted = IF f = "inserted" THEN res[r].inserted + 1 ELSE res[r].inserted
           /\ res'[r].duplicate = IF f = "duplicate" THEN res[r].duplicate + 1 ELSE res[r].duplicate
           /\ res'[r].failed = IF f = "failed" THEN res[r].failed + 1 ELSE res[r].failed
           /\ \A q \in Runs \ {r} : res'[q] = res[q]
BY DEF TypeOK, Count, Counts

\* The statements of an import are about its own row of import_runs; a stored
\* transaction stays.
LEMMA StepFrame ==
    ASSUME TypeOK, RowInRange, RecordedOnce, NEW r \in Runs, Step(r)
    PROVE  /\ UNCHANGED job
           /\ \A k \in Keys : stored[k] > 0 => stored'[k] > 0
           /\ faults > 0 => faults' > 0
           /\ \A q \in Runs \ {r} : UNCHANGED <<pc[q], idx[q], res[q], runRow[q], cancelled[q]>>
           /\ TypeOK'
<1>7. TypeOK'
  BY StepType
<1>1. UNCHANGED job /\ \A q \in Runs \ {r} : UNCHANGED cancelled[q]
  BY DEF Step, TypeOK, dbVars, CreateRun, CheckKey, LookupKey, TagRow, InsertTransaction,
         InsertEnrichment, UpdateCounts, FinishRun, UpdateBalance, LoadCategories,
         MarkEnriching, BgLookup, BgTagRow, BgFinish
<1>2. \A k \in Keys : stored[k] > 0 => stored'[k] > 0
  BY InsertRecords, InsertClaims, OtherSteps DEF TypeOK
<1>3. faults > 0 => faults' > 0
  BY DEF Step, TypeOK, dbVars, Succeeds, Fails, ReplyLost,
     CreateRun, CheckKey, LookupKey, TagRow, InsertTransaction, InsertEnrichment,
     UpdateCounts, FinishRun, UpdateBalance, LoadCategories, MarkEnriching, BgLookup,
     BgTagRow, BgFinish
<1>4. \A q \in Runs \ {r} : UNCHANGED runRow[q]
  BY DEF Step, TypeOK, dbVars, Finished, CreateRun, CheckKey, LookupKey, TagRow,
         InsertTransaction, InsertEnrichment, UpdateCounts, FinishRun, UpdateBalance,
         LoadCategories, MarkEnriching, BgLookup, BgTagRow, BgFinish
<1>5. \A q \in Runs \ {r} : UNCHANGED <<pc[q], idx[q]>>
  BY DEF Step, TypeOK, Goto, NextRow, Continue, ContinueBg, CreateRun, CheckKey, LookupKey,
         TagRow, InsertTransaction, InsertEnrichment, UpdateCounts, FinishRun,
         UpdateBalance, LoadCategories, MarkEnriching, BgLookup, BgTagRow, BgFinish
<1>6. \A q \in Runs \ {r} : UNCHANGED res[q]
  BY Counted
  DEF Step, CreateRun, CheckKey, LookupKey, TagRow, InsertTransaction, InsertEnrichment,
      UpdateCounts, FinishRun, UpdateBalance, LoadCategories, MarkEnriching, BgLookup,
      BgTagRow, BgFinish
<1> QED BY <1>1, <1>2, <1>3, <1>4, <1>5, <1>6, <1>7

\* A key of a row of a statement is a key.
LEMMA RowKeys ==
    ASSUME TypeOK, NEW r \in Runs
    PROVE  /\ Total(r) \in Nat
           /\ \A i \in 1 .. Total(r) : IdempotencyKey(job[r].rows[i]) \in Keys
<1>1. job[r].rows \in Statements
  BY DEF TypeOK, Job
<1>2. Total(r) \in Nat /\ DOMAIN job[r].rows = 1 .. Total(r)
  BY <1>1, StatementsAssumption DEF Total
<1> QED BY <1>1, <1>2, RowType

\* What is in the ledger stays there: no more of the first n rows are lost.
LEMMA LostStays ==
    ASSUME TypeOK, NEW r \in Runs, UNCHANGED job,
           \A k \in Keys : stored[k] > 0 => stored'[k] > 0, stored' \in [Keys -> Nat]
    PROVE  /\ UNCHANGED Total(r)
           /\ \A n \in 0 .. Total(r) :
                 /\ Lost(r, n)' \subseteq Lost(r, n)
                 /\ Cardinality(Lost(r, n)) \in Nat /\ Cardinality(Lost(r, n)') \in Nat
                 /\ Cardinality(Lost(r, n)') <= Cardinality(Lost(r, n))
<1>1. UNCHANGED Total(r) /\ Total(r) \in Nat
  BY RowKeys DEF Total
<1>2. ASSUME NEW n \in 0 .. Total(r)
      PROVE  /\ Lost(r, n)' \subseteq Lost(r, n)
             /\ Cardinality(Lost(r, n)) \in Nat /\ Cardinality(Lost(r, n)') \in Nat
             /\ Cardinality(Lost(r, n)') <= Cardinality(Lost(r, n))
  <2>1. \A i \in 1 .. n : i \in 1 .. Total(r) /\ IdempotencyKey(job[r].rows[i]) \in Keys
    BY <1>1, RowKeys
  <2>2. Lost(r, n)' \subseteq Lost(r, n)
    BY <2>1 DEF Lost, TypeOK
  <2>3. IsFiniteSet(1 .. n) /\ Lost(r, n) \subseteq 1 .. n
    BY <1>1, FS_Interval DEF Lost
  <2> QED BY <2>2, <2>3, FS_Subset, FS_CardinalityType
<1> QED BY <1>1, <1>2

\* One more row: at most one more is lost, and none if it is stored.
LEMMA LostNext ==
    ASSUME TypeOK, NEW r \in Runs
    PROVE  /\ Lost(r, 0) = {} /\ Cardinality(Lost(r, 0)) = 0
           /\ \A n \in 1 .. Total(r) :
                 /\ Cardinality(Lost(r, n - 1)) \in Nat /\ Cardinality(Lost(r, n)) \in Nat
                 /\ Cardinality(Lost(r, n)) <= Cardinality(Lost(r, n - 1)) + 1
                 /\ stored[IdempotencyKey(job[r].rows[n])] > 0 => Lost(r, n) = Lost(r, n - 1)
<1>1. Total(r) \in Nat
  BY RowKeys
<1>2. Lost(r, 0) = {} /\ Cardinality(Lost(r, 0)) = 0
  BY FS_EmptySet DEF Lost
<1>3. ASSUME NEW n \in 1 .. Total(r)
      PROVE  /\ Cardinality(Lost(r, n - 1)) \in Nat /\ Cardinality(Lost(r, n)) \in Nat
             /\ Cardinality(Lost(r, n)) <= Cardinality(Lost(r, n - 1)) + 1
             /\ stored[IdempotencyKey(job[r].rows[n])] > 0 => Lost(r, n) = Lost(r, n - 1)
  <2>1. Lost(r, n) \in {Lost(r, n - 1), Lost(r, n - 1) \union {n}}
    <3>1. CASE stored[IdempotencyKey(job[r].rows[n])] = 0
      BY <1>1, <3>1 DEF Lost
    <3>2. CASE stored[IdempotencyKey(job[r].rows[n])] # 0
      BY <1>1, <3>2 DEF Lost
    <3> QED BY <3>1, <3>2
  <2>2. stored[IdempotencyKey(job[r].rows[n])] > 0 => Lost(r, n) = Lost(r, n - 1)
    BY <1>1 DEF Lost
  <2>3. IsFiniteSet(1 .. n - 1)
    BY <1>1, FS_Interval
  <2>4. IsFiniteSet(Lost(r, n - 1)) /\ Cardinality(Lost(r, n - 1)) \in Nat
    <3>1. Lost(r, n - 1) \subseteq 1 .. n - 1
      BY DEF Lost
    <3> QED BY <2>3, <3>1, FS_Subset, FS_CardinalityType
  <2>5. Cardinality(Lost(r, n - 1) \union {n}) \in
            {Cardinality(Lost(r, n - 1)), Cardinality(Lost(r, n - 1)) + 1}
    BY <2>4, FS_AddElement
  <2>6. \A c \in Nat : c \in Nat /\ c + 1 \in Nat /\ c <= c + 1 /\ c + 1 <= c + 1
    OBVIOUS
  <2>7. /\ Cardinality(Lost(r, n)) \in Nat
        /\ Cardinality(Lost(r, n)) <= Cardinality(Lost(r, n - 1)) + 1
    <3>1. CASE Lost(r, n) = Lost(r, n - 1)
      BY <2>4, <2>6, <3>1
    <3>2. CASE Lost(r, n) = Lost(r, n - 1) \union {n}
      BY <2>4, <2>5, <2>6, <3>2
    <3> QED BY <2>1, <3>1, <3>2
  <2> QED BY <2>2, <2>4, <2>7
<1> QED BY <1>2, <1>3

\* No row of the statement is lost exactly when the number of lost rows is zero.
LEMMA LostTotal ==
    ASSUME TypeOK, NEW r \in Runs
    PROVE  /\ Cardinality(Lost(r, Total(r))) \in Nat
           /\ Cardinality(Lost(r, Total(r))) = 0 => Lost(r, Total(r)) = {}
<1>1. IsFiniteSet(1 .. Total(r)) /\ Lost(r, Total(r)) \subseteq 1 .. Total(r)
  BY RowKeys, FS_Interval DEF Lost
<1>2. IsFiniteSet(Lost(r, Total(r)))
  BY <1>1, FS_Subset
<1> QED BY <1>2, FS_CardinalityType, FS_EmptySet

\* What is reported of an import that does not move still fits.
LEMMA ReportedStays ==
    ASSUME TypeOK, RowInRange, NEW q \in Runs, Reported(q),
           UNCHANGED <<job, pc[q], idx[q], res[q], runRow[q], cancelled[q]>>,
           \A k \in Keys : stored[k] > 0 => stored'[k] > 0, faults > 0 => faults' > 0, TypeOK'
    PROVE  Reported(q)'
<1>0. stored' \in [Keys -> Nat] /\ Total(q) \in 0 .. Total(q)
  BY RowKeys DEF TypeOK
<1>1. /\ UNCHANGED <<Total(q), Deferred(q)>>
      /\ \A n \in 0 .. Total(q) : LossCounted(q, n) => LossCounted(q, n)'
      /\ VerdictTold(q) => VerdictTold(q)'
  <2>1. /\ UNCHANGED <<Total(q), Deferred(q)>>
        /\ \A n \in 0 .. Total(q) :
              /\ Lost(q, n)' \subseteq Lost(q, n)
              /\ Cardinality(Lost(q, n)) \in Nat /\ Cardinality(Lost(q, n)') \in Nat
              /\ Cardinality(Lost(q, n)') <= Cardinality(Lost(q, n))
    BY <1>0, LostStays DEF Deferred
  <2>2. /\ res[q].failed \in Nat /\ UNCHANGED <<res[q], runRow[q], cancelled[q]>>
        /\ faults' = 0 => faults = 0
    BY DEF TypeOK, Counts
  <2>3. \A n \in 0 .. Total(q) : LossCounted(q, n) => LossCounted(q, n)'
    BY <2>1, <2>2 DEF LossCounted
  <2>4. VerdictTold(q) => VerdictTold(q)'
    <3>1. /\ Lost(q, Total(q))' \subseteq Lost(q, Total(q))
          /\ Cardinality(Lost(q, Total(q))) \in Nat /\ Cardinality(Lost(q, Total(q))') \in Nat
          /\ Cardinality(Lost(q, Total(q))') <= Cardinality(Lost(q, Total(q)))
      BY <1>0, <2>1
    <3> QED BY <2>2, <3>1 DEF VerdictTold
  <2> QED BY <2>1, <2>3, <2>4
<1>2. CountsFit(q)'
  BY <1>1 DEF Reported, CountsFit
<1>3. RowsStored(q)'
  <2>1. Total(q) \in Nat /\ (pc[q] \in RowSteps => idx[q] \in 1 .. Total(q))
    BY RowKeys DEF RowInRange
  <2> QED BY <1>1, <2>1 DEF Reported, RowsStored, RowSteps
<1>4. VerdictFits(q)'
  BY <1>1 DEF Reported, VerdictFits
<1>5. ClosedBySomebody(q)'
  BY DEF Reported, ClosedBySomebody
<1> QED BY <1>2, <1>3, <1>4, <1>5 DEF Reported

-----------------------------------------------------------------------------
\* Every row an import leaves behind has been counted once.
LEMMA CountsStep ==
    ASSUME IInv, NEW r \in Runs, Step(r)
    PROVE  CountsFit(r)'
<1>a. CountsFit(r) /\ UNCHANGED Total(r) /\ Total(r) \in Nat
  BY StepFrame, RowKeys DEF IInv, Reported, Total
<1>b. /\ pc \in [Runs -> PC] /\ idx \in [Runs -> Nat \ {0}]
      /\ pc[r] \in {"idle", "create"} => idx[r] = 1
      /\ pc[r] \in RowSteps => idx[r] \in 1 .. Total(r)
      /\ res[r].inserted \in Nat /\ res[r].duplicate \in Nat /\ res[r].failed \in Nat
  BY DEF IInv, TypeOK, RowInRange, Counts
<1>c. \A f \in {"inserted", "duplicate", "failed"} : Count(r, f) =>
          res'[r].inserted + res'[r].duplicate + res'[r].failed =
              res[r].inserted + res[r].duplicate + res[r].failed + 1
  BY <1>b, Counted DEF IInv
<1> USE <1>a, <1>b, <1>c DEF CountsFit, Goto, NextRow, Continue, ContinueBg, dbVars,
                             RowSteps, PastRows
<1>1. CASE CreateRun(r)
  BY <1>1 DEF CreateRun
<1>2. CASE CheckKey(r)
  BY <1>2 DEF CheckKey
<1>3. CASE LookupKey(r)
  BY <1>3 DEF LookupKey
<1>4. CASE TagRow(r)
  BY <1>4 DEF TagRow
<1>5. CASE InsertTransaction(r)
  BY <1>5 DEF InsertTransaction
<1>6. CASE InsertEnrichment(r)
  BY <1>6 DEF InsertEnrichment
<1>7. CASE UpdateCounts(r)
  BY <1>7 DEF UpdateCounts
<1>8. CASE FinishRun(r)
  BY <1>8 DEF FinishRun
<1>9. CASE UpdateBalance(r)
  BY <1>9 DEF UpdateBalance
<1>10. CASE LoadCategories(r)
  BY <1>10 DEF LoadCategories
<1>11. CASE MarkEnriching(r)
  BY <1>11 DEF MarkEnriching
<1>12. CASE BgLookup(r)
  BY <1>12 DEF BgLookup
<1>13. CASE BgTagRow(r)
  BY <1>13 DEF BgTagRow
<1>14. CASE BgFinish(r)
  BY <1>14 DEF BgFinish
<1> QED BY <1>1, <1>2, <1>3, <1>4, <1>5, <1>6, <1>7, <1>8, <1>9, <1>10, <1>11, <1>12,
    <1>13, <1>14 DEF Step

\* A row an import leaves behind is stored or counted as failed, and the latter only
\* for one that another import has stored or a statement that failed.
LEMMA RowsStep ==
    ASSUME IInv, NEW r \in Runs, Step(r)
    PROVE  RowsStored(r)'
<1> DEFINE Was(n) == Cardinality(Lost(r, n))
           LostIs(n) == {i \in 1 .. n : stored'[IdempotencyKey(job'[r].rows[i])] = 0}
           Is(n) == Cardinality(LostIs(n))
           NoneWas(n) == Lost(r, n) = {}
           NoneIs(n) == LostIs(n) = {}
           Stored(n) == stored'[IdempotencyKey(job[r].rows[n])] > 0
<1>a. UNCHANGED <<job, Total(r)>> /\ Total(r) \in Nat
  BY StepFrame, RowKeys DEF IInv, Total
<1>b. /\ pc \in [Runs -> PC] /\ idx \in [Runs -> Nat \ {0}]
      /\ cancelled \in [Runs -> BOOLEAN] /\ faults \in Nat
      /\ res[r].failed \in Nat
      /\ pc[r] \in {"idle", "create"} => idx[r] = 1
      /\ pc[r] \in RowSteps => idx[r] \in 1 .. Total(r)
  BY DEF IInv, TypeOK, RowInRange, Counts
<1>c. \A f \in {"inserted", "duplicate", "failed"} : Count(r, f) =>
          res'[r].failed = IF f = "failed" THEN res[r].failed + 1 ELSE res[r].failed
  BY Counted DEF IInv
<1>d. /\ pc[r] \in {"check", "insert", "blank"} => LossCounted(r, idx[r] - 1)
      /\ pc[r] \in {"lookup", "tag"} => LossCounted(r, idx[r])
      /\ pc[r] \in PastRows => LossCounted(r, Total(r))
  BY DEF IInv, Reported, RowsStored
<1>e. \A n \in 0 .. Total(r) :
          /\ Was(n) \in Nat /\ Is(n) \in Nat /\ Is(n) <= Was(n)
          /\ NoneWas(n) => NoneIs(n)
  <2>1. /\ TypeOK /\ UNCHANGED job /\ stored' \in [Keys -> Nat]
        /\ \A k \in Keys : stored[k] > 0 => stored'[k] > 0
    BY StepFrame DEF IInv, TypeOK
  <2>2. \A n \in 0 .. Total(r) : Lost(r, n)' = LostIs(n)
    BY DEF Lost
  <2> QED BY <2>1, <2>2, LostStays
<1>f. /\ Is(0) = 0 /\ NoneIs(0)
      /\ \A n \in 1 .. Total(r) :
            /\ Is(n) <= Is(n - 1) + 1
            /\ Stored(n) => Is(n) = Is(n - 1)
            /\ Stored(n) /\ NoneIs(n - 1) => NoneIs(n)
  <2>1. (/\ Lost(r, 0) = {} /\ Cardinality(Lost(r, 0)) = 0
         /\ \A n \in 1 .. Total(r) :
               /\ Cardinality(Lost(r, n - 1)) \in Nat /\ Cardinality(Lost(r, n)) \in Nat
               /\ Cardinality(Lost(r, n)) <= Cardinality(Lost(r, n - 1)) + 1
               /\ stored[IdempotencyKey(job[r].rows[n])] > 0 => Lost(r, n) = Lost(r, n - 1))'
    <3>1. TypeOK'
      BY StepFrame DEF IInv
    <3> QED BY <3>1, LostNext, PTL
  <2>2. \A n : Lost(r, n)' = LostIs(n)
    BY DEF Lost
  <2> QED BY <1>a, <2>1, <2>2
<1>g. pc[r] \in RowSteps /\ stored[Key(r)] > 0 => Stored(idx[r])
  BY <1>b, StepFrame, RowKeys DEF IInv, Key
<1>h. pc[r] = "blank" => stored[Key(r)] > 0
  BY DEF IInv, RecordedOnce
<1>i. pc[r] \in RowSteps =>
          idx[r] \in 1 .. Total(r) /\ idx[r] - 1 \in 0 .. Total(r) /\ idx[r] \in 0 .. Total(r)
  BY <1>a, <1>b
<1>o. \A n : LossCounted(r, n) <=>
                 Was(n) <= res[r].failed /\ (faults = 0 /\ ~cancelled[r] => NoneWas(n))
  BY DEF LossCounted
<1> HIDE DEF Was, Is, Stored, NoneWas, LostIs, NoneIs
<1> DEFINE Fits(n) == Is(n) <= res'[r].failed /\ (faults' = 0 /\ ~cancelled'[r] => NoneIs(n))
\* The row the import is at: skipped as failed, or known to be stored.
<1>j. \A n \in 0 .. Total(r) : 
          LossCounted(r, n) /\ res'[r] = res[r] /\ cancelled'[r] = cancelled[r]
          /\ (faults' = 0 => faults = 0) => Fits(n)
  BY <1>b, <1>e, <1>o
<1>k. \A n \in 1 .. Total(r) :
          LossCounted(r, n - 1) /\ cancelled'[r] = cancelled[r] /\ (faults' = 0 => faults = 0)
          /\ Stored(n) /\ res'[r].failed \in {res[r].failed, res[r].failed + 1} => Fits(n)
  <2> TAKE n \in 1 .. Total(r)
  <2>1. n - 1 \in 0 .. Total(r) /\ n \in 0 .. Total(r)
    BY <1>a
  <2> QED BY <1>b, <1>e, <1>f, <1>o, <2>1
<1>l. \A n \in 1 .. Total(r) :
          LossCounted(r, n - 1) /\ cancelled'[r] = cancelled[r]
          /\ res'[r].failed = res[r].failed + 1 /\ (cancelled[r] \/ faults' # 0) => Fits(n)
  <2> TAKE n \in 1 .. Total(r)
  <2>1. n - 1 \in 0 .. Total(r) /\ n \in 0 .. Total(r)
    BY <1>a
  <2> QED BY <1>b, <1>e, <1>f, <1>o, <2>1
<1>m. Fits(0)
  BY <1>f, StepFrame DEF IInv, TypeOK, Counts
<1>n. /\ Succeeds(r) => UNCHANGED faults /\ ~cancelled[r]
      /\ Fails(r) \/ ReplyLost(r) => (cancelled[r] /\ UNCHANGED faults) \/ faults' # 0
  BY <1>b DEF Succeeds, Fails, ReplyLost
<1> SUFFICES /\ pc'[r] \in {"check", "insert", "blank"} => Fits(idx'[r] - 1)
             /\ pc'[r] \in {"lookup", "tag"} => Fits(idx'[r])
             /\ pc'[r] \in PastRows => Fits(Total(r))
  BY <1>a DEF RowsStored, LossCounted, Lost, Is, LostIs, NoneIs
<1> HIDE DEF Fits
<1> USE <1>a, <1>b, <1>c, <1>d, <1>g, <1>h, <1>i, <1>j, <1>k, <1>l, <1>m, <1>n
    DEF Goto, NextRow, Continue, ContinueBg, dbVars, RowSteps, PastRows
<1>1. CASE CreateRun(r)
  BY <1>1 DEF CreateRun
<1>2. CASE CheckKey(r)
  BY <1>2 DEF CheckKey
<1>3. CASE LookupKey(r)
  BY <1>3 DEF LookupKey
<1>4. CASE TagRow(r)
  BY <1>4 DEF TagRow
<1>5. CASE InsertTransaction(r)
  <2>1. CASE Goto(r, "blank") /\ UNCHANGED res /\ Succeeds(r)
    BY <1>5, <2>1 DEF InsertTransaction
  <2>2. CASE Succeeds(r) /\ ~Unique(Key(r)) /\ Count(r, "failed") /\ Continue(r)
    <3>1. Stored(idx[r])
      BY <1>5, <2>2, RowKeys DEF InsertTransaction, Unique, IInv, TypeOK, Key
    <3> QED BY <1>5, <2>2, <3>1 DEF InsertTransaction
  <2>3. CASE (Fails(r) \/ ReplyLost(r)) /\ Count(r, "failed") /\ Continue(r)
    BY <1>5, <2>3 DEF InsertTransaction
  <2> QED BY <1>5, <2>1, <2>2, <2>3 DEF InsertTransaction
<1>6. CASE InsertEnrichment(r)
  BY <1>6 DEF InsertEnrichment
<1>7. CASE UpdateCounts(r)
  BY <1>7 DEF UpdateCounts
<1>8. CASE FinishRun(r)
  BY <1>8 DEF FinishRun
<1>9. CASE UpdateBalance(r)
  BY <1>9 DEF UpdateBalance
<1>10. CASE LoadCategories(r)
  BY <1>10 DEF LoadCategories
<1>11. CASE MarkEnriching(r)
  BY <1>11 DEF MarkEnriching
<1>12. CASE BgLookup(r)
  BY <1>12 DEF BgLookup
<1>13. CASE BgTagRow(r)
  BY <1>13 DEF BgTagRow
<1>14. CASE BgFinish(r)
  BY <1>14 DEF BgFinish
<1> QED BY <1>1, <1>2, <1>3, <1>4, <1>5, <1>6, <1>7, <1>8, <1>9, <1>10, <1>11, <1>12,
    <1>13, <1>14 DEF Step

-----------------------------------------------------------------------------
\* What the updates of a row of import_runs leave in it.
LEMMA RowWritten ==
    ASSUME TypeOK, NEW r \in Runs, NEW v
    PROVE  /\ runRow' = [runRow EXCEPT ![r].status = v] =>
                  runRow'[r].status = v /\ UNCHANGED runRow[r].finished
           /\ runRow' = Finished(r, v) => runRow'[r].status = v /\ runRow'[r].finished
           /\ runRow' = [runRow EXCEPT ![r].parsed = Total(r), ![r].counts = res[r]] =>
                  UNCHANGED <<runRow[r].status, runRow[r].finished>>
<1>1. runRow \in [Runs -> RunRow] /\ runRow[r] \in RunRow
  BY DEF TypeOK
<1> QED BY <1>1 DEF Finished, RunRow

\* A verdict is given on the counts, and stands until EnrichRows gives its own.
LEMMA VerdictStep ==
    ASSUME IInv, NEW r \in Runs, Step(r)
    PROVE  VerdictFits(r)'
<1> DEFINE Was == VerdictTold(r)
           Is == VerdictTold(r)'
<1>a. /\ UNCHANGED <<Total(r), Deferred(r)>> 
      /\ res'[r] = res[r] /\ runRow'[r] = runRow[r] /\ Was => Is
  <2>1. /\ TypeOK /\ TypeOK' /\ UNCHANGED job
        /\ (faults > 0 => faults' > 0)
        /\ \A k \in Keys : stored[k] > 0 => stored'[k] > 0
    BY StepFrame DEF IInv
  <2>2. UNCHANGED <<Total(r), Deferred(r)>> /\ Total(r) \in 0 .. Total(r)
    BY <2>1, RowKeys DEF Total, Deferred
  <2>3. /\ Lost(r, Total(r))' \subseteq Lost(r, Total(r))
        /\ Cardinality(Lost(r, Total(r))) \in Nat /\ Cardinality(Lost(r, Total(r))') \in Nat
        /\ Cardinality(Lost(r, Total(r))') <= Cardinality(Lost(r, Total(r)))
    BY <2>1, <2>2, LostStays DEF TypeOK
  <2> QED BY <2>1, <2>2, <2>3 DEF VerdictTold, TypeOK, Counts
<1>b. /\ pc \in [Runs -> PC] /\ res[r].failed \in Nat
      /\ pc[r] = "finish" => LossCounted(r, Total(r))
  BY DEF IInv, TypeOK, Counts, Reported, RowsStored, PastRows
<1>c. /\ runRow[r].status \in Verdicts \union {"enriching"} =>
             pc[r] \in {"balance", "categories", "enriching"} \union Background \union Ended
      /\ pc[r] \in {"categories", "enriching"} \union Background => Deferred(r)
      /\ runRow[r].status \in Verdicts /\ ~(Deferred(r) /\ pc[r] \in Ended) => Was
  BY DEF IInv, Reported, VerdictFits
<1> SUFFICES
      /\ runRow'[r].status \in Verdicts \union {"enriching"} =>
             pc'[r] \in {"balance", "categories", "enriching"} \union Background \union Ended
      /\ pc'[r] \in {"categories", "enriching"} \union Background => Deferred(r)
      /\ runRow'[r].status \in Verdicts /\ ~(Deferred(r) /\ pc'[r] \in Ended) => Is
  BY <1>a DEF VerdictFits
<1> HIDE DEF Was, Is
<1> USE <1>a, <1>b, <1>c
    DEF Goto, NextRow, Continue, ContinueBg, dbVars, Verdicts, Background, Ended
<1>1. CASE CreateRun(r)
  <2>1. \/ UNCHANGED runRow[r]
        \/ runRow'[r].status = "running" /\ UNCHANGED runRow[r].finished
    BY <1>1, RowWritten DEF IInv, CreateRun
  <2> QED BY <1>1, <2>1 DEF CreateRun
<1>2. CASE CheckKey(r)
  BY <1>2 DEF CheckKey
<1>3. CASE LookupKey(r)
  BY <1>3 DEF LookupKey
<1>4. CASE TagRow(r)
  BY <1>4 DEF TagRow
<1>5. CASE InsertTransaction(r)
  BY <1>5 DEF InsertTransaction
<1>6. CASE InsertEnrichment(r)
  BY <1>6 DEF InsertEnrichment
<1>7. CASE UpdateCounts(r)
  <2>1. \/ UNCHANGED runRow[r]
        \/ UNCHANGED <<runRow[r].status, runRow[r].finished>>
    BY <1>7, RowWritten DEF IInv, UpdateCounts
  <2> QED BY <1>7, <2>1 DEF UpdateCounts
<1>8. CASE FinishRun(r)
  <2>1. \/ UNCHANGED runRow[r] /\ Fails(r)
        \/ runRow'[r].status = Verdict(res[r].failed, res[r].inserted = 0) /\ runRow'[r].finished
    BY <1>8 DEF IInv, TypeOK, RunRow, Finished, FinishRun
  <2>2. ASSUME Lost(r, Total(r)) # {} PROVE faults > 0 \/ cancelled[r]
    BY <2>2, <1>8 DEF IInv, TypeOK, FinishRun, LossCounted
  <2>3. UNCHANGED <<res, stored, job>> /\ (Succeeds(r) \/ Fails(r) \/ ReplyLost(r))
    BY <1>8 DEF FinishRun
  <2>4. UNCHANGED Lost(r, Total(r))
    BY <1>a, <2>3 DEF Lost
  <2>5. (Fails(r) /\ UNCHANGED runRow) \/ ~cancelled[r]
    BY <1>8 DEF FinishRun, Succeeds, ReplyLost
  <2>6. faults > 0 => faults' > 0
    BY StepFrame DEF IInv
  <2>7. ~cancelled[r] /\ runRow'[r].status = Verdict(res[r].failed, res[r].inserted = 0) => Is
    <3>1. Cardinality(Lost(r, Total(r))) \in Nat /\ Cardinality(Lost(r, Total(r))) <= res[r].failed
      BY <1>8, <1>b, LostTotal DEF FinishRun, LossCounted, IInv
    <3>2. res[r].failed = 0 => Lost(r, Total(r)) = {}
      BY <1>b, <3>1, LostTotal DEF IInv
    <3> QED BY <1>a, <1>b, <2>2, <2>3, <2>4, <2>6, <3>1, <3>2 DEF Is, VerdictTold, Verdict
  <2> QED BY <1>8, <2>1, <2>5, <2>7 DEF FinishRun
<1>9. CASE UpdateBalance(r)
  BY <1>9 DEF UpdateBalance
<1>10. CASE LoadCategories(r)
  BY <1>10 DEF LoadCategories
<1>11. CASE MarkEnriching(r)
  <2>1. \/ UNCHANGED runRow[r]
        \/ runRow'[r].status = "enriching" /\ UNCHANGED runRow[r].finished
    BY <1>11, RowWritten DEF IInv, MarkEnriching
  <2> QED BY <1>11, <2>1 DEF MarkEnriching
<1>12. CASE BgLookup(r)
  BY <1>12 DEF BgLookup
<1>13. CASE BgTagRow(r)
  BY <1>13 DEF BgTagRow
<1>14. CASE BgFinish(r)
  <2>1. \/ UNCHANGED runRow[r] /\ Fails(r)
        \/ runRow'[r].status = Verdict(enrichFailed[r], enrichFailed[r] = Total(r)) /\ runRow'[r].finished
    BY <1>14 DEF IInv, TypeOK, RunRow, Finished, BgFinish
  <2> QED BY <1>14, <2>1 DEF BgFinish, Verdict
<1> QED BY <1>1, <1>2, <1>3, <1>4, <1>5, <1>6, <1>7, <1>8, <1>9, <1>10, <1>11, <1>12,
    <1>13, <1>14 DEF Step

\* An import that ends leaves its row closed, or there is a failure that explains it.
LEMMA ClosedStep ==
    ASSUME IInv, NEW r \in Runs, Step(r)
    PROVE  ClosedBySomebody(r)'
<1>a. pc \in [Runs -> PC] /\ cancelled \in [Runs -> BOOLEAN] /\ faults \in Nat
  BY DEF IInv, TypeOK
<1>b. ClosedBySomebody(r) /\ (pc[r] \in {"categories", "enriching"} \union Background => Deferred(r))
  BY DEF IInv, Reported, VerdictFits
<1> USE <1>a, <1>b
    DEF ClosedBySomebody, Goto, NextRow, Continue, ContinueBg, dbVars, Verdicts, Background,
        Succeeds, Fails, ReplyLost
<1>1. CASE CreateRun(r)
  <2>1. \/ UNCHANGED runRow[r]
        \/ runRow'[r].status = "running" /\ UNCHANGED runRow[r].finished
    BY <1>1, RowWritten DEF IInv, CreateRun
  <2> QED BY <1>1, <2>1 DEF CreateRun
<1>2. CASE CheckKey(r)
  BY <1>2 DEF CheckKey
<1>3. CASE LookupKey(r)
  BY <1>3 DEF LookupKey
<1>4. CASE TagRow(r)
  BY <1>4 DEF TagRow
<1>5. CASE InsertTransaction(r)
  BY <1>5 DEF InsertTransaction
<1>6. CASE InsertEnrichment(r)
  BY <1>6 DEF InsertEnrichment
<1>7. CASE UpdateCounts(r)
  <2>1. \/ UNCHANGED runRow[r]
        \/ UNCHANGED <<runRow[r].status, runRow[r].finished>>
    BY <1>7, RowWritten DEF IInv, UpdateCounts
  <2> QED BY <1>7, <2>1 DEF UpdateCounts
<1>8. CASE FinishRun(r)
  <2>1. \/ UNCHANGED runRow[r] /\ Fails(r)
        \/ runRow'[r].status = Verdict(res[r].failed, res[r].inserted = 0) /\ runRow'[r].finished
    BY <1>8 DEF IInv, TypeOK, RunRow, Finished, FinishRun
  <2> QED BY <1>8, <2>1 DEF FinishRun, Verdict
<1>9. CASE UpdateBalance(r)
  BY <1>9 DEF UpdateBalance
<1>10. CASE LoadCategories(r)
  BY <1>10 DEF LoadCategories
<1>11. CASE MarkEnriching(r)
  <2>1. \/ UNCHANGED runRow[r]
        \/ runRow'[r].status = "enriching" /\ UNCHANGED runRow[r].finished
    BY <1>11, RowWritten DEF IInv, MarkEnriching
  <2> QED BY <1>11, <2>1 DEF MarkEnriching
<1>12. CASE BgLookup(r)
  BY <1>12 DEF BgLookup
<1>13. CASE BgTagRow(r)
  BY <1>13 DEF BgTagRow
<1>14. CASE BgFinish(r)
  <2>1. \/ UNCHANGED runRow[r] /\ Fails(r)
        \/ runRow'[r].status = Verdict(enrichFailed[r], enrichFailed[r] = Total(r)) /\ runRow'[r].finished
    BY <1>14 DEF IInv, TypeOK, RunRow, Finished, BgFinish
  <2> QED BY <1>14, <2>1 DEF BgFinish, Verdict
<1> QED BY <1>1, <1>2, <1>3, <1>4, <1>5, <1>6, <1>7, <1>8, <1>9, <1>10, <1>11, <1>12,
    <1>13, <1>14 DEF Step

-----------------------------------------------------------------------------
\* Requests, cancellations, crashes and corrections change no report.
LEMMA EnvironmentReported ==
    ASSUME IInv,
           \/ \E r \in Runs : Submit(r) \/ Cancel(r) \/ CrashCommand(r)
           \/ CrashServer
           \/ \E k \in Keys : PatchEnrichment(k)
           \/ UNCHANGED vars
    PROVE  \A q \in Runs : Reported(q)'
<1> SUFFICES ASSUME NEW q \in Runs PROVE Reported(q)'
  OBVIOUS
<1>0. TypeOK /\ RowInRange /\ Reported(q)
  BY DEF IInv
<1>1. CASE /\ UNCHANGED <<job, pc[q], idx[q], res[q], runRow[q], cancelled[q], stored>>
           /\ faults > 0 => faults' > 0
  BY <1>0, <1>1, EnvironmentType, ReportedStays
<1>2. CASE /\ UNCHANGED <<job, idx, res, runRow, stored, faults>>
           /\ \/ pc[q] = "idle" /\ pc'[q] = "create" /\ UNCHANGED cancelled[q]
              \/ UNCHANGED pc[q] /\ cancelled'[q] = TRUE
              \/ pc[q] \in Foreground \union Background /\ pc'[q] = "dead" /\ UNCHANGED cancelled[q]
  <2>1. /\ UNCHANGED <<Total(q), Deferred(q)>>
        /\ \A n : UNCHANGED Lost(q, n)
        /\ UNCHANGED <<res[q], runRow[q], faults>>
        /\ cancelled'[q] = TRUE \/ UNCHANGED cancelled[q]
    BY <1>0, <1>2 DEF Deferred, Total, Lost
  <2>2. CountsFit(q)'
    BY <1>0, <1>2, <2>1 DEF Reported, CountsFit, PastRows
  <2>3. RowsStored(q)'
    <3>1. \A n : LossCounted(q, n) => LossCounted(q, n)'
      BY <2>1 DEF LossCounted
    <3>2. LossCounted(q, 0)'
      BY <1>0, <2>1, LostNext DEF LossCounted, TypeOK, Counts
    <3> QED BY <1>0, <1>2, <2>1, <3>1, <3>2
        DEF Reported, RowsStored, RowInRange, RowSteps, PastRows
  <2>4. VerdictFits(q)'
    <3>1. VerdictTold(q) => VerdictTold(q)'
      BY <2>1 DEF VerdictTold
    <3> QED BY <1>0, <1>2, <2>1, <3>1
    DEF Reported, VerdictFits, Verdicts, Foreground, RowSteps, Background, Ended
  <2>5. ClosedBySomebody(q)'
    BY <1>0, <1>2 DEF Reported, ClosedBySomebody, Background
  <2> QED BY <2>2, <2>3, <2>4, <2>5 DEF Reported
<1>3. ASSUME NEW r \in Runs, Submit(r) PROVE Reported(q)'
  BY <1>0, <1>1, <1>2, <1>3 DEF Submit, TypeOK, Goto, dbVars
<1>4. ASSUME NEW r \in Runs, Cancel(r) PROVE Reported(q)'
  BY <1>0, <1>1, <1>2, <1>4 DEF Cancel, TypeOK, dbVars
<1>5. ASSUME NEW victims, Crash(victims) PROVE Reported(q)'
  BY <1>0, <1>1, <1>2, <1>5 DEF Crash, TypeOK, dbVars
<1>6. ASSUME NEW k \in Keys, PatchEnrichment(k) PROVE Reported(q)'
  BY <1>1, <1>6 DEF PatchEnrichment, procVars
<1>7. CASE UNCHANGED vars
  BY <1>1, <1>7 DEF vars, procVars, dbVars
<1> QED BY <1>3, <1>4, <1>5, <1>6, <1>7 DEF CrashServer, CrashCommand

\* Nothing is reported at first.
LEMMA ReportsInit == Init => IInv
<1> SUFFICES ASSUME Init PROVE \A r \in Runs : Reported(r)
  BY InitInvariant DEF IInv
<1>1. \A r \in Runs : /\ pc[r] = "idle" /\ runRow[r].status = "none"
                     /\ res[r].inserted = 0 /\ res[r].duplicate = 0 /\ res[r].failed = 0
  BY DEF Init, NoCounts
<1> QED
  BY <1>1
  DEF Reported, CountsFit, RowsStored, VerdictFits, ClosedBySomebody, PastRows, Verdicts,
      Background, Ended

\* One step of the system.
LEMMA ReportsNext == IInv /\ [Next]_vars => IInv'
<1> SUFFICES ASSUME IInv, [Next]_vars PROVE IInv'
  OBVIOUS
<1>1. (TypeOK /\ RowInRange /\ RecordedOnce)'
  BY StepRefines DEF IInv
<1>2. ASSUME NEW r \in Runs, Step(r) PROVE \A q \in Runs : Reported(q)'
  <2>1. Reported(r)'
    BY <1>2, CountsStep, RowsStep, VerdictStep, ClosedStep DEF Reported
  <2>2. ASSUME NEW q \in Runs \ {r} PROVE Reported(q)'
    <3>1. TypeOK /\ RowInRange /\ Reported(q)
      BY DEF IInv
    <3> QED BY <1>2, <3>1, StepFrame, ReportedStays DEF IInv
  <2> QED BY <2>1, <2>2
<1>3. \A q \in Runs : Reported(q)'
  BY <1>2, EnvironmentReported DEF Next, Settled
<1> QED BY <1>1, <1>3 DEF IInv

LEMMA ReportsInvariant == Spec => []IInv
BY ReportsInit, ReportsNext, PTL DEF Spec

\* Whatever fails and whoever interferes, each row an import has dealt with is in
\* exactly one of its three counts, and its counts add up to Parsed.
THEOREM RowsAccountedAlways == Spec => []RowsAccounted
<1>1. (Foreground \ RowSteps) \ {"create"} = PastRows
  BY DEF Foreground, RowSteps, PastRows
<1>2. IInv => RowsAccounted
  BY <1>1 DEF IInv, Reported, CountsFit, RowsAccounted
<1> QED BY <1>2, ReportsInvariant, PTL

\* What the verdict of an import tells about the ledger: "success" that every row of
\* the statement is there, any verdict that no more rows are missing than it counts as
\* Failed, and that a row is missing only if some statement failed.
THEOREM VerdictSoundAlways == Spec => []VerdictSound
<1>1. ASSUME IInv, NEW r \in Runs PROVE Missing(r) = Lost(r, Total(r))
  <2>1. DOMAIN job[r].rows = 1 .. Total(r) /\ job[r].rows \in Statements
    BY <1>1, StatementsAssumption DEF IInv, TypeOK, Job, Total
  <2>2. \A i \in 1 .. Total(r) : stored[IdempotencyKey(job[r].rows[i])] \in Nat
    BY <1>1, RowKeys DEF IInv, TypeOK
  <2> QED BY <2>1, <2>2 DEF Missing, Lost
<1>2. IInv => VerdictSound
  BY <1>1 DEF IInv, Reported, VerdictFits, VerdictTold, Verdicts, VerdictSound
<1> QED BY <1>2, ReportsInvariant, PTL

\* A row that says "running" or "enriching" is being worked on unless a failure, a
\* cancellation or a crash explains it.
THEOREM OpenRunAliveAlways == Spec => []OpenRunAlive
<1>1. ASSUME IInv, NEW r \in Runs
      PROVE  /\ runRow[r].status \in {"running", "enriching"} =>
                    pc[r] \in Foreground \union Background \union {"dead"}
                    \/ cancelled[r] \/ faults > 0
             /\ pc[r] \in Background => runRow[r].finished \/ faults > 0
  <2>1. pc[r] \in {"idle", "done", "dead"} \union Foreground \union Background
    BY <1>1 DEF IInv, TypeOK, PC, Ended
  <2> QED BY <1>1, <2>1 DEF IInv, Reported, ClosedBySomebody
<1>2. IInv => OpenRunAlive
  BY <1>1 DEF OpenRunAlive
<1> QED BY <1>2, ReportsInvariant, PTL

-----------------------------------------------------------------------------
(* Orphans and the failures that explain them *)

\* The imports that have begun, and those that a cancellation or a crash has stopped;
\* at "enriching" an import has dealt with its rows, and its context is replaced.
Begun == {r \in Runs : pc[r] # "idle"}
Stopped == {r \in Begun : (cancelled[r] \/ pc[r] = "dead") /\ pc[r] # "enriching"}

\* The transactions without enrichment row that no working import is about to add.
Exposed == {k \in Keys :
    /\ stored[k] > 0 /\ tag[k] = "none"
    /\ \A r \in Runs : ~(pc[r] = "blank" /\ ~cancelled[r] /\ Key(r) = k)}

Explained ==
    /\ IsFiniteSet(Begun) /\ IsFiniteSet(Exposed)
    /\ Cardinality(Exposed) <= faults + Cardinality(Stopped)
    /\ \A r \in Runs : pc[r] = "idle" => ~cancelled[r]

OInv == IInv /\ Explained

\* E grows by at most X, B by at least Y, and Y and the new failures pay for X.
LEMMA Budget ==
    ASSUME NEW E, IsFiniteSet(E), NEW X, IsFiniteSet(X), NEW E2 \in SUBSET (E \union X),
           NEW B2, IsFiniteSet(B2), NEW B \in SUBSET B2, NEW Y \in SUBSET (B2 \ B),
           NEW n \in Nat, NEW n2 \in Nat,
           Cardinality(E) <= n + Cardinality(B), n + Cardinality(X) <= n2 + Cardinality(Y)
    PROVE  IsFiniteSet(E2) /\ Cardinality(E2) <= n2 + Cardinality(B2)
<1>1. /\ IsFiniteSet(E \union X)
      /\ Cardinality(E \union X) = Cardinality(E) + Cardinality(X) - Cardinality(E \cap X)
  BY FS_Union
<1>2. /\ IsFiniteSet(E \cap X) /\ IsFiniteSet(B) /\ IsFiniteSet(Y) /\ IsFiniteSet(B \union Y)
      /\ Cardinality(B \union Y) <= Cardinality(B2)
  <2>1. IsFiniteSet(B) /\ IsFiniteSet(Y)
    <3>1. Y \in SUBSET B2
      OBVIOUS
    <3> QED BY <3>1, FS_Subset
  <2>2. B \union Y \in SUBSET B2
    OBVIOUS
  <2> QED BY <2>1, <2>2, FS_Subset, FS_Intersection
<1>3. Cardinality(B \union Y) = Cardinality(B) + Cardinality(Y)
  <2>1. B \cap Y = {}
    OBVIOUS
  <2>2. Cardinality(B \union Y) = Cardinality(B) + Cardinality(Y) - Cardinality(B \cap Y)
    BY <1>2, FS_Union
  <2>3. Cardinality(B) \in Nat /\ Cardinality(Y) \in Nat
    BY <1>2, FS_CardinalityType
  <2>4. Cardinality(B \cap Y) = 0
    BY <2>1, FS_EmptySet
  <2> QED BY <2>2, <2>3, <2>4
<1>4. IsFiniteSet(E2) /\ Cardinality(E2) <= Cardinality(E \union X)
  BY <1>1, FS_Subset
<1>5. /\ Cardinality(E) \in Nat /\ Cardinality(X) \in Nat /\ Cardinality(E \cap X) \in Nat
      /\ Cardinality(E2) \in Nat /\ Cardinality(B) \in Nat /\ Cardinality(B2) \in Nat
      /\ Cardinality(Y) \in Nat
  BY <1>2, <1>4, FS_CardinalityType
<1> QED BY <1>1, <1>2, <1>3, <1>4, <1>5

\* One step of an import makes a failure of its own, or none.
LEMMA FaultStep ==
    ASSUME TypeOK, NEW r \in Runs, Step(r)
    PROVE  faults' = faults \/ faults' = faults + 1
BY DEF Step, TypeOK, dbVars, Succeeds, Fails, ReplyLost,
     CreateRun, CheckKey, LookupKey, TagRow, InsertTransaction, InsertEnrichment,
     UpdateCounts, FinishRun, UpdateBalance, LoadCategories, MarkEnriching, BgLookup,
     BgTagRow, BgFinish

\* An import that was stopped stays so.
LEMMA StoppedStay ==
    ASSUME IInv, NEW r \in Runs, Step(r)
    PROVE  Begun' = Begun /\ Stopped \subseteq Stopped'
<1>1. pc \in [Runs -> PC] /\ cancelled \in [Runs -> BOOLEAN]
  BY DEF IInv, TypeOK
<1>2. /\ pc[r] # "idle" /\ pc'[r] # "idle" /\ pc[r] # "dead"
      /\ cancelled[r] /\ pc[r] # "enriching" => cancelled'[r] /\ pc'[r] # "enriching"
  BY <1>1 DEF Step, dbVars, Succeeds, Fails, ReplyLost, Goto, NextRow, Continue, ContinueBg,
     CreateRun, CheckKey, LookupKey, TagRow, InsertTransaction, InsertEnrichment,
     UpdateCounts, FinishRun, UpdateBalance, LoadCategories, MarkEnriching, BgLookup,
     BgTagRow, BgFinish
<1>3. \A q \in Runs \ {r} : UNCHANGED <<pc[q], cancelled[q]>>
  BY StepFrame DEF IInv
<1>4. Begun' = Begun
  BY <1>2, <1>3 DEF Begun
<1>5. ASSUME NEW q \in Stopped PROVE q \in Stopped'
  <2>1. q \in Runs /\ q \in Begun'
    BY <1>4 DEF Stopped, Begun
  <2> QED BY <1>2, <1>3, <2>1 DEF Stopped
<1> QED BY <1>4, <1>5

\* The enrichment rows that there are stay.
LEMMA TagStays ==
    ASSUME TypeOK, NEW r \in Runs, Step(r), NEW k \in Keys, tag[k] # "none"
    PROVE  tag'[k] # "none"
BY DEF TypeOK, Step, dbVars, Tagged, Blank, CreateRun, CheckKey, LookupKey, TagRow,
       InsertTransaction, InsertEnrichment, UpdateCounts, FinishRun, UpdateBalance,
       LoadCategories, MarkEnriching, BgLookup, BgTagRow, BgFinish

\* A step exposes at most the transaction of its own row, and only by failing.
LEMMA ExposedStep ==
    ASSUME IInv, NEW r \in Runs, Step(r), NEW k \in Exposed', k \notin Exposed
    PROVE  k = Key(r) /\ faults' = faults + 1
<1>a. /\ TypeOK /\ RowInRange /\ RecordedOnce /\ k \in Keys
      /\ pc \in [Runs -> PC] /\ tag \in [Keys -> TaggingStatus] /\ stored \in [Keys -> Nat]
      /\ faults \in Nat /\ cancelled \in [Runs -> BOOLEAN]
  BY DEF IInv, TypeOK, Exposed
<1>b. /\ UNCHANGED job
      /\ \A q \in Runs \ {r} : UNCHANGED <<pc[q], idx[q], cancelled[q]>>
  BY <1>a, StepFrame
<1>c. /\ stored'[k] > 0 /\ tag'[k] = "none" /\ tag[k] = "none"
      /\ \A q \in Runs : ~(pc'[q] = "blank" /\ ~cancelled'[q] /\ Key(q)' = k)
  BY <1>a, TagStays DEF Exposed
<1>d. \A q \in Runs \ {r} : ~(pc[q] = "blank" /\ ~cancelled[q] /\ Key(q) = k)
  BY <1>b, <1>c DEF Key
<1>e. stored[k] > 0 => pc[r] = "blank" /\ ~cancelled[r] /\ Key(r) = k
  BY <1>a, <1>c, <1>d DEF Exposed
<1>1. CASE InsertTransaction(r)
  <2>1. stored[k] = 0 /\ k = Key(r)
    BY <1>1, <1>a, <1>c, <1>e, InsertRecords DEF InsertTransaction
  <2>2. ~(pc'[r] = "blank" /\ ~cancelled'[r] /\ idx'[r] = idx[r])
    BY <1>b, <1>c, <2>1 DEF Key
  <2>3. stored' # stored
    BY <1>c, <2>1
  <2> QED BY <1>1, <1>a, <2>1, <2>2, <2>3
          DEF InsertTransaction, Goto, Succeeds, ReplyLost
<1>2. CASE InsertEnrichment(r)
  <2>1. stored[k] > 0
    BY <1>2, <1>a, <1>c, InsertClaims
  <2>2. Key(r) = k /\ ~cancelled[r]
    BY <1>e, <2>1
  <2>3. Blank(k)[k] # "none"
    BY <1>a DEF Blank
  <2> QED BY <1>2, <1>a, <1>c, <2>2, <2>3 DEF InsertEnrichment, Fails
<1>3. CASE ~InsertTransaction(r) /\ ~InsertEnrichment(r)
  <2>1. pc[r] # "blank" /\ stored' = stored
    BY <1>3, <1>a, OtherSteps
    DEF Step, CreateRun, CheckKey, LookupKey, TagRow, UpdateCounts, FinishRun, UpdateBalance,
        LoadCategories, MarkEnriching, BgLookup, BgTagRow, BgFinish
  <2> QED BY <1>c, <1>e, <2>1
<1> QED BY <1>1, <1>2, <1>3

LEMMA StepExplained ==
    ASSUME OInv, NEW r \in Runs, Step(r)
    PROVE  Explained'
<1>1. IInv /\ Explained /\ TypeOK /\ faults \in Nat
  BY DEF OInv, IInv, TypeOK
<1>2. faults' \in Nat /\ (faults' = faults \/ faults' = faults + 1)
  BY <1>1, FaultStep
<1>3. Begun' = Begun /\ Stopped \subseteq Stopped'
  BY <1>1, StoppedStay
<1>4. IsFiniteSet(Stopped')
  <2>1. Stopped' \in SUBSET Begun'
    BY DEF Stopped
  <2> QED BY <1>1, <1>3, <2>1, FS_Subset DEF Explained
<1> DEFINE X == IF faults' = faults THEN {} ELSE {Key(r)}
<1>5. Exposed' \in SUBSET (Exposed \union X)
  BY <1>1, <1>2, ExposedStep
<1>6. IsFiniteSet(X) /\ faults + Cardinality(X) <= faults' + Cardinality({})
  <2>1. Cardinality({}) = 0 /\ IsFiniteSet({})
    BY FS_EmptySet
  <2>2. Cardinality({Key(r)}) = 1 /\ IsFiniteSet({Key(r)})
    BY FS_Singleton
  <2>3. CASE faults' = faults
    BY <1>1, <2>1, <2>3
  <2>4. CASE faults' = faults + 1
    <3>1. X = {Key(r)}
      BY <1>1, <2>4
    <3> QED BY <1>1, <2>1, <2>2, <2>4, <3>1
  <2> QED BY <1>2, <2>3, <2>4
<1>7. IsFiniteSet(Exposed') /\ Cardinality(Exposed') <= faults' + Cardinality(Stopped')
  <2> HIDE DEF X
  <2>1. {} \in SUBSET (Stopped' \ Stopped)
    OBVIOUS
  <2> QED BY <1>1, <1>2, <1>3, <1>4, <1>5, <1>6, <2>1, Budget DEF Explained
<1>8. \A q \in Runs : pc'[q] = "idle" => ~cancelled'[q]
  <2>1. \A q \in Runs \ {r} : UNCHANGED <<pc[q], cancelled[q]>>
    BY <1>1, StepFrame DEF IInv
  <2>2. pc'[r] # "idle"
    <3>1. r \in Begun
      BY DEF Begun, Step, CreateRun, CheckKey, LookupKey, TagRow, InsertTransaction,
        InsertEnrichment, UpdateCounts, FinishRun, UpdateBalance, LoadCategories,
        MarkEnriching, BgLookup, BgTagRow, BgFinish
    <3> QED BY <1>3, <3>1 DEF Begun
  <2> QED BY <1>1, <2>1, <2>2 DEF Explained
<1> QED BY <1>1, <1>3, <1>7, <1>8 DEF Explained

\* Cancellations and crashes: who is stopped between the two statements of Insert
\* exposes the transaction it has stored.
LEMMA StopsExplained ==
    ASSUME OInv, UNCHANGED <<job, idx, stored, tag, faults>>, NEW V \in SUBSET Runs,
           \A q \in Runs \ V : UNCHANGED <<pc[q], cancelled[q]>>,
           \A q \in V : /\ pc[q] \in Foreground \union Background
                        /\ \/ pc'[q] = "dead" /\ UNCHANGED cancelled[q]
                           \/ pc'[q] = pc[q] /\ cancelled'[q]
    PROVE  Explained'
<1>1. Explained /\ TypeOK /\ faults \in Nat /\ faults' = faults
  BY DEF OInv, IInv, TypeOK
<1>2. Begun' = Begun
  BY DEF Begun, Foreground, Background, RowSteps
<1>3. Stopped \subseteq Stopped'
  <2> SUFFICES ASSUME NEW q \in Stopped PROVE q \in Stopped'
    OBVIOUS
  <2>1. q \in Runs /\ q \in Begun' /\ (cancelled[q] \/ pc[q] = "dead") /\ pc[q] # "enriching"
    BY <1>2 DEF Stopped, Begun
  <2> QED BY <2>1 DEF Stopped
<1>4. IsFiniteSet(Stopped')
  <2>1. Stopped' \in SUBSET Begun'
    BY DEF Stopped
  <2> QED BY <1>1, <1>2, <2>1, FS_Subset DEF Explained
<1> DEFINE Y == {q \in V : pc[q] = "blank" /\ ~cancelled[q]}
           X == {Key(q) : q \in Y}
<1>5. Y \in SUBSET (Stopped' \ Stopped)
  <2> SUFFICES ASSUME NEW q \in Y PROVE q \in Stopped' /\ q \notin Stopped
    OBVIOUS
  <2>1. q \in Begun'
    BY <1>2 DEF Begun
  <2> QED BY <2>1 DEF Stopped
<1>6. IsFiniteSet(X) /\ IsFiniteSet(Y) /\ Cardinality(X) <= Cardinality(Y)
  <2>1. IsFiniteSet(Y)
    <3>1. Y \in SUBSET Stopped'
      BY <1>5
    <3> QED BY <1>4, <3>1, FS_Subset
  <2> DEFINE f == [q \in Y |-> Key(q)]
  <2>2. f \in Surjection(Y, X)
    BY DEF Surjection
  <2> HIDE DEF f, X, Y
  <2> QED BY <2>1, <2>2, FS_Surjection
<1>7. Exposed' \in SUBSET (Exposed \union X)
  <2> SUFFICES ASSUME NEW k \in Exposed', k \notin Exposed PROVE k \in X
    OBVIOUS
  <2>1. k \in Keys /\ stored[k] > 0 /\ tag[k] = "none"
    BY DEF Exposed
  <2>2. PICK q \in Runs : pc[q] = "blank" /\ ~cancelled[q] /\ Key(q) = k
    BY <2>1 DEF Exposed
  <2>3. ~(pc'[q] = "blank" /\ ~cancelled'[q])
    BY <2>2 DEF Exposed, Key
  <2>4. q \in Y
    BY <2>2, <2>3
  <2> QED BY <2>2, <2>4
<1>8. Cardinality(X) \in Nat /\ Cardinality(Y) \in Nat
  BY <1>6, FS_CardinalityType
<1>9. IsFiniteSet(Exposed') /\ Cardinality(Exposed') <= faults' + Cardinality(Stopped')
  <2>1. faults + Cardinality(X) <= faults' + Cardinality(Y) /\ faults' \in Nat
    BY <1>1, <1>6, <1>8
  <2> HIDE DEF X, Y
  <2> QED BY <1>1, <1>3, <1>4, <1>5, <1>6, <1>7, <2>1, Budget DEF Explained
<1>10. \A q \in Runs : pc'[q] = "idle" => ~cancelled'[q]
  BY <1>1 DEF Explained, Foreground, Background, RowSteps
<1> QED BY <1>1, <1>2, <1>9, <1>10 DEF Explained

LEMMA EnvironmentExplained ==
    ASSUME OInv,
           \/ \E r \in Runs : Submit(r) \/ Cancel(r) \/ CrashCommand(r)
           \/ CrashServer
           \/ \E k \in Keys : PatchEnrichment(k)
           \/ UNCHANGED vars
    PROVE  Explained'
<1>0. /\ IInv /\ Explained /\ TypeOK
      /\ pc \in [Runs -> PC] /\ cancelled \in [Runs -> BOOLEAN]
      /\ tag \in [Keys -> TaggingStatus]
  BY DEF OInv, IInv, TypeOK
<1>1. ASSUME NEW r \in Runs, Submit(r) PROVE Explained'
  <2>1. /\ UNCHANGED <<job, idx, cancelled, stored, tag, faults>> /\ pc[r] = "idle"
        /\ pc' = [pc EXCEPT ![r] = "create"]
    BY <1>1 DEF Submit, Goto, dbVars
  <2>2. Begun' = Begun \union {r} /\ Stopped' = Stopped
    BY <1>0, <2>1 DEF Begun, Stopped, Explained
  <2>3. Exposed' = Exposed
    BY <1>0, <2>1 DEF Exposed, Key
  <2> QED BY <1>0, <2>1, <2>2, <2>3, FS_AddElement DEF Explained
<1>2. ASSUME NEW r \in Runs, Cancel(r) PROVE Explained'
  <2>1. {r} \in SUBSET Runs
    OBVIOUS
  <2> QED BY <1>0, <1>2, <2>1, StopsExplained DEF Cancel, dbVars
<1>3. ASSUME NEW victims, Crash(victims) PROVE Explained'
  <2> DEFINE V == {q \in Runs : q \in victims /\ pc[q] \in Foreground \union Background}
  <2>1. /\ UNCHANGED <<job, idx, stored, tag, faults, cancelled>>
        /\ \A q \in Runs \ V : UNCHANGED pc[q]
        /\ \A q \in V : pc[q] \in Foreground \union Background /\ pc'[q] = "dead"
    BY <1>3 DEF Crash, dbVars
  <2>2. V \in SUBSET Runs
    OBVIOUS
  <2> HIDE DEF V
  <2> QED BY <2>1, <2>2, StopsExplained
<1>4. ASSUME NEW k \in Keys, PatchEnrichment(k) PROVE Explained'
  <2>1. UNCHANGED <<job, pc, idx, cancelled, stored, faults>> /\ tag' = Tagged(k, "manual")
    BY <1>4 DEF PatchEnrichment, procVars
  <2>2. \A j \in Keys : tag'[j] = "none" <=> tag[j] = "none"
    BY <1>0, <2>1 DEF Tagged
  <2>3. Exposed' = Exposed /\ Begun' = Begun /\ Stopped' = Stopped
    BY <2>1, <2>2 DEF Exposed, Begun, Stopped, Key
  <2> QED BY <1>0, <2>1, <2>3 DEF Explained
<1>5. CASE UNCHANGED vars
  <2>1. Exposed' = Exposed /\ Begun' = Begun /\ Stopped' = Stopped
    BY <1>5 DEF Exposed, Begun, Stopped, Key, vars, procVars, dbVars
  <2> QED BY <1>0, <1>5, <2>1 DEF Explained, vars, procVars, dbVars
<1> QED BY <1>1, <1>2, <1>3, <1>4, <1>5 DEF CrashServer, CrashCommand

\* Each transaction without an enrichment row has a failed statement, a cancelled
\* import or a crashed one of its own, for any number of imports.
THEOREM OrphansExplainedAlways == Spec => []OrphansExplained
<1>1. Init => OInv
  <2> SUFFICES ASSUME Init PROVE Explained
    BY ReportsInit DEF OInv
  <2>1. Begun = {} /\ Stopped = {} /\ Exposed = {} /\ faults = 0
    BY DEF Init, Begun, Stopped, Exposed
  <2>2. \A r \in Runs : ~cancelled[r]
    BY DEF Init
  <2> QED BY <2>1, <2>2, FS_EmptySet DEF Explained
<1>2. OInv /\ [Next]_vars => OInv'
  BY ReportsNext, StepExplained, EnvironmentExplained DEF OInv, Next, Settled
<1>3. OInv => OrphansExplained
  <2> SUFFICES ASSUME OInv PROVE OrphansExplained
    OBVIOUS
  <2> DEFINE O == {k \in Keys : Orphan(k)}
             B == {r \in Runs : cancelled[r] \/ pc[r] = "dead"}
  <2>1. Explained /\ faults \in Nat
    BY DEF OInv, IInv, TypeOK
  <2>2. O \in SUBSET Exposed
    BY DEF Orphan, Exposed
  <2>3. B \in SUBSET Begun /\ Stopped \in SUBSET B
    BY <2>1 DEF Explained, Begun, Stopped
  <2>4. Cardinality(O) <= Cardinality(Exposed) /\ IsFiniteSet(O)
    BY <2>1, <2>2, FS_Subset DEF Explained
  <2>5. Cardinality(Stopped) <= Cardinality(B) /\ IsFiniteSet(B) /\ IsFiniteSet(Stopped)
    BY <2>1, <2>3, FS_Subset DEF Explained
  <2>6. /\ Cardinality(O) \in Nat /\ Cardinality(Exposed) \in Nat
        /\ Cardinality(B) \in Nat /\ Cardinality(Stopped) \in Nat
    BY <2>1, <2>4, <2>5, FS_CardinalityType DEF Explained
  <2> HIDE DEF O, B
  <2>7. Cardinality(O) <= faults + Cardinality(B)
    BY <2>1, <2>4, <2>5, <2>6 DEF Explained
  <2> QED BY <2>7 DEF O, B, OrphansExplained
<1> QED BY <1>1, <1>2, <1>3, PTL DEF Spec

-----------------------------------------------------------------------------
(* The balance of the account *)

\* Where the balance of the account comes from.
BalanceFromStatement ==
    balance.asOf > 0 =>
        \E r \in Runs : \E i \in BalanceRows(job[r].rows) :
            /\ job[r].rows[i].date = balance.asOf
            /\ job[r].rows[i].balance = balance.paise

\* The account knows a balance as recent as the one the import reports.
LastCovered(r) ==
    BalanceRows(job[r].rows) # {} => LatestBalance(job[r].rows).date <= balance.asOf

\* Who has applied its balance: an import in the background stays one although
\* its request had been cancelled by the time it was started.
BalanceApplied(r) ==
    /\ pc[r] \in {"enriching"} \union Background => LastCovered(r)
    /\ pc[r] \in {"categories", "done"} /\ ~cancelled[r] => LastCovered(r)

BInv ==
    /\ TypeOK /\ BalanceFromStatement
    /\ faults = 0 => \A r \in Runs : BalanceApplied(r)

\* LatestBalance is the last of the rows that carry a balance.
LEMMA LatestBalanceRow ==
    ASSUME TypeOK, NEW r \in Runs, BalanceRows(job[r].rows) # {}
    PROVE  /\ \E i \in BalanceRows(job[r].rows) :
                  /\ \A j \in BalanceRows(job[r].rows) : j <= i
                  /\ LatestBalance(job[r].rows) = job[r].rows[i]
           /\ LatestBalance(job[r].rows) \in RawTransaction
<1> DEFINE s == job[r].rows
<1>1. s \in Statements
  BY DEF TypeOK, Job
<1>2. DOMAIN s = 1 .. Len(s) /\ Len(s) \in Nat
  BY <1>1, StatementsAssumption
<1>3. \E i \in BalanceRows(s) : \A j \in BalanceRows(s) : j <= i
  BY <1>2, GreatestExists DEF BalanceRows
<1>4. LatestBalance(s) \in RawTransaction
  BY <1>1, LatestBalanceType
<1> HIDE DEF s
<1> QED BY <1>3, <1>4 DEF LatestBalance, s

\* UpdateAccountBalance never moves the date of the balance back, and covers the
\* statement it is given.
LEMMA RebalancedCovers ==
    ASSUME TypeOK, NEW row \in RawTransaction
    PROVE  /\ Rebalanced(row).asOf \in Nat
           /\ Rebalanced(row).asOf >= balance.asOf
           /\ Rebalanced(row).asOf >= row.date
           /\ Rebalanced(row) \in {balance, [paise |-> row.balance, asOf |-> row.date]}
BY DEF TypeOK, Rebalanced, RawTransaction

\* When the balance changes, it is by an import whose statement contains it.
LEMMA BalanceStep ==
    ASSUME TypeOK, NEW r \in Runs, Step(r)
    PROVE  /\ UNCHANGED job
           /\ \/ UNCHANGED balance
              \/ /\ pc[r] = "balance" /\ BalanceRows(job[r].rows) # {}
                 /\ balance' = Rebalanced(LatestBalance(job[r].rows))
BY DEF Step, TypeOK, dbVars, CreateRun, CheckKey, LookupKey, TagRow, InsertTransaction,
       InsertEnrichment, UpdateCounts, FinishRun, UpdateBalance, LoadCategories,
       MarkEnriching, BgLookup, BgTagRow, BgFinish

\* The balance of an import that is past UpdateBalance has been applied by a step of
\* its own, or has been before.
LEMMA AppliedStep ==
    ASSUME TypeOK, NEW r \in Runs, Step(r), faults' = 0, BalanceApplied(r)
    PROVE  /\ pc'[r] \in {"enriching"} \union Background
                  => LastCovered(r) \/ pc[r] = "balance"
           /\ pc'[r] \in {"categories", "done"} /\ ~cancelled'[r]
                  => LastCovered(r) \/ pc[r] = "balance"
           /\ \A q \in Runs \ {r} : UNCHANGED <<pc[q], cancelled[q]>>
<1> USE DEF TypeOK, BalanceApplied, Background, Ended
<1>1. CASE CreateRun(r)
  BY <1>1 DEF CreateRun, Goto, Succeeds, Fails, ReplyLost
<1>2. CASE CheckKey(r) \/ LookupKey(r) \/ TagRow(r)
  BY <1>2 DEF CheckKey, LookupKey, TagRow, Goto, Continue, NextRow
<1>3. CASE InsertTransaction(r) \/ InsertEnrichment(r)
  BY <1>3 DEF InsertTransaction, InsertEnrichment, Goto, Continue, NextRow
<1>4. CASE UpdateCounts(r) \/ FinishRun(r) \/ UpdateBalance(r)
  BY <1>4 DEF UpdateCounts, FinishRun, UpdateBalance, Goto
<1>5. CASE LoadCategories(r) \/ MarkEnriching(r)
  BY <1>5 DEF LoadCategories, MarkEnriching, Goto, Succeeds, Fails, ReplyLost
<1>6. CASE BgLookup(r) \/ BgTagRow(r) \/ BgFinish(r)
  BY <1>6 DEF BgLookup, BgTagRow, BgFinish, Goto, ContinueBg, NextRow
<1> QED BY <1>1, <1>2, <1>3, <1>4, <1>5, <1>6 DEF Step

\* With no fault, UpdateBalance of a live import leaves its statement covered.
LEMMA UpdateCovers ==
    ASSUME TypeOK, NEW r \in Runs, Step(r), pc[r] = "balance", faults' = 0,
           ~cancelled'[r]
    PROVE  LastCovered(r)'
<1>1. UpdateBalance(r)
  BY DEF Step, CreateRun, CheckKey, LookupKey, TagRow, InsertTransaction,
         InsertEnrichment, UpdateCounts, FinishRun, LoadCategories,
         MarkEnriching, BgLookup, BgTagRow, BgFinish
<1>2. UNCHANGED <<job, cancelled>>
  BY <1>1 DEF UpdateBalance
<1>3. CASE BalanceRows(job[r].rows) = {}
  BY <1>2, <1>3 DEF LastCovered
<1>4. CASE BalanceRows(job[r].rows) # {}
  <2>1. balance' = Rebalanced(LatestBalance(job[r].rows))
    BY <1>1, <1>2, <1>4 DEF UpdateBalance, Fails, ReplyLost, TypeOK
  <2>2. LatestBalance(job[r].rows) \in RawTransaction
    BY <1>4, LatestBalanceRow
  <2>3. LatestBalance(job[r].rows).date \in Nat
    BY <2>2 DEF RawTransaction
  <2>4. LatestBalance(job[r].rows).date <= balance'.asOf
    BY <2>1, <2>2, <2>3, RebalancedCovers
  <2> QED BY <1>2, <2>4 DEF LastCovered
<1> QED BY <1>3, <1>4

LEMMA StepBalance ==
    ASSUME BInv, NEW r \in Runs, Step(r)
    PROVE  BInv'
<1>0. TypeOK /\ TypeOK' /\ UNCHANGED job
  BY StepType, BalanceStep DEF BInv
<1>1. BalanceFromStatement'
  <2>1. CASE UNCHANGED balance
    BY <1>0, <2>1 DEF BInv, BalanceFromStatement
  <2>2. CASE /\ BalanceRows(job[r].rows) # {}
             /\ balance' = Rebalanced(LatestBalance(job[r].rows))
    <3>1. PICK i \in BalanceRows(job[r].rows) : LatestBalance(job[r].rows) = job[r].rows[i]
      BY <1>0, <2>2, LatestBalanceRow
    <3>2. balance' = balance \/ balance' = [paise |-> job[r].rows[i].balance,
                                            asOf |-> job[r].rows[i].date]
      BY <1>0, <2>2, <3>1, LatestBalanceRow, RebalancedCovers
    <3> QED BY <1>0, <3>2 DEF BInv, BalanceFromStatement
  <2> QED BY <1>0, <2>1, <2>2, BalanceStep
<1>2. ASSUME faults' = 0, NEW q \in Runs PROVE BalanceApplied(q)'
  <2>1. faults = 0
    BY <1>0, <1>2, OutcomeType DEF Step, TypeOK, dbVars, Succeeds, Fails, ReplyLost,
       CreateRun, CheckKey, LookupKey, TagRow, InsertTransaction, InsertEnrichment,
       UpdateCounts, FinishRun, UpdateBalance, LoadCategories, MarkEnriching, BgLookup,
       BgTagRow, BgFinish
  <2>2. BalanceApplied(q) /\ BalanceApplied(r)
    BY <2>1 DEF BInv
  <2>3. LastCovered(q) => LastCovered(q)'
    <3> SUFFICES ASSUME LastCovered(q), BalanceRows(job[q].rows) # {}
                 PROVE  LatestBalance(job[q].rows).date <= balance'.asOf
      BY <1>0 DEF LastCovered
    <3>1. LatestBalance(job[q].rows).date \in Nat
      BY <1>0, LatestBalanceRow DEF RawTransaction
    <3>2. LatestBalance(job[q].rows).date <= balance.asOf
      BY DEF LastCovered
    <3>3. balance.asOf \in Nat /\ balance'.asOf \in Nat
      BY <1>0 DEF TypeOK
    <3>4. balance.asOf <= balance'.asOf
      <4>1. CASE UNCHANGED balance
        BY <3>3, <4>1
      <4>2. CASE /\ BalanceRows(job[r].rows) # {}
                 /\ balance' = Rebalanced(LatestBalance(job[r].rows))
        BY <1>0, <3>3, <4>2, LatestBalanceRow, RebalancedCovers
      <4> QED BY <1>0, <4>1, <4>2, BalanceStep
    <3> QED BY <3>1, <3>2, <3>3, <3>4
  <2>4. CASE q # r
    BY <1>0, <1>2, <2>2, <2>3, <2>4, AppliedStep DEF BalanceApplied
  <2>5. CASE q = r /\ pc[r] = "balance"
    <3>1. pc'[r] \in {"categories", "done"}
      BY <1>0, <2>5 DEF Step, CreateRun, CheckKey, LookupKey, TagRow, InsertTransaction,
         InsertEnrichment, UpdateCounts, FinishRun, UpdateBalance, LoadCategories,
         MarkEnriching, BgLookup, BgTagRow, BgFinish, Goto, TypeOK
    <3> QED BY <1>0, <1>2, <2>5, <3>1, UpdateCovers DEF BalanceApplied, Background
  <2>6. CASE q = r /\ pc[r] # "balance"
    BY <1>0, <1>2, <2>2, <2>3, <2>6, AppliedStep DEF BalanceApplied
  <2> QED BY <2>4, <2>5, <2>6
<1> QED BY <1>0, <1>1, <1>2 DEF BInv

LEMMA EnvironmentBalance ==
    ASSUME BInv,
           \/ \E r \in Runs : Submit(r) \/ Cancel(r) \/ CrashCommand(r)
           \/ CrashServer
           \/ \E k \in Keys : PatchEnrichment(k)
           \/ UNCHANGED vars
    PROVE  BInv'
<1>1. TypeOK /\ TypeOK' /\ UNCHANGED <<job, balance, faults>>
  BY EnvironmentType DEF BInv, Submit, Cancel, CrashCommand, CrashServer, Crash,
     PatchEnrichment, vars, procVars, dbVars
<1>2. \A q \in Runs : UNCHANGED <<BalanceRows(job[q].rows), LastCovered(q)>>
  BY <1>1 DEF LastCovered
<1>3. ASSUME NEW q \in Runs
      PROVE  /\ pc'[q] # pc[q] => pc'[q] \in {"create", "dead"}
             /\ cancelled'[q] # cancelled[q] => cancelled'[q] /\ UNCHANGED pc
  BY <1>1 DEF Submit, Cancel, CrashCommand, CrashServer, Crash, PatchEnrichment,
     vars, procVars, dbVars, Goto, TypeOK
<1>4. \A q \in Runs : BalanceApplied(q) => BalanceApplied(q)'
  BY <1>1, <1>2, <1>3 DEF BalanceApplied, Background, TypeOK
<1> QED BY <1>1, <1>4 DEF BInv, BalanceFromStatement

LEMMA BalanceInductive == (Init => BInv) /\ (BInv /\ [Next]_vars => BInv')
<1>1. Init => BInv
  BY InitInvariant DEF Init, BInv, BalanceFromStatement, BalanceApplied, Background
<1>2. BInv /\ [Next]_vars => BInv'
  BY StepBalance, EnvironmentBalance DEF Next, Settled
<1> QED BY <1>1, <1>2

\* Whatever the statements, imports and interleavings: the balance of the account is
\* one a statement contains for its date, and, as long as no statement failed, no
\* import that has applied its balance finds the account with an older one.  When the
\* rows of every statement are oldest first, that covers all of its rows.
THEOREM BalanceCoversAlways ==
    ASSUME OldestFirst
    PROVE  Spec => []BalanceCovers
<1>1. BInv => BalanceCovers
  <2> SUFFICES ASSUME BInv PROVE BalanceCovers
    OBVIOUS
  <2>1. BalanceFromStatement /\ TypeOK
    BY DEF BInv
  <2>2. ASSUME faults = 0, NEW r \in Runs, ~cancelled[r],
               pc[r] \in {"categories", "enriching", "done"} \union Background,
               NEW i \in BalanceRows(job[r].rows)
        PROVE  job[r].rows[i].date <= balance.asOf
    <3> DEFINE s == job[r].rows
    <3>1. LastCovered(r)
      BY <2>2 DEF BInv, BalanceApplied
    <3>2. PICK l \in BalanceRows(s) : i <= l /\ LatestBalance(s) = s[l]
      BY <2>1, <2>2, LatestBalanceRow
    <3>3. s \in Statements
      BY <2>1 DEF TypeOK, Job
    <3>4. s[i].date <= s[l].date
      BY <2>2, <3>2, <3>3 DEF OldestFirst
    <3>5. s[i] \in RawTransaction /\ s[l] \in RawTransaction
      BY <2>2, <3>2, <3>3, RowType DEF BalanceRows
    <3>6. s[i].date \in Nat /\ s[l].date \in Nat /\ balance.asOf \in Nat
      BY <2>1, <3>5 DEF RawTransaction, TypeOK
    <3>7. s[l].date <= balance.asOf
      BY <2>2, <3>1, <3>2 DEF LastCovered
    <3> QED BY <3>4, <3>6, <3>7
  <2> QED BY <2>1, <2>2 DEF BalanceCovers, BalanceFromStatement
<1> QED BY <1>1, BalanceInductive, PTL DEF Spec

-----------------------------------------------------------------------------
(***************************************************************************)
(* The statements an import is given: module Statements, on files that are *)
(* laid out as StatementLayout says.                                       *)
(***************************************************************************)

(* Titles and the columns under them *)

\* The first column that has the word is the one found.
LEMMA ColumnFound ==
    ASSUME NEW row \in RowValues, NEW w, NEW i \in 0 .. Len(row.cells) - 1,
           Contains(CellOf(row, i), w),
           \A k \in 0 .. i - 1 : ~Contains(CellOf(row, k), w)
    PROVE  HasWord(row, w) /\ ColumnOf(row, w) = i
<1> DEFINE First(k) == /\ Contains(CellOf(row, k), w)
                      /\ \A m \in 0 .. k - 1 : ~Contains(CellOf(row, m), w)
<1>1. row.cells \in Seq(CellValues) BY DEF RowValues
<1>2. CellOf(row, i) = row.cells[i + 1] /\ i + 1 \in DOMAIN row.cells BY <1>1 DEF CellOf
<1>3. HasWord(row, w) BY <1>2 DEF HasWord
<1>4. \A k \in 0 .. Len(row.cells) - 1 : First(k) => k = i
  <2> SUFFICES ASSUME NEW k \in 0 .. Len(row.cells) - 1, First(k) PROVE k = i OBVIOUS
  <2>1. Len(row.cells) \in Nat BY <1>1
  <2>2. k \in Int /\ i \in Int /\ k >= 0 /\ i >= 0 BY <2>1
  <2>3. ~(k < i) BY <2>2
  <2>4. ~(i < k) BY <2>2
  <2> QED BY <2>2, <2>3, <2>4
<1>5. First(i) OBVIOUS
<1>6. ColumnOf(row, w) = CHOOSE k \in 0 .. Len(row.cells) - 1 : First(k) BY <1>3 DEF ColumnOf
<1> HIDE DEF First
<1>7. (CHOOSE k \in 0 .. Len(row.cells) - 1 : First(k)) = i BY <1>4, <1>5
<1> QED BY <1>3, <1>6, <1>7

\* The words in each title.
LEMMA WordsOfTitles ==
    /\ Words("tran_date") = {"tran_date", "date"}
    /\ Words("chqno") = {"chqno", "chq"}
    /\ Words("transaction_description") = {"transaction_description", "cr"}
    /\ Words("ref_no/cheque_no") = {"ref_no"}
    /\ Words("credit") = {"credit", "cr"}
    /\ Words("balance") = {"balance", "bal"}
    /\ Words("value_date") = {"date"}
    /\ Words("transaction_date") = {"transaction_date", "date"}
    /\ Words("withdrawal_amount(inr)") = {"withdrawal_amount", "amount", "dr"}
    /\ Words("deposit_amount(inr)") = {"deposit_amount", "amount"}
    /\ Words("balance(inr)") = {"balance", "bal"}
    /\ Words("chq./ref.no.") = {"chq"}
    /\ Words("withdrawal_amt.") = {"withdrawal_amt", "dr"}
    /\ Words("deposit_amt.") = {"deposit_amt"}
    /\ Words("closing_balance") = {"closing_balance", "balance", "bal"}
BY DEF Words

Bare == {NoText, "particulars", "dr", "cr", "bal", "sol", "date", "payment_type", "category",
         "sub-category", "amount", "currency", "details", "debit", "s_no.", "cheque_number",
         "transaction_remarks", "narration", "value_dt"}

\* The titles that are looked for as they are.
LEMMA WordsOfBareTitles == \A t \in Bare : Words(t) = {t}
<1> SUFFICES ASSUME NEW t \in Bare PROVE Words(t) = {t} OBVIOUS
<1> QED BY DEF Words, Bare, NoText

FirstTitle(titles, w, p) ==
    /\ w \in LookedFor /\ p \in 1 .. Len(titles) /\ w \in Words(titles[p])
    /\ \A q \in 1 .. p - 1 : w \notin Words(titles[q])
InNoTitle(titles, w) == w \in LookedFor /\ \A q \in 1 .. Len(titles) : w \notin Words(titles[q])

\* Nothing beside the titles is looked for, so a word that no title has is not in the
\* row, and one that a title has is found in the column of the first that has it.
LEMMA TitleColumn ==
    ASSUME NEW f, f.rows[f.header] \in RowValues, f.lead \in Nat, TitleRow(f),
           Len(Titles(f.bank)) \in Nat, NEW w, NEW p, FirstTitle(Titles(f.bank), w, p)
    PROVE  /\ HasWord(f.rows[f.header], w)
           /\ ColumnOf(f.rows[f.header], w) = f.lead + p - 1
<1> DEFINE row == f.rows[f.header]
<1> DEFINE titles == Titles(f.bank)
<1> DEFINE cells == row.cells
<1>1. cells \in Seq(CellValues) BY DEF RowValues
<1>2. Len(cells) \in Nat /\ Len(titles) \in Nat /\ DOMAIN cells = 1 .. Len(cells)
      /\ Len(cells) >= f.lead + Len(titles)
  BY <1>1 DEF TitleRow
<1>3. \A i \in DOMAIN cells : IF i - f.lead \in 1 .. Len(titles)
                               THEN cells[i].text = titles[i - f.lead] ELSE Plain(cells[i])
  BY DEF TitleRow
<1>4. /\ w \in LookedFor /\ p \in 1 .. Len(titles) /\ w \in Words(titles[p])
      /\ \A q \in 1 .. p - 1 : w \notin Words(titles[q])
  BY DEF FirstTitle
<1> HIDE DEF cells, titles
<1>5. p \in Nat /\ f.lead + p \in Nat /\ (f.lead + p) - f.lead = p BY <1>4, <1>2
<1>6. \A i \in 0 .. Len(cells) - 1 : CellOf(row, i) = cells[i + 1] BY DEF CellOf, cells
<1>7. f.lead + p - 1 \in 0 .. Len(cells) - 1 /\ f.lead + p \in DOMAIN cells
  <2>1. p \in Nat /\ p >= 1 /\ p <= Len(titles) BY <1>2, <1>4
  <2>2. Len(titles) \in Nat /\ Len(cells) \in Nat /\ f.lead + Len(titles) <= Len(cells) BY <1>2
  <2>3. f.lead + p >= 1 /\ f.lead + p <= Len(cells) BY <2>1, <2>2
  <2> QED BY <1>2, <2>1, <2>2, <2>3
<1>8. Contains(CellOf(row, f.lead + p - 1), w)
  <2>1. (f.lead + p - 1) + 1 = f.lead + p
    BY <1>5
  <2>2. cells[f.lead + p].text = titles[p] BY <1>3, <1>7, <1>5, <1>4
  <2> QED BY <1>6, <1>7, <1>4, <2>1, <2>2 DEF Contains
<1>9. ASSUME NEW k \in 0 .. (f.lead + p - 1) - 1 PROVE ~Contains(CellOf(row, k), w)
  <2>1. k + 1 \in DOMAIN cells /\ k \in 0 .. Len(cells) - 1 BY <1>2, <1>7
  <2>2. PICK i \in DOMAIN cells : i = k + 1 BY <2>1
  <2>3. CellOf(row, k) = cells[i] BY <1>6, <2>1, <2>2
  <2>4. CASE i - f.lead \in 1 .. Len(titles)
    <3>1. i - f.lead \in 1 .. p - 1
      <4>1. p \in Nat /\ k \in Int /\ f.lead \in Nat BY <1>2, <1>5
      <4>2. i - f.lead \in Int /\ i - f.lead >= 1 BY <2>4, <1>2
      <4> QED BY <4>1, <4>2, <2>2
    <3>2. w \notin Words(titles[i - f.lead]) BY <3>1, <1>4
    <3>3. cells[i].text = titles[i - f.lead] BY <1>3, <2>4
    <3> QED BY <3>2, <3>3, <2>3 DEF Contains
  <2>5. CASE i - f.lead \notin 1 .. Len(titles)
    <3>1. Plain(cells[i]) BY <1>3, <2>5
    <3> QED BY <3>1, <2>3, <1>4 DEF Plain
  <2> QED BY <2>4, <2>5
<1> QED BY <1>7, <1>8, <1>9, ColumnFound DEF cells

\* A word that no title has is not in the row of titles.
LEMMA NoTitle ==
    ASSUME NEW f, TitleRow(f), NEW w, InNoTitle(Titles(f.bank), w)
    PROVE  ~HasWord(f.rows[f.header], w)
BY DEF TitleRow, HasWord, Contains, Plain, InNoTitle

\* Where the titles that the parsers look for stand, and which do not.
LEMMA AxisTitles ==
    /\ FirstTitle(Titles("axis"), "tran_date", 1)
    /\ FirstTitle(Titles("axis"), "particulars", 3)
    /\ FirstTitle(Titles("axis"), "dr", 4)
    /\ FirstTitle(Titles("axis"), "cr", 5)
    /\ FirstTitle(Titles("axis"), "bal", 6)
    /\ FirstTitle(Titles("axis"), "chqno", 2)
    /\ InNoTitle(Titles("axis"), "payment_type")
    /\ InNoTitle(Titles("axis"), "debit")
    /\ InNoTitle(Titles("axis"), "transaction_remarks")
    /\ InNoTitle(Titles("axis"), "narration")
    /\ InNoTitle(Titles("axis"), "account_number")
<1> DEFINE titles == Titles("axis")
<1>1. titles = <<"tran_date", "chqno", "particulars", "dr", "cr", "bal", "sol">>
  BY DEF Titles
<1> HIDE DEF titles
<1>2. /\ Len(titles) = 7
      /\ titles[1] = "tran_date"
      /\ titles[2] = "chqno"
      /\ titles[3] = "particulars"
      /\ titles[4] = "dr"
      /\ titles[5] = "cr"
      /\ titles[6] = "bal"
      /\ titles[7] = "sol"
  BY <1>1
<1>3. /\ Words(titles[1]) = {"tran_date", "date"}
      /\ Words(titles[2]) = {"chqno", "chq"}
      /\ Words(titles[3]) = {"particulars"}
      /\ Words(titles[4]) = {"dr"}
      /\ Words(titles[5]) = {"cr"}
      /\ Words(titles[6]) = {"bal"}
      /\ Words(titles[7]) = {"sol"}
  BY <1>2, WordsOfTitles, WordsOfBareTitles DEF Bare
<1>4. /\ FirstTitle(titles, "tran_date", 1)
      /\ FirstTitle(titles, "particulars", 3)
      /\ FirstTitle(titles, "dr", 4)
      /\ FirstTitle(titles, "cr", 5)
      /\ FirstTitle(titles, "bal", 6)
      /\ FirstTitle(titles, "chqno", 2)
  BY <1>2, <1>3 DEF FirstTitle, LookedFor, OwnTitles
<1>5. /\ InNoTitle(titles, "payment_type")
      /\ InNoTitle(titles, "debit")
      /\ InNoTitle(titles, "transaction_remarks")
      /\ InNoTitle(titles, "narration")
      /\ InNoTitle(titles, "account_number")
  BY <1>2, <1>3 DEF InNoTitle, LookedFor, OwnTitles
<1> QED BY <1>4, <1>5 DEF titles

LEMMA IDFCTitles ==
    /\ FirstTitle(Titles("idfc"), "date", 1)
    /\ FirstTitle(Titles("idfc"), "payment_type", 2)
    /\ FirstTitle(Titles("idfc"), "transaction_description", 3)
    /\ FirstTitle(Titles("idfc"), "amount", 6)
    /\ InNoTitle(Titles("idfc"), "debit")
    /\ InNoTitle(Titles("idfc"), "transaction_remarks")
    /\ InNoTitle(Titles("idfc"), "narration")
    /\ InNoTitle(Titles("idfc"), "account_number")
<1> DEFINE titles == Titles("idfc")
<1>1. titles = <<"date", "payment_type", "transaction_description", "category",
               "sub-category", "amount", "currency">>
  BY DEF Titles
<1> HIDE DEF titles
<1>2. /\ Len(titles) = 7
      /\ titles[1] = "date"
      /\ titles[2] = "payment_type"
      /\ titles[3] = "transaction_description"
      /\ titles[4] = "category"
      /\ titles[5] = "sub-category"
      /\ titles[6] = "amount"
      /\ titles[7] = "currency"
  BY <1>1
<1>3. /\ Words(titles[1]) = {"date"}
      /\ Words(titles[2]) = {"payment_type"}
      /\ Words(titles[3]) = {"transaction_description", "cr"}
      /\ Words(titles[4]) = {"category"}
      /\ Words(titles[5]) = {"sub-category"}
      /\ Words(titles[6]) = {"amount"}
      /\ Words(titles[7]) = {"currency"}
  BY <1>2, WordsOfTitles, WordsOfBareTitles DEF Bare
<1>4. /\ FirstTitle(titles, "date", 1)
      /\ FirstTitle(titles, "payment_type", 2)
      /\ FirstTitle(titles, "transaction_description", 3)
      /\ FirstTitle(titles, "amount", 6)
  BY <1>2, <1>3 DEF FirstTitle, LookedFor, OwnTitles
<1>5. /\ InNoTitle(titles, "debit")
      /\ InNoTitle(titles, "transaction_remarks")
      /\ InNoTitle(titles, "narration")
      /\ InNoTitle(titles, "account_number")
  BY <1>2, <1>3 DEF InNoTitle, LookedFor, OwnTitles
<1> QED BY <1>4, <1>5 DEF titles

LEMMA SBITitles ==
    /\ FirstTitle(Titles("sbi"), "date", 1)
    /\ FirstTitle(Titles("sbi"), "details", 2)
    /\ FirstTitle(Titles("sbi"), "debit", 4)
    /\ FirstTitle(Titles("sbi"), "credit", 5)
    /\ FirstTitle(Titles("sbi"), "balance", 6)
    /\ FirstTitle(Titles("sbi"), "ref_no", 3)
    /\ InNoTitle(Titles("sbi"), "transaction_remarks")
    /\ InNoTitle(Titles("sbi"), "narration")
    /\ InNoTitle(Titles("sbi"), "account_number")
<1> DEFINE titles == Titles("sbi")
<1>1. titles = <<"date", "details", "ref_no/cheque_no", "debit", "credit", "balance">>
  BY DEF Titles
<1> HIDE DEF titles
<1>2. /\ Len(titles) = 6
      /\ titles[1] = "date"
      /\ titles[2] = "details"
      /\ titles[3] = "ref_no/cheque_no"
      /\ titles[4] = "debit"
      /\ titles[5] = "credit"
      /\ titles[6] = "balance"
  BY <1>1
<1>3. /\ Words(titles[1]) = {"date"}
      /\ Words(titles[2]) = {"details"}
      /\ Words(titles[3]) = {"ref_no"}
      /\ Words(titles[4]) = {"debit"}
      /\ Words(titles[5]) = {"credit", "cr"}
      /\ Words(titles[6]) = {"balance", "bal"}
  BY <1>2, WordsOfTitles, WordsOfBareTitles DEF Bare
<1>4. /\ FirstTitle(titles, "date", 1)
      /\ FirstTitle(titles, "details", 2)
      /\ FirstTitle(titles, "debit", 4)
      /\ FirstTitle(titles, "credit", 5)
      /\ FirstTitle(titles, "balance", 6)
      /\ FirstTitle(titles, "ref_no", 3)
  BY <1>2, <1>3 DEF FirstTitle, LookedFor, OwnTitles
<1>5. /\ InNoTitle(titles, "transaction_remarks")
      /\ InNoTitle(titles, "narration")
      /\ InNoTitle(titles, "account_number")
  BY <1>2, <1>3 DEF InNoTitle, LookedFor, OwnTitles
<1> QED BY <1>4, <1>5 DEF titles

LEMMA ICICITitles ==
    /\ FirstTitle(Titles("icici"), "transaction_date", 3)
    /\ FirstTitle(Titles("icici"), "transaction_remarks", 5)
    /\ FirstTitle(Titles("icici"), "withdrawal_amount", 6)
    /\ FirstTitle(Titles("icici"), "deposit_amount", 7)
    /\ FirstTitle(Titles("icici"), "balance", 8)
    /\ FirstTitle(Titles("icici"), "cheque_number", 4)
    /\ InNoTitle(Titles("icici"), "narration")
    /\ InNoTitle(Titles("icici"), "account_number")
<1> DEFINE titles == Titles("icici")
<1>1. titles = <<"s_no.", "value_date", "transaction_date", "cheque_number",
               "transaction_remarks", "withdrawal_amount(inr)",
               "deposit_amount(inr)", "balance(inr)">>
  BY DEF Titles
<1> HIDE DEF titles
<1>2. /\ Len(titles) = 8
      /\ titles[1] = "s_no."
      /\ titles[2] = "value_date"
      /\ titles[3] = "transaction_date"
      /\ titles[4] = "cheque_number"
      /\ titles[5] = "transaction_remarks"
      /\ titles[6] = "withdrawal_amount(inr)"
      /\ titles[7] = "deposit_amount(inr)"
      /\ titles[8] = "balance(inr)"
  BY <1>1
<1>3. /\ Words(titles[1]) = {"s_no."}
      /\ Words(titles[2]) = {"date"}
      /\ Words(titles[3]) = {"transaction_date", "date"}
      /\ Words(titles[4]) = {"cheque_number"}
      /\ Words(titles[5]) = {"transaction_remarks"}
      /\ Words(titles[6]) = {"withdrawal_amount", "amount", "dr"}
      /\ Words(titles[7]) = {"deposit_amount", "amount"}
      /\ Words(titles[8]) = {"balance", "bal"}
  BY <1>2, WordsOfTitles, WordsOfBareTitles DEF Bare
<1>4. /\ FirstTitle(titles, "transaction_date", 3)
      /\ FirstTitle(titles, "transaction_remarks", 5)
      /\ FirstTitle(titles, "withdrawal_amount", 6)
      /\ FirstTitle(titles, "deposit_amount", 7)
      /\ FirstTitle(titles, "balance", 8)
      /\ FirstTitle(titles, "cheque_number", 4)
  BY <1>2, <1>3 DEF FirstTitle, LookedFor, OwnTitles
<1>5. /\ InNoTitle(titles, "narration")
      /\ InNoTitle(titles, "account_number")
  BY <1>2, <1>3 DEF InNoTitle, LookedFor, OwnTitles
<1> QED BY <1>4, <1>5 DEF titles

LEMMA HDFCTitles ==
    /\ FirstTitle(Titles("hdfc"), "date", 1)
    /\ FirstTitle(Titles("hdfc"), "narration", 2)
    /\ FirstTitle(Titles("hdfc"), "withdrawal_amt", 5)
    /\ FirstTitle(Titles("hdfc"), "deposit_amt", 6)
    /\ FirstTitle(Titles("hdfc"), "closing_balance", 7)
    /\ FirstTitle(Titles("hdfc"), "chq", 3)
    /\ InNoTitle(Titles("hdfc"), "account_number")
<1> DEFINE titles == Titles("hdfc")
<1>1. titles = <<"date", "narration", "chq./ref.no.", "value_dt", "withdrawal_amt.",
               "deposit_amt.", "closing_balance">>
  BY DEF Titles
<1> HIDE DEF titles
<1>2. /\ Len(titles) = 7
      /\ titles[1] = "date"
      /\ titles[2] = "narration"
      /\ titles[3] = "chq./ref.no."
      /\ titles[4] = "value_dt"
      /\ titles[5] = "withdrawal_amt."
      /\ titles[6] = "deposit_amt."
      /\ titles[7] = "closing_balance"
  BY <1>1
<1>3. /\ Words(titles[1]) = {"date"}
      /\ Words(titles[2]) = {"narration"}
      /\ Words(titles[3]) = {"chq"}
      /\ Words(titles[4]) = {"value_dt"}
      /\ Words(titles[5]) = {"withdrawal_amt", "dr"}
      /\ Words(titles[6]) = {"deposit_amt"}
      /\ Words(titles[7]) = {"closing_balance", "balance", "bal"}
  BY <1>2, WordsOfTitles, WordsOfBareTitles DEF Bare
<1>4. /\ FirstTitle(titles, "date", 1)
      /\ FirstTitle(titles, "narration", 2)
      /\ FirstTitle(titles, "withdrawal_amt", 5)
      /\ FirstTitle(titles, "deposit_amt", 6)
      /\ FirstTitle(titles, "closing_balance", 7)
      /\ FirstTitle(titles, "chq", 3)
  BY <1>2, <1>3 DEF FirstTitle, LookedFor, OwnTitles
<1>5. /\ InNoTitle(titles, "account_number")
  BY <1>2, <1>3 DEF InNoTitle, LookedFor, OwnTitles
<1> QED BY <1>4, <1>5 DEF titles

-----------------------------------------------------------------------------
(* The header row *)

\* The order in which the parsers are registered.
LEMMA RegisteredBanks ==
    /\ DOMAIN Registered = 1 .. 5
    /\ Registered[1] = "axis" /\ Registered[2] = "idfc" /\ Registered[3] = "sbi"
    /\ Registered[4] = "icici" /\ Registered[5] = "hdfc"
BY DEF Registered

\* Each bank has its parser.
LEMMA ParserOf ==
    /\ CanParse("axis") <=> AxisCanParse
    /\ CanParse("idfc") <=> IDFCCanParse
    /\ CanParse("sbi") <=> SBICanParse
    /\ CanParse("icici") <=> ICICICanParse
    /\ CanParse("hdfc") <=> HDFCCanParse
BY DEF CanParse

\* The last registered of the parsers that can parse the row is the one detected.
LEMMA DetectLast ==
    ASSUME NEW i \in 1 .. 5, CanParse(Registered[i]),
           \A k \in 1 .. 5 : k > i => ~CanParse(Registered[k])
    PROVE  Detect = Registered[i]
<1> DEFINE able == {k \in DOMAIN Registered : CanParse(Registered[k])}
<1> DEFINE Last(k) == \A m \in able : m <= k
<1>1. i \in able /\ \A k \in able : k <= i BY RegisteredBanks
<1>2. \A k \in able : Last(k) => k = i BY <1>1, RegisteredBanks
<1>3. Detect = Registered[CHOOSE k \in able : Last(k)] BY <1>1 DEF Detect
<1>4. Last(i) BY <1>1
<1> HIDE DEF able, Last
<1>5. (CHOOSE k \in able : Last(k)) = i BY <1>1, <1>2, <1>4
<1> QED BY <1>3, <1>5

\* A row without the title that only one bank prints is nobody's.
LEMMA DetectNothing ==
    ASSUME Untitled(Row) PROVE Detect = None
<1>1. \A w \in OwnTitles : ~Has(w) BY DEF Untitled, Has
<1>2. ~AxisCanParse /\ ~IDFCCanParse /\ ~SBICanParse /\ ~ICICICanParse /\ ~HDFCCanParse
  BY <1>1 DEF OwnTitles, AxisCanParse, IDFCCanParse, SBICanParse, ICICICanParse, HDFCCanParse
<1>3. \A k \in 1 .. 5 : ~CanParse(Registered[k]) BY <1>2, ParserOf, RegisteredBanks
<1> QED BY <1>3, RegisteredBanks DEF Detect

\* The next row is the row of titles.
AtTitles ==
    /\ file.bank \in Banks /\ next + 1 = file.header /\ file.lead \in Nat
    /\ Row \in RowValues /\ TitleRow(file)

\* Its parser is found and takes its columns from it.
Told(b, columns) ==
    /\ Detect = b /\ columns = PrintedColumns(file) /\ ~Has("account_number")

\* What the parser finds in the row of titles.
LEMMA TitleFound ==
    ASSUME AtTitles, Len(Titles(file.bank)) \in Nat, NEW w, NEW p, FirstTitle(Titles(file.bank), w, p)
    PROVE  Has(w) /\ findCol(w) = file.lead + p - 1 /\ findCol(w) >= 0
<1>1. p \in Nat /\ p >= 1 BY DEF FirstTitle
<1>2. HasWord(Row, w) /\ ColumnOf(Row, w) = file.lead + p - 1
  BY TitleColumn DEF AtTitles, Row
<1> QED BY <1>1, <1>2 DEF Has, findCol, AtTitles

LEMMA TitleMissing ==
    ASSUME AtTitles, NEW w, InNoTitle(Titles(file.bank), w) PROVE ~Has(w)
BY NoTitle DEF AtTitles, Row, Has

\* The row of titles of each bank is taken by the parser of that bank, which was asked after
\* those that could have taken it too.
LEMMA AxisTold ==
    ASSUME AtTitles, file.bank = "axis"
    PROVE  Told("axis", AxisCols) /\ Has("tran_date")
<1>1. Len(Titles(file.bank)) \in Nat BY DEF Titles
<1>2. /\ Has("tran_date") /\ findCol("tran_date") = file.lead + 1 - 1
      /\ Has("particulars") /\ findCol("particulars") = file.lead + 3 - 1
      /\ Has("dr") /\ findCol("dr") = file.lead + 4 - 1
      /\ Has("cr") /\ findCol("cr") = file.lead + 5 - 1
      /\ Has("bal") /\ findCol("bal") = file.lead + 6 - 1
      /\ Has("chqno") /\ findCol("chqno") = file.lead + 2 - 1
  BY <1>1, TitleFound, AxisTitles
<1>3. ~Has("payment_type") /\ ~Has("debit") /\ ~Has("transaction_remarks") /\ ~Has("narration") /\ ~Has("account_number")
  BY TitleMissing, AxisTitles
<1>4. Detect = "axis"
  <2>1. CanParse(Registered[1]) /\ Registered[1] = "axis"
    BY <1>2, RegisteredBanks DEF CanParse, AxisCanParse
  <2>2. ~IDFCCanParse /\ ~SBICanParse /\ ~ICICICanParse /\ ~HDFCCanParse
    BY <1>3 DEF IDFCCanParse, SBICanParse, ICICICanParse, HDFCCanParse
  <2>3. \A k \in 1 .. 5 : k > 1 => ~CanParse(Registered[k])
    BY <2>2, ParserOf, RegisteredBanks
  <2> QED BY <2>1, <2>3, DetectLast
<1>5. AxisCols = PrintedColumns(file)
  BY <1>2 DEF AxisCols, PrintedColumns, ColumnsFrom, AtTitles
<1> QED BY <1>2, <1>3, <1>4, <1>5 DEF Told

LEMMA IDFCTold ==
    ASSUME AtTitles, file.bank = "idfc"
    PROVE  Told("idfc", IDFCCols) /\ Has("payment_type")
<1>1. Len(Titles(file.bank)) \in Nat BY DEF Titles
<1>2. /\ Has("date") /\ findCol("date") = file.lead + 1 - 1
      /\ Has("payment_type") /\ findCol("payment_type") = file.lead + 2 - 1
      /\ Has("transaction_description") /\ findCol("transaction_description") = file.lead + 3 - 1
      /\ Has("amount") /\ findCol("amount") = file.lead + 6 - 1
  BY <1>1, TitleFound, IDFCTitles
<1>3. ~Has("debit") /\ ~Has("transaction_remarks") /\ ~Has("narration") /\ ~Has("account_number")
  BY TitleMissing, IDFCTitles
<1>4. Detect = "idfc"
  <2>1. CanParse(Registered[2]) /\ Registered[2] = "idfc"
    BY <1>2, RegisteredBanks DEF CanParse, IDFCCanParse
  <2>2. ~SBICanParse /\ ~ICICICanParse /\ ~HDFCCanParse
    BY <1>3 DEF SBICanParse, ICICICanParse, HDFCCanParse
  <2>3. \A k \in 1 .. 5 : k > 2 => ~CanParse(Registered[k])
    BY <2>2, ParserOf, RegisteredBanks
  <2> QED BY <2>1, <2>3, DetectLast
<1>5. IDFCCols = PrintedColumns(file)
  BY <1>2 DEF IDFCCols, PrintedColumns, ColumnsFrom, AtTitles
<1> QED BY <1>2, <1>3, <1>4, <1>5 DEF Told

LEMMA SBITold ==
    ASSUME AtTitles, file.bank = "sbi"
    PROVE  Told("sbi", SBICols) /\ Has("date") /\ Has("debit") /\ Has("credit")
<1>1. Len(Titles(file.bank)) \in Nat BY DEF Titles
<1>2. /\ Has("date") /\ findCol("date") = file.lead + 1 - 1
      /\ Has("details") /\ findCol("details") = file.lead + 2 - 1
      /\ Has("debit") /\ findCol("debit") = file.lead + 4 - 1
      /\ Has("credit") /\ findCol("credit") = file.lead + 5 - 1
      /\ Has("balance") /\ findCol("balance") = file.lead + 6 - 1
      /\ Has("ref_no") /\ findCol("ref_no") = file.lead + 3 - 1
  BY <1>1, TitleFound, SBITitles
<1>3. ~Has("transaction_remarks") /\ ~Has("narration") /\ ~Has("account_number")
  BY TitleMissing, SBITitles
<1>4. Detect = "sbi"
  <2>1. CanParse(Registered[3]) /\ Registered[3] = "sbi"
    BY <1>2, RegisteredBanks DEF CanParse, SBICanParse
  <2>2. ~ICICICanParse /\ ~HDFCCanParse
    BY <1>3 DEF ICICICanParse, HDFCCanParse
  <2>3. \A k \in 1 .. 5 : k > 3 => ~CanParse(Registered[k])
    BY <2>2, ParserOf, RegisteredBanks
  <2> QED BY <2>1, <2>3, DetectLast
<1>5. SBICols = PrintedColumns(file)
  BY <1>2 DEF SBICols, PrintedColumns, ColumnsFrom, AtTitles
<1> QED BY <1>2, <1>3, <1>4, <1>5 DEF Told

LEMMA ICICITold ==
    ASSUME AtTitles, file.bank = "icici"
    PROVE  Told("icici", ICICICols) /\ ICICICanParse
<1>1. Len(Titles(file.bank)) \in Nat BY DEF Titles
<1>2. /\ Has("transaction_date") /\ findCol("transaction_date") = file.lead + 3 - 1
      /\ Has("transaction_remarks") /\ findCol("transaction_remarks") = file.lead + 5 - 1
      /\ Has("withdrawal_amount") /\ findCol("withdrawal_amount") = file.lead + 6 - 1
      /\ Has("deposit_amount") /\ findCol("deposit_amount") = file.lead + 7 - 1
      /\ Has("balance") /\ findCol("balance") = file.lead + 8 - 1
      /\ Has("cheque_number") /\ findCol("cheque_number") = file.lead + 4 - 1
  BY <1>1, TitleFound, ICICITitles
<1>3. ~Has("narration") /\ ~Has("account_number")
  BY TitleMissing, ICICITitles
<1>4. Detect = "icici"
  <2>1. CanParse(Registered[4]) /\ Registered[4] = "icici"
    BY <1>2, RegisteredBanks DEF CanParse, ICICICanParse
  <2>2. ~HDFCCanParse
    BY <1>3 DEF HDFCCanParse
  <2>3. \A k \in 1 .. 5 : k > 4 => ~CanParse(Registered[k])
    BY <2>2, ParserOf, RegisteredBanks
  <2> QED BY <2>1, <2>3, DetectLast
<1>5. ICICICols = PrintedColumns(file)
  BY <1>2 DEF ICICICols, PrintedColumns, ColumnsFrom, AtTitles, Column
<1> QED BY <1>2, <1>3, <1>4, <1>5 DEF Told, ICICICanParse

LEMMA HDFCTold ==
    ASSUME AtTitles, file.bank = "hdfc"
    PROVE  Told("hdfc", HDFCCols) /\ HDFCCanParse
<1>1. Len(Titles(file.bank)) \in Nat BY DEF Titles
<1>2. /\ Has("date") /\ findCol("date") = file.lead + 1 - 1
      /\ Has("narration") /\ findCol("narration") = file.lead + 2 - 1
      /\ Has("withdrawal_amt") /\ findCol("withdrawal_amt") = file.lead + 5 - 1
      /\ Has("deposit_amt") /\ findCol("deposit_amt") = file.lead + 6 - 1
      /\ Has("closing_balance") /\ findCol("closing_balance") = file.lead + 7 - 1
      /\ Has("chq") /\ findCol("chq") = file.lead + 3 - 1
  BY <1>1, TitleFound, HDFCTitles
<1>3. ~Has("account_number")
  BY TitleMissing, HDFCTitles
<1>4. Detect = "hdfc"
  <2>1. CanParse(Registered[5]) /\ Registered[5] = "hdfc"
    BY <1>2, RegisteredBanks DEF CanParse, HDFCCanParse
  <2>2. \A k \in 1 .. 5 : k > 5 => ~CanParse(Registered[k]) OBVIOUS
  <2> QED BY <2>1, <2>2, DetectLast
<1>5. HDFCCols = PrintedColumns(file)
  BY <1>2 DEF HDFCCols, PrintedColumns, ColumnsFrom, AtTitles, Column
<1> QED BY <1>2, <1>3, <1>4, <1>5 DEF Told, HDFCCanParse

-----------------------------------------------------------------------------
(* The account number *)

\* A cell has a number, if only the 0 of an empty one.
LEMMA CellNumber == \A row \in RowValues : \A i : CellOf(row, i).n \in Int
<1> SUFFICES ASSUME NEW row \in RowValues, NEW i PROVE CellOf(row, i).n \in Int OBVIOUS
<1>1. row.cells \in Seq(CellValues) BY DEF RowValues
<1>2. CASE i \in 0 .. Len(row.cells) - 1
  <2>1. i + 1 \in 1 .. Len(row.cells) BY <1>1, <1>2
  <2>2. row.cells[i + 1] \in CellValues BY <1>1, <2>1
  <2>3. row.cells[i + 1].n \in Int BY <2>2 DEF CellValues
  <2> QED BY <1>2, <2>3 DEF CellOf
<1>3. CASE i \notin 0 .. Len(row.cells) - 1 BY <1>3 DEF CellOf, Nothing
<1> QED BY <1>2, <1>3

\* An empty cell is no account number.
LEMMA NothingSaysNothing == ~Contains(Nothing, "account_number")
<1>1. Words(NoText) = {NoText} BY WordsOfBareTitles DEF Bare
<1> QED BY <1>1 DEF Contains, Nothing, NoText

\* A row that does not have the words has no cell that has them.
LEMMA NotInCell ==
    ASSUME NEW row \in RowValues, ~HasWord(row, "account_number"), NEW i
    PROVE  ~Contains(CellOf(row, i), "account_number")
<1>1. row.cells \in Seq(CellValues) BY DEF RowValues
<1>2. CASE i \in 0 .. Len(row.cells) - 1
  <2>1. i + 1 \in DOMAIN row.cells BY <1>1, <1>2
  <2> QED BY <1>2, <2>1 DEF CellOf, HasWord
<1>3. CASE i \notin 0 .. Len(row.cells) - 1 BY <1>3, NothingSaysNothing DEF CellOf
<1> QED BY <1>2, <1>3

\* A row without the words does not say the account number.
LEMMA SilentRow ==
    ASSUME NEW f, NEW j, f.rows[j] \in RowValues, ~HasWord(f.rows[j], "account_number")
    PROVE  ~SaysAccount(f, j)
<1>1. \A i : ~Contains(CellOf(f.rows[j], i), "account_number") BY NotInCell
<1> QED BY <1>1, NothingSaysNothing DEF SaysAccount, AccountCell

LEMMA NoCellsSilent ==
    ASSUME NEW row \in RowValues, row.cells = <<>>, NEW w PROVE ~HasWord(row, w)
BY DEF HasWord

LEMMA AccountNumberType ==
    ASSUME NEW f, f.rows \in Seq(RowValues), NEW j \in 1 .. Len(f.rows)
    PROVE  AccountCell(f, j).n \in Int
<1>1. f.rows[j] \in RowValues OBVIOUS
<1>2. \A i : CellOf(f.rows[j], i).n \in Int BY <1>1, CellNumber
<1> QED BY <1>2 DEF AccountCell, Nothing

\* The first row that says an account number decides; the rows after it do not matter.
LEMMA AccountStays ==
    ASSUME NEW f, NEW k \in Nat, NEW a, AccountIn(f, k, a), ~SaysAccount(f, k + 1) \/ a # None
    PROVE  AccountIn(f, k + 1, a)
<1>1. CASE a # None
  <2>1. PICK j \in 1 .. k : /\ SaysAccount(f, j) /\ a = AccountCell(f, j).n
                            /\ \A i \in 1 .. j - 1 : ~SaysAccount(f, i)
    BY <1>1 DEF AccountIn
  <2>2. j \in 1 .. k + 1 OBVIOUS
  <2> QED BY <2>1, <2>2 DEF AccountIn
<1>2. CASE a = None /\ \A j \in 1 .. k : ~SaysAccount(f, j)
  <2>1. ~SaysAccount(f, k + 1) BY <1>2
  <2>2. \A j \in 1 .. k + 1 : j \in 1 .. k \/ j = k + 1 OBVIOUS
  <2> QED BY <1>2, <2>1, <2>2 DEF AccountIn
<1>3. CASE \E j \in 1 .. k : /\ SaysAccount(f, j) /\ a = AccountCell(f, j).n
                             /\ \A i \in 1 .. j - 1 : ~SaysAccount(f, i)
  <2>1. PICK j \in 1 .. k : /\ SaysAccount(f, j) /\ a = AccountCell(f, j).n
                            /\ \A i \in 1 .. j - 1 : ~SaysAccount(f, i)
    BY <1>3
  <2>2. j \in 1 .. k + 1 OBVIOUS
  <2> QED BY <2>1, <2>2 DEF AccountIn
<1> QED BY <1>1, <1>2, <1>3 DEF AccountIn

LEMMA AccountFound ==
    ASSUME NEW f, NEW k \in Nat, \A j \in 1 .. k : ~SaysAccount(f, j), SaysAccount(f, k + 1)
    PROVE  AccountIn(f, k + 1, AccountCell(f, k + 1).n)
<1>1. k + 1 \in 1 .. k + 1 /\ (k + 1) - 1 = k OBVIOUS
<1> QED BY <1>1 DEF AccountIn

\* As long as there is none, no row has said one.
LEMMA NoneYet ==
    ASSUME NEW f, f.rows \in Seq(RowValues), NEW k \in 0 .. Len(f.rows), AccountIn(f, k, None)
    PROVE  \A j \in 1 .. k : ~SaysAccount(f, j)
<1>1. ASSUME NEW j \in 1 .. k PROVE None # AccountCell(f, j).n
  <2>1. j \in 1 .. Len(f.rows) OBVIOUS
  <2> QED BY <2>1, AccountNumberType, FilesAssumption
<1> QED BY <1>1 DEF AccountIn

\* There is one first account number.
LEMMA OneAccount ==
    ASSUME NEW f, f.rows \in Seq(RowValues), NEW k \in 0 .. Len(f.rows), NEW a, NEW b,
           AccountIn(f, k, a), AccountIn(f, k, b)
    PROVE  a = b
<1>1. CASE a = None \/ b = None
  <2>1. \A j \in 1 .. k : ~SaysAccount(f, j) BY <1>1, NoneYet
  <2> QED BY <2>1 DEF AccountIn
<1>2. CASE a # None /\ b # None
  <2>1. PICK i \in 1 .. k : /\ SaysAccount(f, i) /\ a = AccountCell(f, i).n
                            /\ \A m \in 1 .. i - 1 : ~SaysAccount(f, m)
    BY <1>2 DEF AccountIn
  <2>2. PICK j \in 1 .. k : /\ SaysAccount(f, j) /\ b = AccountCell(f, j).n
                            /\ \A m \in 1 .. j - 1 : ~SaysAccount(f, m)
    BY <1>2 DEF AccountIn
  <2>3. ~(i < j) /\ ~(j < i)
    <3>1. i < j => i \in 1 .. j - 1 OBVIOUS
    <3>2. j < i => j \in 1 .. i - 1 OBVIOUS
    <3> QED BY <3>1, <3>2, <2>1, <2>2
  <2>4. i = j BY <2>3
  <2> QED BY <2>1, <2>2, <2>4
<1> QED BY <1>1, <1>2

-----------------------------------------------------------------------------
(* Rows above the header *)

\* The next row is above the header, and the rows before it have been looked at.
AtTop ==
    /\ file.rows \in Seq(RowValues) /\ next \in Nat /\ next < Len(file.rows)
    /\ Row.kind # "row" => Row.cells = <<>>
    /\ cols = None /\ AccountIn(file, next, account)

LEMMA TopRow == AtTop => /\ Row \in RowValues /\ Row = file.rows[next + 1]
                         /\ next + 1 \in 1 .. Len(file.rows) /\ next \in 0 .. Len(file.rows)
BY DEF AtTop, Row

\* The row is looked at for an account number; the first one is kept.
LEMMA AxisAccount ==
    ASSUME AtTop, file.bank = "axis", extractAxisMeta
    PROVE  AccountIn(file, next + 1, account')
<1>1. next \in Nat /\ AccountIn(file, next, account) BY DEF AtTop
<1>2. SaysAccount(file, next + 1) <=> Has("account_number") BY TopRow DEF SaysAccount, Has
<1>3. CASE Has("account_number") /\ account = None
  <2>1. account' = AccountCell(file, next + 1).n
    BY <1>3, TopRow DEF AtTop, extractAxisMeta, AccountCell, Cell, findCol
  <2>2. \A j \in 1 .. next : ~SaysAccount(file, j) BY <1>1, <1>3, TopRow, NoneYet DEF AtTop
  <2> QED BY <1>1, <1>2, <1>3, <2>1, <2>2, AccountFound
<1>4. CASE ~Has("account_number") \/ account # None
  <2>1. account' = account BY <1>4 DEF extractAxisMeta
  <2> QED BY <1>1, <1>2, <1>4, <2>1, AccountStays
<1> QED BY <1>3, <1>4

LEMMA SBIAccount ==
    ASSUME AtTop, file.bank = "sbi", extractSBIMeta
    PROVE  AccountIn(file, next + 1, account')
<1> DEFINE said == next \in 1 .. 17 /\ Contains(Cell(1), "account_number")
<1>1. next \in Nat /\ AccountIn(file, next, account) BY DEF AtTop
<1>2. next \in 1 .. 17 <=> next + 1 \in 2 .. 18 BY <1>1
<1>3. AccountCell(file, next + 1) = IF next \in 1 .. 17 THEN Cell(1) ELSE Nothing
  BY <1>2, TopRow DEF AccountCell, Cell
<1>4. SaysAccount(file, next + 1) <=> said BY <1>3, NothingSaysNothing DEF SaysAccount
<1>5. CASE said /\ account = None
  <2>1. account' = AccountCell(file, next + 1).n BY <1>3, <1>5 DEF extractSBIMeta
  <2>2. \A j \in 1 .. next : ~SaysAccount(file, j) BY <1>1, <1>5, TopRow, NoneYet DEF AtTop
  <2> QED BY <1>1, <1>4, <1>5, <2>1, <2>2, AccountFound
<1>6. CASE ~said \/ account # None
  <2>1. account' = account BY <1>6 DEF extractSBIMeta
  <2> QED BY <1>1, <1>4, <1>6, <2>1, AccountStays
<1> QED BY <1>5, <1>6

\* ICICI and HDFC look at one row only.
LEMMA ICICIAccount ==
    ASSUME AtTop, file.bank = "icici", extractICICIMeta
    PROVE  AccountIn(file, next + 1, account')
<1> DEFINE said == next = 3 /\ Contains(Cell(3), "account_number")
<1>1. next \in Nat /\ AccountIn(file, next, account) BY DEF AtTop
<1>2. AccountCell(file, next + 1) = IF next = 3 THEN Cell(3) ELSE Nothing
  BY <1>1, TopRow DEF AccountCell, Cell
<1>3. SaysAccount(file, next + 1) <=> said BY <1>2, NothingSaysNothing DEF SaysAccount
<1>4. CASE said
  <2>1. account' = AccountCell(file, next + 1).n BY <1>2, <1>4 DEF extractICICIMeta, AtTop
  <2>2. ASSUME NEW j \in 1 .. next PROVE ~SaysAccount(file, j)
    <3>1. j # 4 BY <1>4
    <3> QED BY <3>1, NothingSaysNothing DEF SaysAccount, AccountCell
  <2> QED BY <1>1, <1>3, <1>4, <2>1, <2>2, AccountFound
<1>5. CASE ~said
  <2>1. account' = account BY <1>5 DEF extractICICIMeta
  <2> QED BY <1>1, <1>3, <1>5, <2>1, AccountStays
<1> QED BY <1>4, <1>5

LEMMA HDFCAccount ==
    ASSUME AtTop, file.bank = "hdfc", extractHDFCField
    PROVE  AccountIn(file, next + 1, account')
<1> DEFINE said == next = 14 /\ Contains(Cell(4), "account_number")
<1>1. next \in Nat /\ AccountIn(file, next, account) BY DEF AtTop
<1>2. AccountCell(file, next + 1) = IF next = 14 THEN Cell(4) ELSE Nothing
  BY <1>1, TopRow DEF AccountCell, Cell
<1>3. SaysAccount(file, next + 1) <=> said BY <1>2, NothingSaysNothing DEF SaysAccount
<1>4. CASE said
  <2>1. account' = AccountCell(file, next + 1).n BY <1>2, <1>4 DEF extractHDFCField, AtTop
  <2>2. ASSUME NEW j \in 1 .. next PROVE ~SaysAccount(file, j)
    <3>1. j # 15 BY <1>4
    <3> QED BY <3>1, NothingSaysNothing DEF SaysAccount, AccountCell
  <2> QED BY <1>1, <1>3, <1>4, <2>1, <2>2, AccountFound
<1>5. CASE ~said
  <2>1. account' = account BY <1>5 DEF extractHDFCField
  <2> QED BY <1>1, <1>3, <1>5, <2>1, AccountStays
<1> QED BY <1>4, <1>5

\* A row that is not looked at for an account number has none.
LEMMA AccountPassed ==
    ASSUME AtTop, Row.kind # "row" \/ file.bank = "idfc", UNCHANGED account
    PROVE  AccountIn(file, next + 1, account')
<1>1. ~SaysAccount(file, next + 1)
  <2>1. CASE Row.kind # "row" BY <2>1, TopRow, NoCellsSilent, SilentRow DEF AtTop
  <2>2. CASE file.bank = "idfc" BY <2>2, NothingSaysNothing DEF SaysAccount, AccountCell
  <2> QED BY <2>1, <2>2
<1> QED BY <1>1, AccountStays DEF AtTop

\* What a row can do to the statement read so far.
Passes == next' = next + 1 /\ UNCHANGED <<file, step, bank, cols, out>>
Takes(e) == next' = next + 1 /\ out' = Append(out, e) /\ UNCHANGED <<file, step, bank, cols, account>>
Ends(results) == step' \in results /\ UNCHANGED <<file, bank, next, cols, account, out>>
Breaks ==
    /\ Ends({"failed", "crashed"})
    /\ \/ Row.kind = "broken" /\ bank \in {"axis", "idfc", "icici"}
       \/ bank = "axis" /\ cols = None /\ AxisPanics
       \/ bank = "sbi" /\ SBIPanics

ParserRow == AxisRow \/ IDFCRow \/ SBIRow \/ ICICIRow \/ HDFCRow

\* A row above the header is passed, or cannot be read.
LEMMA TopStep ==
    ASSUME AtTop, Untitled(Row), bank = file.bank, ParserRow
    PROVE  Breaks \/ (Passes /\ AccountIn(file, next + 1, account'))
<1>1. \A w \in OwnTitles : ~Has(w) BY DEF Untitled, Has
<1>2. ~Has("tran_date") /\ ~Has("payment_type") /\ ~Has("debit") /\ ~ICICICanParse /\ ~HDFCCanParse
  BY <1>1 DEF OwnTitles, ICICICanParse, HDFCCanParse
<1>3. CASE AxisRow
  <2>1. CASE Row.kind = "broken"
    BY <1>3, <2>1 DEF AxisRow, Reading, Stop, Ends, Breaks
  <2>2. CASE Row.kind = "row" /\ ~AxisPanics
    <3>1. extractAxisMeta /\ Skip /\ Reading("axis") BY <1>2, <1>3, <2>2 DEF AxisRow, AtTop
    <3> QED BY <3>1, AxisAccount DEF Reading, Skip, Passes
  <2>3. CASE Row.kind = "row" /\ AxisPanics
    BY <1>3, <2>3 DEF AxisRow, AtTop, Reading, Stop, Ends, Breaks
  <2> QED BY <1>3, <2>1, <2>2, <2>3 DEF AxisRow
<1>4. CASE IDFCRow
  <2>1. CASE Row.kind = "broken"
    BY <1>4, <2>1 DEF IDFCRow, Reading, Stop, Ends, Breaks
  <2>2. CASE Row.kind = "row"
    <3>1. UNCHANGED account /\ Skip /\ Reading("idfc") BY <1>2, <1>4, <2>2 DEF IDFCRow, AtTop
    <3> QED BY <3>1, AccountPassed DEF Reading, Skip, Passes
  <2> QED BY <1>4, <2>1, <2>2 DEF IDFCRow
<1>5. CASE SBIRow
  <2>1. CASE ~SBIPanics
    <3>1. extractSBIMeta /\ Skip /\ Reading("sbi") BY <1>2, <1>5, <2>1 DEF SBIRow, AtTop
    <3> QED BY <3>1, SBIAccount DEF Reading, Skip, Passes
  <2>2. CASE SBIPanics BY <1>5, <2>2 DEF SBIRow, Reading, Stop, Ends, Breaks
  <2> QED BY <2>1, <2>2
<1>6. CASE ICICIRow
  <2>1. CASE Row.kind = "broken"
    BY <1>6, <2>1 DEF ICICIRow, Reading, Stop, Ends, Breaks
  <2>2. CASE Row.kind = "none"
    <3>1. UNCHANGED account /\ Skip /\ Reading("icici") BY <1>6, <2>2 DEF ICICIRow
    <3> QED BY <3>1, <2>2, AccountPassed DEF Reading, Skip, Passes
  <2>3. CASE Row.kind = "row"
    <3>1. extractICICIMeta /\ Skip /\ Reading("icici") BY <1>2, <1>6, <2>3 DEF ICICIRow, AtTop
    <3> QED BY <3>1, ICICIAccount DEF Reading, Skip, Passes
  <2> QED BY <1>6, <2>1, <2>2, <2>3 DEF ICICIRow
<1>7. CASE HDFCRow
  <2>1. CASE Row.kind # "row"
    <3>1. UNCHANGED account /\ Skip /\ Reading("hdfc") BY <1>7, <2>1 DEF HDFCRow
    <3> QED BY <3>1, <2>1, AccountPassed DEF Reading, Skip, Passes
  <2>2. CASE Row.kind = "row"
    <3>1. extractHDFCField /\ Skip /\ Reading("hdfc") BY <1>2, <1>7, <2>2 DEF HDFCRow, AtTop
    <3> QED BY <3>1, HDFCAccount DEF Reading, Skip, Passes
  <2> QED BY <2>1, <2>2
<1> QED BY <1>3, <1>4, <1>5, <1>6, <1>7 DEF ParserRow

\* The row of titles gives the columns, and no account number; beside them there may be a
\* heading with nothing after it.
Titled == /\ next' = next + 1 /\ cols' = PrintedColumns(file)
          /\ UNCHANGED <<file, step, bank, account, out>>
LEMMA TitleStep ==
    ASSUME AtTop, AtTitles, bank = file.bank, ParserRow
    PROVE  Breaks \/ Titled
<1>1. Row.kind = "row" /\ Row \in RowValues BY DEF AtTitles, TitleRow, Row
<1>2. ~Has("account_number") => \A i : ~Contains(Cell(i), "account_number")
  BY <1>1, NotInCell DEF Has, Cell
<1>3. CASE AxisRow
  <2>1. Told("axis", AxisCols) /\ Has("tran_date") BY <1>3, AxisTold DEF AxisRow, Reading
  <2>2. CASE ~AxisPanics
    <3>1. extractAxisMeta /\ Header(AxisCols) /\ Reading("axis")
      BY <1>1, <1>3, <2>1, <2>2 DEF AxisRow, AtTop
    <3> QED BY <2>1, <3>1 DEF Told, extractAxisMeta, Header, Reading, Titled
  <2>3. CASE AxisPanics
    BY <1>1, <1>3, <2>3 DEF AxisRow, AtTop, Reading, Stop, Ends, Breaks
  <2> QED BY <2>2, <2>3
<1>4. CASE IDFCRow
  <2>1. Told("idfc", IDFCCols) /\ Has("payment_type") BY <1>4, IDFCTold DEF IDFCRow, Reading
  <2>2. UNCHANGED account /\ Header(IDFCCols) /\ Reading("idfc")
    BY <1>1, <1>4, <2>1 DEF IDFCRow, AtTop
  <2> QED BY <2>1, <2>2 DEF Told, Header, Reading, Titled
<1>5. CASE SBIRow
  <2>1. Told("sbi", SBICols) /\ Has("date") /\ Has("debit") /\ Has("credit")
    BY <1>5, SBITold DEF SBIRow, Reading
  <2>2. CASE ~SBIPanics
    <3>1. extractSBIMeta /\ Header(SBICols) /\ Reading("sbi")
      BY <1>5, <2>1, <2>2 DEF SBIRow, AtTop
    <3> QED BY <1>2, <2>1, <3>1 DEF Told, extractSBIMeta, Header, Reading, Titled
  <2>3. CASE SBIPanics BY <1>5, <2>3 DEF SBIRow, Reading, Stop, Ends, Breaks
  <2> QED BY <2>2, <2>3
<1>6. CASE ICICIRow
  <2>1. Told("icici", ICICICols) /\ ICICICanParse BY <1>6, ICICITold DEF ICICIRow, Reading
  <2>2. extractICICIMeta /\ Header(ICICICols) /\ Reading("icici")
    BY <1>1, <1>6, <2>1 DEF ICICIRow, AtTop
  <2> QED BY <1>2, <2>1, <2>2 DEF Told, extractICICIMeta, Header, Reading, Titled
<1>7. CASE HDFCRow
  <2>1. Told("hdfc", HDFCCols) /\ HDFCCanParse BY <1>7, HDFCTold DEF HDFCRow, Reading
  <2>2. extractHDFCField /\ Header(HDFCCols) /\ Reading("hdfc")
    BY <1>1, <1>7, <2>1 DEF HDFCRow, AtTop
  <2> QED BY <1>2, <2>1, <2>2 DEF Told, extractHDFCField, Header, Reading, Titled
<1> QED BY <1>3, <1>4, <1>5, <1>6, <1>7 DEF ParserRow

-----------------------------------------------------------------------------
(* Rows below the header *)

\* The columns have been read from the row of titles.
UnderTitles ==
    /\ file.bank \in Banks /\ bank = file.bank /\ file.lead \in Nat
    /\ cols = PrintedColumns(file) /\ cols # None
    /\ Row \in RowValues /\ (Row.kind # "row" => Row.cells = <<>>)
    /\ next \in Nat /\ (file.bank = "sbi" => next >= 18)

\* SBI's headings are above.
LEMMA NoHeading == ASSUME UnderTitles, file.bank = "sbi" PROVE ~SBIPanics
BY DEF UnderTitles, SBIPanics

\* The columns of one bank, by name.
LEMMA ColumnsUsed ==
    ASSUME UnderTitles
    PROVE  /\ cols.date = PrintedColumns(file).date
           /\ cols.desc = PrintedColumns(file).desc
           /\ cols.debit = PrintedColumns(file).debit
           /\ file.bank # "idfc" => /\ cols.credit = PrintedColumns(file).credit
                                    /\ cols.balance = PrintedColumns(file).balance
                                    /\ cols.balance \in Nat
                                    /\ cols.ref = PrintedColumns(file).ref
<1>1. cols = PrintedColumns(file) BY DEF UnderTitles
<1>2. ASSUME file.bank # "idfc" PROVE PrintedColumns(file).balance \in Nat
  <2>1. file.lead \in Nat /\ file.bank \in Banks BY DEF UnderTitles
  <2>2. CASE file.bank = "axis" BY <2>1, <2>2 DEF PrintedColumns, ColumnsFrom
  <2>3. CASE file.bank = "sbi" BY <2>1, <2>3 DEF PrintedColumns, ColumnsFrom
  <2>4. CASE file.bank = "icici" BY <2>1, <2>4 DEF PrintedColumns, ColumnsFrom
  <2>5. CASE file.bank = "hdfc" BY <2>1, <2>5 DEF PrintedColumns, ColumnsFrom
  <2> QED BY <1>2, <2>1, <2>2, <2>3, <2>4, <2>5 DEF Banks
<1> QED BY <1>1, <1>2

\* An amount in the column of its side is what the parser books.
LEMMA AmountBooked ==
    ASSUME UnderTitles, file.bank # "idfc", NEW e \in EntryValues, AmountPrinted(file, Row, e)
    PROVE  /\ Booked.n = e.amount /\ Booked.n # 0 /\ IsAmount(Booked) /\ Filled(Booked)
           /\ (IF Debit THEN "debit" ELSE "credit") = e.dir
<1>1. e.amount \in Nat \ {0} /\ e.dir \in {"debit", "credit"} BY DEF EntryValues
<1>2. CASE e.dir = "debit"
  <2>1. Amount(Cell(cols.debit), e.amount) BY <1>2, ColumnsUsed DEF AmountPrinted, Cell
  <2>2. Debit BY <2>1 DEF Amount, Debit, Filled, NoText
  <2> QED BY <1>1, <1>2, <2>1, <2>2 DEF Amount, Booked, IsAmount, Filled, NoText
<1>3. CASE e.dir = "credit"
  <2>1. Amount(Cell(cols.credit), e.amount) /\ Vacant(Cell(cols.debit))
    BY <1>3, ColumnsUsed DEF AmountPrinted, Cell
  <2>2. ~Debit BY <2>1 DEF Vacant, Debit, Filled
  <2> QED BY <1>1, <1>3, <2>1, <2>2 DEF Amount, Booked, IsAmount, Filled, NoText
<1> QED BY <1>1, <1>2, <1>3

\* A row with nothing in either column books nothing.
LEMMA NothingBooked ==
    ASSUME UnderTitles, file.bank # "idfc", Unbooked(file, Row)
    PROVE  IsDate(Cell(cols.date)) /\ ~Filled(Booked) /\ ~(IsAmount(Booked) /\ Booked.n # 0)
<1>1. /\ Vacant(Cell(cols.debit)) /\ Vacant(Cell(cols.credit)) /\ Cell(cols.date).text = "date"
  BY ColumnsUsed DEF Unbooked, Cell
<1>2. Vacant(Booked) BY <1>1 DEF Booked
<1> QED BY <1>1, <1>2 DEF Vacant, IsDate, Filled, IsAmount, NoText

\* An entry is the record of its fields.
LEMMA EntryRecord ==
    ASSUME NEW e \in EntryValues
    PROVE  e = [date |-> e.date, desc |-> e.desc, ref |-> e.ref, balance |-> e.balance,
                amount |-> e.amount, dir |-> e.dir]
BY DEF EntryValues

\* The line of an entry reads as that entry.
LEMMA LineRead ==
    ASSUME UnderTitles, file.bank # "idfc", NEW e \in EntryValues, Line(file, Row, e)
    PROVE  Row.kind = "row" /\ IsDate(Cell(cols.date)) /\ Transaction(e.ref) = e
<1>1. /\ Row.kind = "row" /\ Cell(cols.date).text = "date" /\ Cell(cols.date).n = e.date
      /\ Cell(cols.desc).text = e.desc
  BY ColumnsUsed DEF Line, Cell
<1>2. AmountPrinted(file, Row, e) /\ BalancePrinted(file, Row, e) BY DEF Line
<1>3. Balance = e.balance
  <2>1. cols.balance >= 0 BY ColumnsUsed
  <2>2. IF e.balance = None THEN ~IsAmount(Cell(cols.balance))
        ELSE IsAmount(Cell(cols.balance)) /\ Cell(cols.balance).n = e.balance
    BY <1>2, ColumnsUsed DEF BalancePrinted, Cell
  <2> QED BY <2>1, <2>2 DEF Balance
<1> QED BY <1>1, <1>2, <1>3, AmountBooked, EntryRecord DEF IsDate, Transaction

\* The line of an entry is taken, by the parser of each bank.
LEMMA AxisLine ==
    ASSUME UnderTitles, AxisRow, NEW e \in EntryValues, Line(file, Row, e)
    PROVE  Takes(e)
<1>1. Reading("axis") /\ file.bank = "axis" BY DEF AxisRow, Reading, UnderTitles
<1>2. /\ Row.kind = "row" /\ IsDate(Cell(cols.date)) /\ Transaction(e.ref) = e
      /\ Filled(Booked) /\ IsAmount(Booked)
  BY <1>1, LineRead, AmountBooked DEF Line
<1>3. ~IsEmpty(Cell(0)) /\ ~AxisFooter BY <1>1, <1>2 DEF Line, IsEmpty, AxisFooter, Cell
<1>4. (IF Cell(cols.ref).text = "-" THEN NoText ELSE Cell(cols.ref).text) = e.ref
  <2>1. /\ e.ref # "-"
        /\ Cell(cols.ref).text = e.ref \/ (e.ref = NoText /\ Cell(cols.ref).text = "-")
    BY <1>1, ColumnsUsed DEF Line, RefPrinted, Cell
  <2> QED BY <2>1
<1>5. extractAxisMeta /\ Take(e) BY <1>2, <1>3, <1>4 DEF AxisRow, UnderTitles
<1> QED BY <1>1, <1>5 DEF extractAxisMeta, UnderTitles, Take, Reading, Takes

LEMMA IDFCLine ==
    ASSUME UnderTitles, IDFCRow, NEW e \in EntryValues, Line(file, Row, e)
    PROVE  Takes(e)
<1>1. Reading("idfc") /\ file.bank = "idfc" BY DEF IDFCRow, Reading, UnderTitles
<1>2. /\ Row.kind = "row" /\ Cell(cols.date).text = "date" /\ Cell(cols.date).n = e.date
      /\ Cell(cols.desc).text = e.desc
  BY ColumnsUsed DEF Line, Cell
<1>3. /\ Amount(Cell(cols.debit), IF e.dir = "debit" THEN -e.amount ELSE e.amount)
      /\ e.ref = NoText /\ e.balance = None
  BY <1>1, ColumnsUsed DEF Line, SignedPrinted, Cell
<1>4. IDFCTransaction = e
  <2>1. e.amount \in Nat \ {0} /\ e.dir \in {"debit", "credit"} BY DEF EntryValues
  <2>2. CASE e.dir = "debit"
    <3>1. Cell(cols.debit).n = -e.amount /\ Cell(cols.debit).n < 0 /\ -Cell(cols.debit).n = e.amount
      BY <1>3, <2>1, <2>2 DEF Amount
    <3> QED BY <1>2, <1>3, <2>2, <3>1, EntryRecord DEF IDFCTransaction
  <2>3. CASE e.dir = "credit"
    <3>1. Cell(cols.debit).n = e.amount /\ ~(Cell(cols.debit).n < 0)
      BY <1>3, <2>1, <2>3 DEF Amount
    <3> QED BY <1>2, <1>3, <2>3, <3>1, EntryRecord DEF IDFCTransaction
  <2> QED BY <2>1, <2>2, <2>3
<1>5. Take(e) /\ UNCHANGED account
  BY <1>2, <1>3, <1>4 DEF IDFCRow, UnderTitles, IsDate, IsAmount, Amount
<1> QED BY <1>1, <1>5 DEF Take, Reading, Takes

\* SBI, ICICI and HDFC.
LEMMA LineTaken ==
    ASSUME UnderTitles, file.bank \in {"sbi", "icici", "hdfc"}, NEW e \in EntryValues,
           Line(file, Row, e), TakeUnlessZero
    PROVE  Take(e)
<1>1. Cell(cols.ref).text = e.ref BY ColumnsUsed DEF Line, RefPrinted, Cell
<1>2. Transaction(e.ref) = e /\ IsAmount(Booked) /\ Booked.n # 0
  BY LineRead, AmountBooked DEF Line
<1> QED BY <1>1, <1>2 DEF TakeUnlessZero

LEMMA SBILine ==
    ASSUME UnderTitles, SBIRow, NEW e \in EntryValues, Line(file, Row, e)
    PROVE  Takes(e)
<1>1. Reading("sbi") /\ file.bank = "sbi" BY DEF SBIRow, Reading, UnderTitles
<1>2. IsDate(Cell(cols.date)) BY <1>1, LineRead
<1>3. extractSBIMeta /\ TakeUnlessZero
  BY <1>1, <1>2, NoHeading DEF SBIRow, UnderTitles, IsDate, IsEmpty, NoText
<1>4. Take(e) BY <1>1, <1>3, LineTaken
<1>5. UNCHANGED account BY <1>1, <1>3 DEF extractSBIMeta, UnderTitles
<1> QED BY <1>1, <1>4, <1>5 DEF Take, Reading, Takes

LEMMA ICICILine ==
    ASSUME UnderTitles, ICICIRow, NEW e \in EntryValues, Line(file, Row, e)
    PROVE  Takes(e)
<1>1. Reading("icici") /\ file.bank = "icici" BY DEF ICICIRow, Reading, UnderTitles
<1>2. /\ Row.kind = "row" /\ IsDate(Cell(cols.date)) /\ ~Contains(Cell(1), "legend")
  BY <1>1, LineRead DEF Line, Cell
<1>3. UNCHANGED account /\ TakeUnlessZero BY <1>2 DEF ICICIRow, UnderTitles
<1>4. Take(e) BY <1>1, <1>3, LineTaken
<1> QED BY <1>1, <1>3, <1>4 DEF Take, Reading, Takes

LEMMA HDFCLine ==
    ASSUME UnderTitles, HDFCRow, NEW e \in EntryValues, Line(file, Row, e)
    PROVE  Takes(e)
<1>1. Reading("hdfc") /\ file.bank = "hdfc" BY DEF HDFCRow, Reading, UnderTitles
<1>2. Row.kind = "row" /\ IsDate(Cell(cols.date)) BY <1>1, LineRead
<1>3. UNCHANGED account /\ TakeUnlessZero BY <1>2 DEF HDFCRow, UnderTitles
<1>4. Take(e) BY <1>1, <1>3, LineTaken
<1> QED BY <1>1, <1>3, <1>4 DEF Take, Reading, Takes

\* Whatever the bank.
LEMMA LineStep ==
    ASSUME UnderTitles, ParserRow, NEW e \in EntryValues, Line(file, Row, e)
    PROVE  Takes(e)
BY AxisLine, IDFCLine, SBILine, ICICILine, HDFCLine DEF ParserRow

\* A row between the entries is passed, or cannot be read.
PassesOrBreaks == (Passes /\ UNCHANGED account) \/ Breaks

LEMMA AxisFiller ==
    ASSUME UnderTitles, AxisRow, Filler(file, Row) PROVE PassesOrBreaks
<1>1. Reading("axis") /\ file.bank = "axis" BY DEF AxisRow, Reading, UnderTitles
<1>2. CASE Row.kind = "broken" BY <1>1, <1>2 DEF AxisRow, Reading, Stop, Ends, Breaks, PassesOrBreaks
<1>3. CASE Row.kind = "row"
  <2>1. Cell(0).text = NoText \/ Unbooked(file, Row) BY <1>1, <1>3 DEF Filler, Cell
  <2>2. IsEmpty(Cell(0)) \/ (IsDate(Cell(cols.date)) /\ ~Filled(Booked))
    BY <1>1, <2>1, NothingBooked DEF IsEmpty
  <2>3. ~AxisFooter BY <2>2 DEF AxisFooter
  <2>4. extractAxisMeta /\ Skip BY <1>3, <2>2, <2>3 DEF AxisRow, UnderTitles
  <2> QED BY <1>1, <2>4 DEF extractAxisMeta, UnderTitles, Skip, Reading, Passes, PassesOrBreaks
<1> QED BY <1>2, <1>3 DEF AxisRow

LEMMA IDFCFiller ==
    ASSUME UnderTitles, IDFCRow, Filler(file, Row) PROVE PassesOrBreaks
<1>1. Reading("idfc") /\ file.bank = "idfc" /\ UNCHANGED account
  BY DEF IDFCRow, Reading, UnderTitles
<1>2. CASE Row.kind = "broken" BY <1>1, <1>2 DEF IDFCRow, Reading, Stop, Ends, Breaks, PassesOrBreaks
<1>3. CASE Row.kind = "row"
  <2>1. ~IsDate(Cell(cols.date)) \/ ~IsAmount(Cell(cols.debit))
    BY <1>1, <1>3, ColumnsUsed DEF Filler, Undated, Cell, IsDate
  <2>2. Skip BY <1>3, <2>1 DEF IDFCRow, UnderTitles
  <2> QED BY <1>1, <2>2 DEF Skip, Reading, Passes, PassesOrBreaks
<1> QED BY <1>2, <1>3 DEF IDFCRow

\* A row that is missing has no date.
LEMMA NoRowNoDate ==
    ASSUME UnderTitles, Row.kind # "row" PROVE \A i : Cell(i) = Nothing
BY DEF UnderTitles, Cell, CellOf

LEMMA SBIFiller ==
    ASSUME UnderTitles, SBIRow, Filler(file, Row) PROVE PassesOrBreaks
<1>0. Reading("sbi") /\ file.bank = "sbi" BY DEF SBIRow, Reading, UnderTitles
<1>1. Reading("sbi") /\ file.bank = "sbi" /\ extractSBIMeta /\ ~SBIPanics
  BY <1>0, NoHeading DEF SBIRow
<1>2. UNCHANGED account BY <1>1 DEF extractSBIMeta, UnderTitles
<1>3. \/ IsEmpty(Cell(cols.date))
      \/ IsDate(Cell(cols.date)) /\ ~(IsAmount(Booked) /\ Booked.n # 0)
  <2>1. CASE Row.kind # "row" BY <2>1, NoRowNoDate DEF Nothing, IsEmpty
  <2>2. CASE Row.kind = "row"
    <3>1. Cell(cols.date).text = NoText \/ Unbooked(file, Row)
      BY <1>1, <2>2, ColumnsUsed DEF Filler, Cell
    <3> QED BY <1>1, <3>1, NothingBooked DEF IsEmpty
  <2> QED BY <2>1, <2>2
<1>4. Skip BY <1>1, <1>3 DEF SBIRow, UnderTitles, TakeUnlessZero, IsEmpty, IsDate, NoText
<1> QED BY <1>1, <1>2, <1>4 DEF Skip, Reading, Passes, PassesOrBreaks

LEMMA ICICIFiller ==
    ASSUME UnderTitles, ICICIRow, Filler(file, Row) PROVE PassesOrBreaks
<1>1. Reading("icici") /\ file.bank = "icici" BY DEF ICICIRow, Reading, UnderTitles
<1>2. CASE Row.kind = "broken" BY <1>1, <1>2 DEF ICICIRow, Reading, Stop, Ends, Breaks, PassesOrBreaks
<1>3. CASE Row.kind = "none"
  BY <1>1, <1>3 DEF ICICIRow, Reading, Skip, Passes, PassesOrBreaks
<1>4. CASE Row.kind = "row"
  <2>1. ~Contains(Cell(1), "legend") /\ (Undated(file, Row) \/ Unbooked(file, Row))
    BY <1>1, <1>4 DEF Filler, Cell
  <2>2. \/ ~IsDate(Cell(cols.date))
        \/ IsDate(Cell(cols.date)) /\ ~(IsAmount(Booked) /\ Booked.n # 0)
    BY <1>1, <2>1, NothingBooked, ColumnsUsed DEF Undated, Cell, IsDate
  <2>3. UNCHANGED account /\ Skip BY <1>4, <2>1, <2>2 DEF ICICIRow, UnderTitles, TakeUnlessZero
  <2> QED BY <1>1, <2>3 DEF Skip, Reading, Passes, PassesOrBreaks
<1> QED BY <1>2, <1>3, <1>4 DEF ICICIRow

LEMMA HDFCFiller ==
    ASSUME UnderTitles, HDFCRow, Filler(file, Row) PROVE PassesOrBreaks
<1>1. Reading("hdfc") /\ file.bank = "hdfc" BY DEF HDFCRow, Reading, UnderTitles
<1>2. CASE Row.kind # "row"
  BY <1>1, <1>2 DEF HDFCRow, Reading, Skip, Passes, PassesOrBreaks
<1>3. CASE Row.kind = "row"
  <2>1. Undated(file, Row) \/ Unbooked(file, Row) BY <1>1, <1>3 DEF Filler
  <2>2. \/ ~IsDate(Cell(cols.date))
        \/ IsDate(Cell(cols.date)) /\ ~(IsAmount(Booked) /\ Booked.n # 0)
    BY <1>1, <2>1, NothingBooked, ColumnsUsed DEF Undated, Cell, IsDate
  <2>3. UNCHANGED account /\ Skip BY <1>3, <2>2 DEF HDFCRow, UnderTitles, TakeUnlessZero
  <2> QED BY <1>1, <2>3 DEF Skip, Reading, Passes, PassesOrBreaks
<1> QED BY <1>2, <1>3

\* Whatever the bank.
LEMMA FillerStep ==
    ASSUME UnderTitles, ParserRow, Filler(file, Row) PROVE PassesOrBreaks
BY AxisFiller, IDFCFiller, SBIFiller, ICICIFiller, HDFCFiller DEF ParserRow

TooShort == Ends({"crashed"}) /\ bank = "axis" /\ Len(Row.cells) <= cols.date

\* The footer ends the statement; an Axis footer that is too short panics.
LEMMA FooterStep ==
    ASSUME UnderTitles, ParserRow, Footer(file, Row) PROVE Ends({"done"}) \/ TooShort
<1>1. Row.kind = "row" BY DEF Footer
<1>2. Undated(file, Row) => ~IsDate(Cell(cols.date))
  BY ColumnsUsed DEF Undated, IsDate, Cell
<1>3. CASE AxisRow
  <2>1. Reading("axis") /\ file.bank = "axis" BY <1>3 DEF AxisRow, Reading, UnderTitles
  <2>2. AxisFooter BY <1>2, <2>1 DEF Footer, AxisFooter, IsEmpty, Cell
  <2>3. /\ extractAxisMeta
        /\ Stop("done") \/ (Stop("crashed") /\ cols.date >= Len(Row.cells))
    BY <1>1, <1>3, <2>2 DEF AxisRow, UnderTitles, AxisFooter
  <2>4. UNCHANGED <<file, bank, account>> BY <2>1, <2>3 DEF extractAxisMeta, UnderTitles, Reading
  <2>5. cols.date \in Nat /\ Len(Row.cells) \in Nat
    BY <2>1 DEF UnderTitles, PrintedColumns, ColumnsFrom, RowValues
  <2> QED BY <2>1, <2>3, <2>4, <2>5 DEF Stop, Reading, Ends, TooShort
<1>4. CASE IDFCRow BY <1>4 DEF Footer, IDFCRow, Reading, UnderTitles
<1>5. CASE SBIRow
  <2>1. Reading("sbi") /\ file.bank = "sbi" BY <1>5 DEF SBIRow, Reading, UnderTitles
  <2>2. ~IsEmpty(Cell(cols.date)) /\ ~IsDate(Cell(cols.date))
    BY <1>2, <2>1, ColumnsUsed DEF Footer, IsEmpty, Cell
  <2>3. extractSBIMeta /\ Stop("done") BY <1>5, <2>1, <2>2, NoHeading DEF SBIRow, UnderTitles
  <2>4. UNCHANGED account BY <2>1, <2>3 DEF extractSBIMeta, UnderTitles
  <2> QED BY <2>1, <2>3, <2>4 DEF Stop, Reading, Ends
<1>6. CASE ICICIRow
  <2>1. Reading("icici") /\ file.bank = "icici" BY <1>6 DEF ICICIRow, Reading, UnderTitles
  <2>2. Contains(Cell(1), "legend") BY <2>1 DEF Footer, Cell
  <2>3. UNCHANGED account /\ Stop("done") BY <1>1, <1>6, <2>2 DEF ICICIRow, UnderTitles
  <2> QED BY <2>1, <2>3 DEF Stop, Reading, Ends
<1>7. CASE HDFCRow BY <1>7 DEF Footer, HDFCRow, Reading, UnderTitles
<1> QED BY <1>3, <1>4, <1>5, <1>6, <1>7 DEF ParserRow

-----------------------------------------------------------------------------
(* The entries read so far *)

\* The entries printed in the rows up to next have been read, and no others.
EntriesRead ==
    \E k \in 0..Len(file.entries) :
       /\ out = SubSeq(file.entries, 1, k)
       /\ \A i \in DOMAIN file.entries : i <= k <=> file.lines[i] <= next

\* Entries are printed in their order, one per row.
InOrder ==
    /\ file.entries \in Seq(EntryValues) /\ file.lines \in Seq(Nat) /\ next \in Nat
    /\ DOMAIN file.lines = DOMAIN file.entries
    /\ \A i \in DOMAIN file.lines : \A k \in 1 .. i - 1 : file.lines[k] < file.lines[i]

\* k entries have been read when next rows have.
ReadUpTo(k) ==
    /\ k \in 0 .. Len(file.entries) /\ out = SubSeq(file.entries, 1, k)
    /\ \A i \in DOMAIN file.entries : i <= k <=> file.lines[i] <= next

LEMMA EntriesReadUpTo == EntriesRead <=> \E k : ReadUpTo(k)
BY DEF EntriesRead, ReadUpTo

\* The row after the ones read holds the entry after the ones read.
LEMMA NextEntry ==
    ASSUME InOrder, EntriesRead, NEW i \in DOMAIN file.entries, file.lines[i] = next + 1,
           Takes(file.entries[i])
    PROVE  EntriesRead'
<1> DEFINE es == file.entries
<1> DEFINE lines == file.lines
<1>1. PICK k : ReadUpTo(k) BY EntriesReadUpTo
<1>2. /\ es \in Seq(EntryValues) /\ DOMAIN es = 1 .. Len(es) /\ Len(es) \in Nat
      /\ \A m \in DOMAIN es : lines[m] \in Nat
      /\ \A m \in DOMAIN es : \A n \in 1 .. m - 1 : lines[n] < lines[m]
      /\ k \in 0 .. Len(es) /\ out = SubSeq(es, 1, k) /\ next \in Nat
      /\ \A m \in DOMAIN es : m <= k <=> lines[m] <= next
      /\ i \in DOMAIN es /\ lines[i] = next + 1
  <2>1. /\ es \in Seq(EntryValues) /\ lines \in Seq(Nat) /\ DOMAIN lines = DOMAIN es /\ next \in Nat
        /\ \A m \in DOMAIN lines : \A n \in 1 .. m - 1 : lines[n] < lines[m]
    BY DEF InOrder
  <2>2. /\ k \in 0 .. Len(es) /\ out = SubSeq(es, 1, k)
        /\ \A m \in DOMAIN es : m <= k <=> lines[m] <= next
    BY <1>1 DEF ReadUpTo
  <2>3. i \in DOMAIN es /\ lines[i] = next + 1 OBVIOUS
  <2> HIDE DEF es, lines
  <2>4. DOMAIN es = 1 .. Len(es) /\ Len(es) \in Nat BY <2>1
  <2>5. \A m \in DOMAIN es : lines[m] \in Nat BY <2>1
  <2> QED BY <2>1, <2>2, <2>3, <2>4, <2>5
<1>3. /\ next' = next + 1 /\ out' = Append(out, es[i]) /\ file' = file /\ es' = es /\ lines' = lines
  BY DEF Takes
<1> HIDE DEF es, lines
<1>4. i = k + 1
  <2>1. i > k BY <1>2
  <2>2. ASSUME i > k + 1 PROVE FALSE
    <3>1. k + 1 \in DOMAIN es /\ k + 1 \in 1 .. i - 1 BY <1>2, <2>2
    <3>2. lines[k + 1] < lines[i] BY <1>2, <3>1
    <3>3. lines[k + 1] <= next BY <1>2, <3>1, <3>2
    <3> QED BY <1>2, <3>1, <3>3
  <2> QED BY <1>2, <2>1, <2>2
<1>5. out' = SubSeq(es, 1, k + 1)
  <2>1. Append(SubSeq(es, 1, k), es[k + 1]) = SubSeq(es, 1, k + 1) BY <1>2, <1>4
  <2> QED BY <1>2, <1>3, <1>4, <2>1
<1>6. ASSUME NEW m \in DOMAIN es PROVE m <= k + 1 <=> lines[m] <= next + 1
  <2>1. CASE m <= k BY <1>2, <2>1
  <2>2. CASE m = k + 1 BY <1>2, <1>4, <2>2
  <2>3. CASE m > k + 1
    <3>1. i \in 1 .. m - 1 BY <1>2, <1>4, <2>3
    <3>2. lines[i] < lines[m] BY <1>2, <3>1
    <3> QED BY <1>2, <2>3, <3>2
  <2> QED BY <1>2, <2>1, <2>2, <2>3
<1>7. k + 1 \in 0 .. Len(es) BY <1>2, <1>4
<1> QED BY <1>3, <1>5, <1>6, <1>7 DEF EntriesRead, es, lines

\* A row without an entry adds none.
LEMMA NoEntry ==
    ASSUME InOrder, EntriesRead, \A i \in DOMAIN file.entries : file.lines[i] # next + 1,
           next' = next + 1, UNCHANGED <<file, out>>
    PROVE  EntriesRead'
<1>1. PICK k : ReadUpTo(k) BY EntriesReadUpTo
<1>2. ASSUME NEW i \in DOMAIN file.entries PROVE i <= k <=> file.lines[i] <= next + 1
  <2>1. file.lines[i] \in Nat /\ next \in Nat BY DEF InOrder
  <2>2. i <= k <=> file.lines[i] <= next BY <1>1 DEF ReadUpTo
  <2> QED BY <2>1, <2>2
<1> QED BY <1>1, <1>2 DEF ReadUpTo, EntriesRead

\* When every line has been passed, every entry has been read.
LEMMA AllRead ==
    ASSUME InOrder, EntriesRead, \A i \in DOMAIN file.lines : file.lines[i] <= next
    PROVE  out = file.entries
<1> DEFINE es == file.entries
<1>1. PICK k : ReadUpTo(k) BY EntriesReadUpTo
<1>2. /\ es \in Seq(EntryValues) /\ Len(es) \in Nat /\ DOMAIN es = 1 .. Len(es)
      /\ k \in 0 .. Len(es) /\ out = SubSeq(es, 1, k) /\ \A i \in DOMAIN es : i <= k
  BY <1>1 DEF InOrder, ReadUpTo
<1> HIDE DEF es
<1>3. k = Len(es)
  <2>1. CASE Len(es) = 0 BY <1>2, <2>1
  <2>2. CASE Len(es) # 0
    <3>1. Len(es) \in DOMAIN es BY <1>2, <2>2
    <3>2. Len(es) <= k BY <1>2, <3>1
    <3>3. k \in Int /\ k <= Len(es) /\ Len(es) \in Int BY <1>2
    <3> QED BY <3>2, <3>3
  <2> QED BY <2>1, <2>2
<1>4. SubSeq(es, 1, Len(es)) = es BY <1>2
<1> QED BY <1>2, <1>3, <1>4 DEF es

-----------------------------------------------------------------------------
(* The invariant *)

AboveHeader ==
    next < file.header /\ cols = None /\ out = <<>> /\ AccountIn(file, next, account)
BelowHeader ==
    /\ next \in file.header .. file.end - 1 /\ cols = PrintedColumns(file)
    /\ account = file.account /\ EntriesRead

\* Above the header nothing has been taken but the account number; below it the columns are
\* the printed ones and the entries of the rows passed have been read; a parser that has ended
\* has read them all, or had a reason to give up.
ParserInv ==
    /\ file \in Files /\ next \in Nat
    /\ step \in {"detect", "open", "parse", "done", "failed", "crashed"}
    /\ step = "detect" => next < file.header /\ bank = None
    /\ step \in {"detect", "open"} => cols = None /\ account = None /\ out = <<>>
    /\ step = "open" => next = 0
    /\ step \notin {"detect", "crashed"} => bank = file.bank
    /\ step = "parse" => bank \in Banks /\ (AboveHeader \/ BelowHeader)
    /\ step = "done" => out = file.entries /\ account = file.account
    /\ step \in {"failed", "crashed"} => CannotRead

\* What the files are.
LEMMA FileShape ==
    ASSUME file \in Files
    PROVE  /\ Printed(file) /\ None \notin Banks
           /\ file.bank # None => None # PrintedColumns(file)
BY FilesAssumption

\* What the next row is.
LEMMA RowShape ==
    ASSUME file \in Files, next \in Nat, next < Len(file.rows)
    PROVE  /\ file.rows \in Seq(RowValues) /\ Row = file.rows[next + 1] /\ Row \in RowValues
           /\ Row.kind # "row" => Row.cells = <<>>
           /\ file.lead \in Nat /\ file.header \in Nat /\ Len(file.rows) \in Nat
           /\ next + 1 < file.header => Untitled(Row)
           /\ next + 1 = file.header => AtTitles
<1>1. Printed(file) BY FileShape
<1>2. /\ file.rows \in Seq(RowValues) /\ file.lead \in Nat /\ file.header \in Nat
      /\ Len(file.rows) \in Nat /\ next + 1 \in DOMAIN file.rows
  BY <1>1 DEF Printed
<1>3. Row = file.rows[next + 1] /\ Row \in RowValues BY <1>2 DEF Row
<1>4. Row.kind # "row" => Row.cells = <<>> BY <1>1, <1>2, <1>3 DEF Printed
<1>5. ASSUME next + 1 < file.header PROVE Untitled(Row)
  <2>1. next + 1 \in 1 .. file.header - 1 BY <1>2, <1>5
  <2> QED BY <1>1, <1>3, <2>1 DEF Printed
<1>6. ASSUME next + 1 = file.header PROVE AtTitles
  <2>1. file.bank \in Banks /\ TitleRow(file) BY <1>1, <1>2, <1>6 DEF Printed
  <2> QED BY <1>2, <1>3, <1>6, <2>1 DEF AtTitles
<1> QED BY <1>2, <1>3, <1>4, <1>5, <1>6

\* What a statement of a bank is.
LEMMA BodyShape ==
    ASSUME file \in Files, file.bank \in Banks
    PROVE  /\ file.header \in 1 .. Len(file.rows) /\ Len(file.rows) \in Nat
           /\ file.bank = "sbi" => file.header >= 18
           /\ TitleRow(file) /\ AccountIn(file, file.header - 1, file.account) /\ Body(file)
           /\ file.entries \in Seq(EntryValues) /\ file.lines \in Seq(Nat)
BY FileShape DEF Printed

\* The row of titles is the one that tells the bank.
LEMMA BankTold ==
    ASSUME AtTitles PROVE Detect = file.bank
<1>1. file.bank \in Banks BY DEF AtTitles
<1>2. CASE file.bank = "axis" BY <1>2, AxisTold DEF Told
<1>3. CASE file.bank = "idfc" BY <1>3, IDFCTold DEF Told
<1>4. CASE file.bank = "sbi" BY <1>4, SBITold DEF Told
<1>5. CASE file.bank = "icici" BY <1>5, ICICITold DEF Told
<1>6. CASE file.bank = "hdfc" BY <1>6, HDFCTold DEF Told
<1> QED BY <1>1, <1>2, <1>3, <1>4, <1>5, <1>6 DEF Banks

\* It holds in the beginning and every step keeps it.
LEMMA ParserInvInit == ParserInit => ParserInv
<1> SUFFICES ASSUME ParserInit PROVE ParserInv OBVIOUS
<1>1. Printed(file) BY FileShape DEF ParserInit
<1>2. 0 < file.header BY <1>1 DEF Printed
<1> QED BY <1>2 DEF ParserInit, ParserInv

LEMMA DetectStep == ASSUME ParserInv, ~TakenForSBI, DetectFile PROVE ParserInv'
<1>1. /\ file \in Files /\ next \in Nat /\ next < file.header /\ bank = None /\ cols = None
      /\ account = None /\ out = <<>> /\ UNCHANGED file
  BY DEF ParserInv, DetectFile
<1>2. Printed(file) /\ None \notin Banks BY <1>1, FileShape
<1>3. ASSUME NEW b, b = file.bank, Recognised(b) PROVE ParserInv'
  BY <1>1, <1>3 DEF Recognised, ParserInv
<1>4. CASE DetectByName BY <1>3, <1>4 DEF DetectByName, TakenForSBI
<1>5. CASE next = Len(file.rows) /\ End("failed")
  <2>1. file.bank = None BY <1>1, <1>2, <1>5 DEF Printed
  <2>2. CannotRead' BY <1>1, <2>1 DEF CannotRead
  <2> QED BY <1>1, <1>5, <2>1, <2>2 DEF End, ParserInv
<1>6. CASE /\ End("crashed") /\ next < Len(file.rows) /\ Row.kind = "broken" /\ file.ext = ".xls"
  <2>1. CannotRead' BY <1>1, <1>6 DEF End, CannotRead, Row
  <2> QED BY <1>1, <1>6, <2>1 DEF End, ParserInv
<1>7. ASSUME next < Len(file.rows), NotRecognised, next + 1 # file.header PROVE ParserInv'
  <2>1. next + 1 < file.header BY <1>1, <1>7, RowShape
  <2>2. step = "detect" BY DEF DetectFile
  <2> QED BY <1>1, <1>7, <2>1, <2>2 DEF NotRecognised, ParserInv
<1>8. ASSUME next < Len(file.rows), Row.kind = "row",
             (Detect # None /\ Recognised(Detect)) \/ (Detect = None /\ NotRecognised)
      PROVE  ParserInv'
  <2>1. CASE next + 1 = file.header
    <3>1. Detect = file.bank /\ file.bank \in Banks
      BY <1>1, <1>8, <2>1, RowShape, BankTold DEF AtTitles
    <3> QED BY <1>2, <1>3, <1>8, <3>1
  <2>2. CASE next + 1 # file.header
    <3>1. next + 1 < file.header BY <1>1, <1>8, <2>2, RowShape
    <3>2. Detect = None BY <1>1, <1>8, <3>1, RowShape, DetectNothing
    <3> QED BY <1>7, <1>8, <2>2, <3>2
  <2> QED BY <2>1, <2>2
<1>9. ASSUME next < Len(file.rows), Row.kind # "row", NotRecognised PROVE ParserInv'
  <2>1. next + 1 # file.header BY <1>1, <1>9, RowShape DEF AtTitles, TitleRow
  <2> QED BY <1>7, <1>9, <2>1
<1>10. CASE DetectXLS BY <1>5, <1>6, <1>8, <1>9, <1>10 DEF DetectXLS
<1>11. CASE DetectCSV BY <1>5, <1>8, <1>9, <1>11 DEF DetectCSV
<1> QED BY <1>4, <1>10, <1>11 DEF DetectFile

LEMMA OpenStep == ASSUME ParserInv, ParseFile PROVE ParserInv'
<1>1. /\ file \in Files /\ next = 0 /\ cols = None /\ account = None /\ out = <<>>
      /\ bank = file.bank /\ UNCHANGED <<file, bank, next, cols, account, out>>
      /\ step' \in {"parse", "failed"}
  BY DEF ParserInv, ParseFile
<1>2. step' = "parse" => bank \in Banks BY DEF ParseFile, Banks
<1>3. file.header \in Nat /\ 0 < file.header BY <1>1, FileShape DEF Printed
<1>4. AccountIn(file, 0, None) BY DEF AccountIn
<1>5. AboveHeader' BY <1>1, <1>3, <1>4 DEF AboveHeader
<1>6. step' = "failed" => CannotRead' BY <1>1 DEF ParseFile, CannotRead
<1> QED BY <1>1, <1>2, <1>5, <1>6 DEF ParserInv

\* What is panicked about is in the rows of the file.
LEMMA PanicsStay ==
    ASSUME UNCHANGED <<file, next>>
    PROVE  (AxisPanics' <=> AxisPanics) /\ (SBIPanics' <=> SBIPanics)
BY DEF AxisPanics, SBIPanics, Has, findCol, Cell, Row

\* A row that breaks ends the run, for a reason.
LEMMA BreakStep ==
    ASSUME ParserInv, step = "parse", next < Len(file.rows), Breaks PROVE ParserInv'
<1>1. CannotRead' BY PanicsStay DEF Breaks, Ends, CannotRead, Row
<1> QED BY <1>1 DEF Breaks, Ends, ParserInv

\* Where the entries stand.
LEMMA LinesBelow ==
    ASSUME file.header \in Nat, file.rows \in Seq(RowValues), Body(file)
    PROVE  /\ file.end \in file.header + 1 .. Len(file.rows) + 1
           /\ DOMAIN file.lines = DOMAIN file.entries
           /\ \A i \in DOMAIN file.lines : file.lines[i] \in file.header + 1 .. file.end - 1
BY DEF Body

\* What stands there, and what between them and below.
LEMMA RowsBelow ==
    ASSUME Body(file), NEW j \in file.header + 1 .. file.end - 1
    PROVE  /\ \A i \in DOMAIN file.lines :
                 file.lines[i] = j =>
                     i \in DOMAIN file.entries /\ Line(file, file.rows[j], file.entries[i])
           /\ (~\E i \in DOMAIN file.lines : file.lines[i] = j) => Filler(file, file.rows[j])
BY DEF Body
LEMMA RowAfter == ASSUME Body(file), file.end <= Len(file.rows) PROVE Footer(file, file.rows[file.end])
BY DEF Body

\* A row above the header, or the header row.
LEMMA AboveStep == ASSUME ParserInv, AboveHeader, ParserRow PROVE ParserInv'
<1>1. /\ step = "parse" /\ next < Len(file.rows) /\ UNCHANGED <<file, bank>>
  BY DEF ParserRow, AxisRow, IDFCRow, SBIRow, ICICIRow, HDFCRow, Reading
<1>2. /\ file \in Files /\ next \in Nat /\ bank = file.bank /\ bank \in Banks
      /\ next < file.header /\ cols = None /\ out = <<>> /\ AccountIn(file, next, account)
  BY <1>1 DEF ParserInv, AboveHeader
<1>3. AtTop BY <1>1, <1>2, RowShape DEF AtTop
<1>4. CASE next + 1 < file.header
  <2>1. Breaks \/ (Passes /\ AccountIn(file, next + 1, account'))
    BY <1>1, <1>2, <1>3, <1>4, RowShape, TopStep
  <2>2. CASE Breaks BY <1>1, <1>2, <2>2, BreakStep
  <2>3. CASE Passes /\ AccountIn(file, next + 1, account')
    <3>1. AboveHeader' BY <1>2, <1>4, <2>3 DEF Passes, AboveHeader
    <3> QED BY <1>1, <1>2, <2>3, <3>1 DEF Passes, ParserInv
  <2> QED BY <2>1, <2>2, <2>3
<1>5. CASE next + 1 = file.header
  <2>0. Breaks \/ Titled BY <1>1, <1>2, <1>3, <1>5, RowShape, TitleStep
  <2>a. CASE Breaks BY <1>1, <1>2, <2>a, BreakStep
  <2> SUFFICES ASSUME Titled PROVE ParserInv' BY <2>0, <2>a
  <2>1. /\ next' = next + 1 /\ cols' = PrintedColumns(file)
        /\ UNCHANGED <<file, step, bank, account, out>>
    BY DEF Titled
  <2>2. /\ file.header \in Nat /\ Body(file) /\ AccountIn(file, file.header - 1, file.account)
        /\ file.rows \in Seq(RowValues) /\ file.lines \in Seq(Nat) /\ file.entries \in Seq(EntryValues)
    BY <1>1, <1>2, RowShape, BodyShape
  <2>3. account = file.account
    <3>1. file.header - 1 = next /\ next \in 0 .. Len(file.rows) BY <1>1, <1>2, <1>5, RowShape
    <3> QED BY <1>2, <2>2, <3>1, OneAccount
  <2>4. next' \in file.header .. file.end - 1 BY <1>5, <2>1, <2>2 DEF Body
  <2>5. EntriesRead'
    <3>1. out' = SubSeq(file.entries, 1, 0) BY <1>2, <2>1, <2>2
    <3>2. ASSUME NEW i \in DOMAIN file.entries PROVE ~(i <= 0) /\ ~(file.lines[i] <= next')
      <4>1. i \in 1 .. Len(file.entries) BY <2>2
      <4>2. file.lines[i] \in file.header + 1 .. file.end - 1 BY <2>2, LinesBelow
      <4>3. next' = file.header BY <1>5, <2>1
      <4> QED BY <2>2, <4>1, <4>2, <4>3
    <3>3. 0 \in 0 .. Len(file.entries) BY <2>2
    <3> QED BY <2>1, <3>1, <3>2, <3>3 DEF EntriesRead
  <2>6. BelowHeader' BY <2>1, <2>3, <2>4, <2>5 DEF BelowHeader
  <2> QED BY <1>1, <1>2, <2>1, <2>6 DEF ParserInv
<1> QED BY <1>1, <1>2, <1>4, <1>5, RowShape

\* A row before the footer that is passed leaves the parser below the header.
LEMMA StaysBelow ==
    ASSUME BelowHeader, file.header \in Nat, file.end \in Nat, next + 1 < file.end,
           next' = next + 1, UNCHANGED <<file, cols, account>>, EntriesRead'
    PROVE  BelowHeader'
<1>1. next' \in file'.header .. file'.end - 1
  <2>1. next \in file.header .. file.end - 1 BY DEF BelowHeader
  <2> QED BY <2>1
<1> QED BY <1>1 DEF BelowHeader

\* A row below the header: an entry, a filler or the footer.
LEMMA BelowStep == ASSUME ParserInv, BelowHeader, ParserRow PROVE ParserInv'
<1>1. /\ step = "parse" /\ next < Len(file.rows) /\ UNCHANGED <<file, bank>>
  BY DEF ParserRow, AxisRow, IDFCRow, SBIRow, ICICIRow, HDFCRow, Reading
<1>2. /\ file \in Files /\ next \in Nat /\ bank = file.bank /\ bank \in Banks
      /\ next \in file.header .. file.end - 1 /\ cols = PrintedColumns(file)
      /\ account = file.account /\ EntriesRead
  BY <1>1 DEF ParserInv, BelowHeader
<1>3. /\ file.header \in 1 .. Len(file.rows) /\ file.header \in Nat
      /\ Body(file) /\ (file.bank = "sbi" => file.header >= 18)
      /\ file.rows \in Seq(RowValues) /\ file.lines \in Seq(Nat) /\ file.entries \in Seq(EntryValues)
      /\ Row = file.rows[next + 1]
      /\ file.end \in Nat
  BY <1>1, <1>2, RowShape, BodyShape DEF Body
<1>4. UnderTitles
  <2>1. cols # None BY <1>2, FileShape
  <2> QED BY <1>1, <1>2, <1>3, <2>1, RowShape DEF UnderTitles
<1>5. InOrder BY <1>2, <1>3 DEF InOrder, Body
<1>6. ASSUME Breaks PROVE ParserInv' BY <1>1, <1>2, <1>6, BreakStep
<1>7. CASE next + 1 < file.end
  <2>1. next + 1 \in file.header + 1 .. file.end - 1 BY <1>2, <1>3, <1>7
  <2>2. CASE \E i \in DOMAIN file.lines : file.lines[i] = next + 1
    <3>1. PICK i \in DOMAIN file.lines : file.lines[i] = next + 1 BY <2>2
    <3>2. /\ i \in DOMAIN file.entries /\ file.entries[i] \in EntryValues
          /\ Line(file, Row, file.entries[i])
      <4>1. i \in DOMAIN file.entries /\ Line(file, Row, file.entries[i])
        BY <1>3, <2>1, <3>1, RowsBelow
      <4> QED BY <1>3, <4>1
    <3>3. Takes(file.entries[i]) BY <1>4, <3>2, LineStep
    <3>4. EntriesRead' BY <1>2, <1>5, <3>1, <3>2, <3>3, NextEntry
    <3>5. BelowHeader' BY <1>3, <1>7, <3>3, <3>4, StaysBelow DEF Takes
    <3> QED BY <1>1, <1>2, <3>3, <3>5 DEF Takes, ParserInv
  <2>3. CASE ~\E i \in DOMAIN file.lines : file.lines[i] = next + 1
    <3>1. Filler(file, Row) BY <1>3, <2>1, <2>3, RowsBelow
    <3>2. PassesOrBreaks BY <1>4, <3>1, FillerStep
    <3>3. CASE Passes /\ UNCHANGED account
      <4>1. DOMAIN file.lines = DOMAIN file.entries BY <1>3, LinesBelow
      <4>2. EntriesRead' BY <1>2, <1>3, <1>5, <2>3, <3>3, <4>1, NoEntry DEF Passes
      <4>3. BelowHeader' BY <1>3, <1>7, <3>3, <4>2, StaysBelow DEF Passes
      <4> QED BY <1>1, <1>2, <3>3, <4>3 DEF Passes, ParserInv
    <3> QED BY <1>6, <3>2, <3>3 DEF PassesOrBreaks
  <2> QED BY <2>2, <2>3
<1>8. CASE next + 1 = file.end
  <2>1. Footer(file, Row)
    <3>1. file.end <= Len(file.rows) BY <1>1, <1>2, <1>3, <1>8
    <3> QED BY <1>3, <1>8, <3>1, RowAfter
  <2>2. Ends({"done"}) \/ TooShort BY <1>4, <2>1, FooterStep
  <2>3. out = file.entries
    <3>1. \A i \in DOMAIN file.lines : file.lines[i] <= next BY <1>2, <1>3, <1>8, LinesBelow
    <3> QED BY <1>2, <1>5, <3>1, AllRead
  <2>4. TooShort => CannotRead' BY <1>4 DEF TooShort, Ends, CannotRead, UnderTitles, Row
  <2> QED BY <1>2, <2>2, <2>3, <2>4 DEF Ends, TooShort, ParserInv
<1> QED BY <1>2, <1>3, <1>7, <1>8

LEMMA LastRowStep == ASSUME ParserInv, LastRow PROVE ParserInv'
<1>1. /\ step = "parse" /\ next = Len(file.rows) /\ step' = "done"
      /\ UNCHANGED <<file, bank, next, cols, account, out>>
  BY DEF LastRow
<1>2. file \in Files /\ next \in Nat /\ bank = file.bank /\ bank \in Banks BY <1>1 DEF ParserInv
<1>3. /\ file.header \in 1 .. Len(file.rows) /\ Body(file) /\ Len(file.rows) \in Nat
      /\ file.lines \in Seq(Nat) /\ file.entries \in Seq(EntryValues)
  BY <1>2, BodyShape
<1>4. BelowHeader BY <1>1, <1>3 DEF ParserInv, AboveHeader
<1>5. out = file.entries
  <2>1. InOrder BY <1>2, <1>3 DEF InOrder, Body
  <2>2. \A i \in DOMAIN file.lines : file.lines[i] <= next
    <3>1. /\ file.end \in file.header + 1 .. Len(file.rows) + 1
          /\ \A i \in DOMAIN file.lines : file.lines[i] \in file.header + 1 .. file.end - 1
      <4>1. file.rows \in Seq(RowValues) BY <1>2, FileShape DEF Printed
      <4> QED BY <1>3, <4>1, LinesBelow
    <3> QED BY <1>1, <1>3, <3>1
  <2> QED BY <1>4, <2>1, <2>2, AllRead DEF BelowHeader
<1> QED BY <1>1, <1>2, <1>4, <1>5 DEF ParserInv, BelowHeader

\* Of an .xlsx that is not SBI's nothing is read: it has no row of SBI's titles, and its
\* account number is not where SBI prints one.
ForeignInv ==
    /\ file \in Files /\ next \in Nat
    /\ step \in {"detect", "open", "parse", "done", "failed", "crashed"}
    /\ cols = None /\ account = None /\ out = <<>>
    /\ step = "open" => next = 0
    /\ step # "detect" => bank = "sbi"
    /\ step \in {"failed", "crashed"} => CannotRead

LEMMA ForeignStep ==
    ASSUME ForeignInv, TakenForSBI, ParserNext
    PROVE  ForeignInv' /\ UNCHANGED file
<1>1. /\ file \in Files /\ next \in Nat /\ file.ext = ".xlsx" /\ file.bank # "sbi"
      /\ cols = None /\ account = None /\ out = <<>> /\ (step # "detect" => bank = "sbi")
  BY DEF ForeignInv, TakenForSBI
<1>2. Foreign(file) BY <1>1, FileShape DEF Printed
<1>3. CASE DetectFile
  <2>1. Recognised("sbi") /\ UNCHANGED file
    BY <1>1, <1>3 DEF DetectFile, DetectByName, DetectXLS, DetectCSV
  <2> QED BY <1>1, <2>1 DEF Recognised, ForeignInv
<1>4. CASE ParseFile
  <2>1. step' \in {"parse", "failed"} /\ UNCHANGED <<file, bank, next, cols, account, out>>
    BY <1>4 DEF ParseFile
  <2>2. bank = "sbi" /\ next = 0 BY <1>4 DEF ParseFile, ForeignInv
  <2>3. CannotRead' BY <2>1, <2>2 DEF CannotRead
  <2> QED BY <1>1, <2>1, <2>2, <2>3 DEF ForeignInv
<1>5. CASE ParserRow
  <2>1. SBIRow /\ Reading("sbi") /\ step = "parse" /\ bank = "sbi"
    BY <1>1, <1>5 DEF ParserRow, AxisRow, IDFCRow, SBIRow, ICICIRow, HDFCRow, Reading
  <2>2. CASE SBIPanics
    <3>1. Breaks BY <2>1, <2>2 DEF SBIRow, Reading, Stop, Ends, Breaks
    <3>2. CannotRead'
      BY <2>1, <2>2, <3>1, PanicsStay DEF Breaks, Ends, CannotRead, Row, Reading
    <3> QED BY <1>1, <2>1, <3>1, <3>2 DEF Breaks, Ends, ForeignInv
  <2>3. CASE ~SBIPanics
    <3>1. /\ Row = file.rows[next + 1] /\ next + 1 \in DOMAIN file.rows
      BY <1>1, <2>1, RowShape DEF Reading
    <3>2. ~(Has("debit") /\ Has("credit")) BY <1>2, <3>1 DEF Foreign, Has
    <3>3. ~(next \in 1 .. 17 /\ Contains(Cell(1), "account_number"))
      <4>1. next \in 1 .. 17 => next + 1 \in 2 .. 18 BY <1>1
      <4> QED BY <1>2, <3>1, <4>1 DEF Foreign, Cell
    <3>4. Skip /\ UNCHANGED account
      BY <1>1, <2>1, <2>3, <3>2, <3>3 DEF SBIRow, extractSBIMeta
    <3> QED BY <1>1, <2>1, <3>4 DEF Skip, Reading, ForeignInv
  <2> QED BY <2>2, <2>3
<1>6. CASE LastRow BY <1>1, <1>6 DEF LastRow, ForeignInv
<1>7. CASE ParserSettled
  <2>1. UNCHANGED parserVars BY <1>7 DEF ParserSettled
  <2>2. CannotRead' <=> CannotRead BY <2>1, PanicsStay DEF parserVars, CannotRead, Row
  <2> QED BY <2>1, <2>2 DEF parserVars, ForeignInv
<1> QED BY <1>3, <1>4, <1>5, <1>6, <1>7 DEF ParserNext, ParserRow

FileInv == IF TakenForSBI THEN ForeignInv ELSE ParserInv

LEMMA FileInvInit == ParserInit => FileInv
<1> SUFFICES ASSUME ParserInit PROVE ForeignInv /\ ParserInv BY DEF FileInv
<1> QED BY ParserInvInit DEF ParserInit, ForeignInv

LEMMA FileInvNext == FileInv /\ [ParserNext]_parserVars => FileInv'
<1> SUFFICES ASSUME FileInv, [ParserNext]_parserVars PROVE FileInv' OBVIOUS
<1>1. CASE UNCHANGED parserVars
  <2>1. AboveHeader' <=> AboveHeader BY <1>1 DEF parserVars, AboveHeader
  <2>2. BelowHeader' <=> BelowHeader BY <1>1 DEF parserVars, BelowHeader, EntriesRead
  <2>3. CannotRead' <=> CannotRead BY <1>1, PanicsStay DEF parserVars, CannotRead, Row
  <2>4. TakenForSBI' <=> TakenForSBI BY <1>1 DEF parserVars, TakenForSBI
  <2>5. ParserInv => ParserInv' BY <1>1, <2>1, <2>2, <2>3 DEF parserVars, ParserInv
  <2>6. ForeignInv => ForeignInv' BY <1>1, <2>3 DEF parserVars, ForeignInv
  <2> QED BY <2>4, <2>5, <2>6 DEF FileInv
<1>2. CASE TakenForSBI /\ ParserNext
  <2>1. ForeignInv' /\ UNCHANGED file BY <1>2, ForeignStep DEF FileInv
  <2> QED BY <1>2, <2>1 DEF FileInv, TakenForSBI
<1>3. CASE ~TakenForSBI /\ ParserNext
  <2>0. ParserInv BY <1>3 DEF FileInv
  <2>1. UNCHANGED file
    BY <1>3 DEF ParserNext, DetectFile, ParseFile, AxisRow, IDFCRow, SBIRow, ICICIRow, HDFCRow,
                Reading, LastRow, ParserSettled, parserVars
  <2>2. ParserInv' \/ UNCHANGED parserVars
    <3>1. CASE DetectFile BY <1>3, <2>0, <3>1, DetectStep
    <3>2. CASE ParseFile BY <2>0, <3>2, OpenStep
    <3>3. CASE ParserRow
      <4>1. step = "parse"
        BY <3>3 DEF ParserRow, AxisRow, IDFCRow, SBIRow, ICICIRow, HDFCRow, Reading
      <4>2. AboveHeader \/ BelowHeader BY <2>0, <4>1 DEF ParserInv
      <4> QED BY <2>0, <3>3, <4>2, AboveStep, BelowStep
    <3>4. CASE LastRow BY <2>0, <3>4, LastRowStep
    <3>5. CASE ParserSettled BY <3>5 DEF ParserSettled
    <3> QED BY <1>3, <3>1, <3>2, <3>3, <3>4, <3>5 DEF ParserNext, ParserRow
  <2>3. TakenForSBI' <=> TakenForSBI BY <2>1 DEF TakenForSBI
  <2> QED BY <1>1, <1>3, <2>2, <2>3 DEF FileInv
<1> QED BY <1>1, <1>2, <1>3

LEMMA ParserInvariant == ParserSpec => []FileInv
BY FileInvInit, FileInvNext, PTL DEF ParserSpec

\* However many entries a statement of one of the five banks has, and whatever stands above,
\* between and below them: a parser that comes to its end has read every entry once, in its
\* order, with its side, amount, balance and reference; of an .xlsx that is not SBI's it has
\* read nothing (Parse, ParsePath, parseSBIRows).
THEOREM StatementWholeAlways == ParserSpec => []StatementWhole
<1>1. FileInv => StatementWhole BY DEF FileInv, ParserInv, ForeignInv, StatementWhole
<1> QED BY <1>1, ParserInvariant, PTL

\* Whatever rows precede its header, a statement is given to the parser of the bank that
\* printed it, and an .xlsx to SBI's (Registry.Detect, DetectFile).
THEOREM BankRecognisedAlways == ParserSpec => []BankRecognised
<1>1. FileInv => BankRecognised
  BY DEF FileInv, ParserInv, ForeignInv, TakenForSBI, BankRecognised
<1> QED BY <1>1, ParserInvariant, PTL

\* The account number a parser returns is the first one above the header, whatever the
\* descriptions of the entries look like (extractAxisMeta and its kind).
THEOREM AccountOfTheHeaderAlways == ParserSpec => []AccountOfTheHeader
<1>1. FileInv => AccountOfTheHeader BY DEF FileInv, ParserInv, ForeignInv, AccountOfTheHeader
<1> QED BY <1>1, ParserInvariant, PTL

\* A statement is given up for one of the listed reasons only, wherever in it that happens:
\* among them the headings of Axis and SBI that have nothing after them.
THEOREM OnlyUnreadableFailsAlways == ParserSpec => []OnlyUnreadableFails
<1>1. FileInv => OnlyUnreadableFails BY DEF FileInv, ParserInv, ForeignInv, OnlyUnreadableFails
<1> QED BY <1>1, ParserInvariant, PTL

=============================================================================
