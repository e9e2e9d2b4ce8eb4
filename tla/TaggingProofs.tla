---------------------------- MODULE TaggingProofs ----------------------------
(***************************************************************************)
(* Theorems about Tagging, for every set of requests, users, transactions, *)
(* categories and names of labels, any limit of hints and any number of    *)
(* failures.                                                               *)
(***************************************************************************)
EXTENDS Tagging, FiniteSetTheorems, WellFoundedInduction, TLAPS

\* What a request is known to be for when it gets to a statement.  A correction that
\* is past its first statement is the owner's.
Prepared == \A r \in Requests :
    /\ pc[r] # "idle" => job[r] \in Jobs
    /\ pc[r] \in {"slug", "update", "hint", "reread"} => job[r].do = "edit"
    /\ pc[r] \in {"update", "hint", "reread"} => job[r].slug \in Categories \union {None}
    /\ pc[r] = "hint" => HintDue(r)
    /\ pc[r] \in {"slug", "update", "hint", "reread", "done"} /\ job[r].do = "edit" =>
          OwnerOf[job[r].txn] = job[r].who
    /\ pc[r] \in {"find", "create", "link"} => job[r].do # "edit"
    /\ pc[r] = "link" /\ job[r].do = "add" => labels[SlugOf[job[r].name]] # None
    /\ pc[r] = "save" => job[r].do = "remember"
    /\ pc[r] \in {"recall", "classify"} => job[r].do = "pass"

\* What had ended has ended.
EndedStays == \A r, q \in Requests : q \in ended[r] => pc[q] \in Ended

\* A request that did not find a label has not missed one of a request before it.
NoneMissed == \A r \in Requests :
    LET found == labels[SlugOf[job[r].name]] IN
    /\ pc[r] \in {"create", "taken"} /\ found # None => found.by \notin ended[r]
    /\ pc[r] = "taken" => found # None

\* CorrectionRemembered, from the statement after the hint on.
Hinted == \A r \in Requests :
    (/\ pc[r] \in {"reread", "done"} /\ job[r].do = "edit" /\ faults = 0
     /\ job[r].slug # None /\ Counterparty[job[r].txn] # None
     /\ seen[r] = replaced[r] /\ replaced[r] # job[r].slug)
    => \E i \in DOMAIN memories :
          memories[i].m.by = r /\ memories[i].m.user = OwnerOf[job[r].txn]

\* A hint in words of the description.
Relevant(i, t) == \/ memories[i].m.tags = {}
                  \/ memories[i].m.tags \intersect memoryKeywords(t) # {}

\* A recall by tags leaves out a hint of a request that had ended when the pass began
\* only for as many newer ones as are asked for, or because it failed.
Heard == \A r \in Requests : pc[r] = "classify" /\ ~embedder =>
    \A k \in Hints(OwnerOf[job[r].txn]) :
        Relevant(k, job[r].txn) /\ memories[k].m.by \in ended[r] =>
            \/ k \in hints[r]
            \/ Cardinality({i \in hints[r] : i > k}) = HintLimit
            \/ hints[r] = {} /\ faults > 0

IInv == TypeOK /\ Prepared /\ EndedStays /\ NoneMissed /\ Hinted /\ Heard

RequestStep(r) ==
    \/ Begin(r) \/ GetByID(r) \/ GetBySlug(r)
    \/ Correct(r) \/ SaveTaggingHint(r) \/ Reread(r)
    \/ RememberFact(r) \/ RecallTaggingHints(r) \/ EnrichRow(r)
    \/ FindLabel(r) \/ CreateLabel(r)
    \/ LabelByAPI(r) \/ LabelByPage(r) \/ LabelByTool(r)

-----------------------------------------------------------------------------
\* Nothing has happened.
LEMMA InitInvariant == Init => IInv
<1> SUFFICES ASSUME Init PROVE IInv
  OBVIOUS
<1>1. TypeOK
  BY DataAssumption, BoundsAssumption
  DEF Init, TypeOK, Enrichment, TaggingStatusEnum, Memories, Slugs, Working, Ended
<1>2. Prepared /\ EndedStays /\ NoneMissed /\ Hinted /\ Heard
  BY DEF Init, Prepared, EndedStays, NoneMissed, Hinted, Heard
<1> QED BY <1>1, <1>2 DEF IInv

\* A step changes only what belongs to its request, beside the tables.
LEMMA OwnVariables ==
    ASSUME NEW r \in Requests, RequestStep(r)
    PROVE  /\ \E l \in Working \union Ended : Goto(r, l)
           /\ UNCHANGED hints \/ \E x : hints' = [hints EXCEPT ![r] = x]
           /\ UNCHANGED job \/ \E j \in Jobs : job' = [job EXCEPT ![r] = j]
           /\ UNCHANGED ended \/ \E x : ended' = [ended EXCEPT ![r] = x]
<1>1. \E l \in Working \union Ended : Goto(r, l)
  <2> USE DEF Working, Ended
  <2>1. CASE Begin(r) \/ GetByID(r) \/ GetBySlug(r)
    BY <2>1 DEF Begin, First, GetByID, GetBySlug
  <2>2. CASE Correct(r) \/ SaveTaggingHint(r) \/ Reread(r)
    BY <2>2 DEF Correct, SaveTaggingHint, Reread
  <2>3. CASE RememberFact(r) \/ RecallTaggingHints(r) \/ EnrichRow(r)
    BY <2>3 DEF RememberFact, RecallTaggingHints, EnrichRow
  <2>4. CASE FindLabel(r) \/ CreateLabel(r)
    BY <2>4 DEF FindLabel, CreateLabel
  <2>5. CASE LabelByAPI(r) \/ LabelByPage(r) \/ LabelByTool(r)
    BY <2>5 DEF LabelByAPI, LabelByPage, LabelByTool
  <2> QED BY <2>1, <2>2, <2>3, <2>4, <2>5 DEF RequestStep
<1>2. UNCHANGED hints \/ \E x : hints' = [hints EXCEPT ![r] = x]
  BY DEF RequestStep, Begin, GetByID, GetBySlug, Correct, SaveTaggingHint, Reread,
         RememberFact, RecallTaggingHints, EnrichRow, FindLabel, CreateLabel, LabelByAPI,
         LabelByPage, LabelByTool
<1>3. UNCHANGED job \/ \E j \in Jobs : job' = [job EXCEPT ![r] = j]
  BY DEF RequestStep, Begin, GetByID, GetBySlug, Correct, SaveTaggingHint, Reread,
         RememberFact, RecallTaggingHints, EnrichRow, FindLabel, CreateLabel, LabelByAPI,
         LabelByPage, LabelByTool
<1>4. UNCHANGED ended \/ \E x : ended' = [ended EXCEPT ![r] = x]
  BY DEF RequestStep, Begin, GetByID, GetBySlug, Correct, SaveTaggingHint, Reread,
         RememberFact, RecallTaggingHints, EnrichRow, FindLabel, CreateLabel, LabelByAPI,
         LabelByPage, LabelByTool, history
<1> QED BY <1>1, <1>2, <1>3, <1>4

\* Types, variable by variable.
LEMMA ControlNext ==
    ASSUME IInv, NEW r \in Requests, RequestStep(r)
    PROVE  /\ pc' \in [Requests -> {"idle"} \union Working \union Ended]
           /\ job' \in [Requests -> Jobs \union {None}]
           /\ faults' \in 0..MaxFaults /\ embedder' \in BOOLEAN
<1>1. \E l \in Working \union Ended : Goto(r, l)
  BY OwnVariables
<1>2. (UNCHANGED faults \/ Fault) /\ UNCHANGED embedder
  BY DEF RequestStep, Begin, GetByID, GetBySlug, Correct, SaveTaggingHint, Reread,
         RememberFact, RecallTaggingHints, EnrichRow, FindLabel, CreateLabel, LabelByAPI,
         LabelByPage, LabelByTool
<1>3. UNCHANGED job \/ \E j \in Jobs : job' = [job EXCEPT ![r] = j]
  BY OwnVariables
<1>4. /\ pc \in [Requests -> {"idle"} \union Working \union Ended]
      /\ job \in [Requests -> Jobs \union {None}]
      /\ faults \in 0..MaxFaults /\ embedder \in BOOLEAN
  BY DEF IInv, TypeOK
<1>5. pc' \in [Requests -> {"idle"} \union Working \union Ended]
  BY <1>1, <1>4 DEF Goto
<1>6. job' \in [Requests -> Jobs \union {None}]
  BY <1>3, <1>4
<1>7. faults' \in 0..MaxFaults
  BY <1>2, <1>4, BoundsAssumption DEF Fault
<1> QED BY <1>2, <1>4, <1>5, <1>6, <1>7

\* What a handler reads of a row.
LEMMA HistoryNext ==
    ASSUME IInv, NEW r \in Requests, RequestStep(r)
    PROVE  /\ seen' \in [Requests -> Categories \union {None}]
           /\ replaced' \in [Requests -> Categories \union {None}]
           /\ ended' \in [Requests -> SUBSET Requests]
<1> USE DEF IInv, TypeOK, rows, history
<1>1. CASE Begin(r)
  BY <1>1 DEF Begin
<1>2. CASE GetByID(r)
  <2>1. enrichment[job[r].txn].category \in Categories \union {None}
    BY <1>2, JobsAssumption DEF GetByID, Prepared, Enrichment
  <2> QED BY <1>2, <2>1 DEF GetByID
<1>3. CASE Correct(r)
  <2>1. enrichment[job[r].txn].category \in Categories \union {None}
    BY <1>3, JobsAssumption DEF Correct, Prepared, Enrichment
  <2> QED BY <1>3, <2>1 DEF Correct
<1> QED
  BY <1>1, <1>2, <1>3
  DEF RequestStep, GetBySlug, SaveTaggingHint, Reread, RememberFact, RecallTaggingHints,
      EnrichRow, FindLabel, CreateLabel, LabelByAPI, LabelByPage, LabelByTool

LEMMA EnrichmentNext ==
    ASSUME IInv, NEW r \in Requests, RequestStep(r)
    PROVE  enrichment' \in [Txns -> Enrichment]
<1> USE DEF IInv, TypeOK, rows, history
<1>1. ASSUME NEW t \in Txns, NEW c \in Categories \union {None},
             NEW n \in Requests \union {None}, NEW s \in TaggingStatusEnum,
             UpdateEnrichment(t, c, n, s)
      PROVE  enrichment' \in [Txns -> Enrichment]
  BY <1>1 DEF UpdateEnrichment, Coalesce, Enrichment
<1>2. CASE Correct(r)
  BY <1>1, <1>2, JobsAssumption DEF Correct, Prepared, TaggingStatusEnum
<1>3. CASE EnrichRow(r)
  BY <1>1, <1>3, JobsAssumption DEF EnrichRow, Prepared, TaggingStatusEnum, Answers
<1> QED
  BY <1>2, <1>3
  DEF RequestStep, Begin, GetByID, GetBySlug, SaveTaggingHint, Reread, RememberFact,
      RecallTaggingHints, FindLabel, CreateLabel, LabelByAPI, LabelByPage, LabelByTool

\* Memories are only added.
LEMMA MemoriesNext ==
    ASSUME IInv, NEW r \in Requests, RequestStep(r)
    PROVE  /\ memories' \in Seq(Memories)
           /\ Len(memories) <= Len(memories')
           /\ \A i \in DOMAIN memories : i \in DOMAIN memories' /\ memories'[i] = memories[i]
<1> USE DEF IInv, TypeOK, rows, history
<1>1. ASSUME NEW u \in Users, NEW k \in MemoryTypeEnum, NEW g \in SUBSET Words, NEW t \in Txns,
             Save(Memory(u, k, g, t, r))
      PROVE  /\ memories' \in Seq(Memories)
             /\ Len(memories) <= Len(memories')
             /\ \A i \in DOMAIN memories : i \in DOMAIN memories' /\ memories'[i] = memories[i]
  <2>1. PICK e \in BOOLEAN :
             memories' = Append(memories, [m |-> Memory(u, k, g, t, r), embedded |-> e])
    BY <1>1 DEF Save
  <2>2. Memory(u, k, g, t, r) \in [user : Users, type : MemoryTypeEnum, tags : SUBSET Words,
                                  about : Txns, by : Requests]
    BY DEF Memory
  <2>3. [m |-> Memory(u, k, g, t, r), embedded |-> e] \in Memories
    BY <2>2 DEF Memories
  <2> QED BY <2>1, <2>3
<1>0. /\ Categories \subseteq Words
      /\ \A t \in Txns : /\ LongWords[t] \subseteq Words /\ FirstWord[t] \in Words
                         /\ Counterparty[t] \in Words
      /\ \A j \in Jobs : j.tags \subseteq Words
  <2> DEFINE Of(t) == Fields[t] \union LongWords[t] \union {FirstWord[t], Counterparty[t]}
             A == UNION {Of(t) : t \in Txns}
             G == UNION {j.tags : j \in Jobs}
  <2>0. Words = Categories \union G \union A
    BY DEF Words
  <2>a. ASSUME NEW t \in Txns PROVE Of(t) \subseteq A
    BY Zenon
  <2>b. ASSUME NEW j \in Jobs PROVE j.tags \subseteq G
    BY Zenon
  <2>1. Categories \subseteq Words
    BY <2>0
  <2>2. ASSUME NEW t \in Txns PROVE Of(t) \subseteq Words
    <3> HIDE DEF A, G, Of
    <3> QED BY <2>0, <2>a
  <2>3. ASSUME NEW j \in Jobs PROVE j.tags \subseteq Words
    <3> HIDE DEF A, G
    <3> QED BY <2>0, <2>b
  <2> QED BY <2>1, <2>2, <2>3
<1>4. CASE UNCHANGED memories
  BY <1>4
<1>2. CASE SaveTaggingHint(r)
  <2>1. /\ job[r].who \in Users /\ job[r].txn \in Txns
        /\ job[r].slug \in Categories
    BY <1>2, JobsAssumption DEF SaveTaggingHint, Prepared, HintDue
  <2>2. {Counterparty[job[r].txn], job[r].slug} \in SUBSET Words
    BY <1>0, <2>1
  <2>3. \/ UNCHANGED memories
        \/ Save(Memory(job[r].who, "tagging_hint", {Counterparty[job[r].txn], job[r].slug},
                       job[r].txn, r))
    BY <1>2 DEF SaveTaggingHint
  <2>4. "tagging_hint" \in MemoryTypeEnum
    BY DEF MemoryTypeEnum
  <2>5. CASE UNCHANGED memories
    BY <1>4, <2>5
  <2> QED BY <1>1, <2>1, <2>2, <2>3, <2>4, <2>5
<1>3. CASE RememberFact(r)
  <2> DEFINE tags == IF job[r].tags # {} THEN job[r].tags ELSE autoTags(job[r].txn)
  <2>1. /\ job[r] \in Jobs /\ job[r].who \in Users /\ job[r].txn \in Txns
        /\ MemoryType(job[r].type) \in MemoryTypeEnum
    BY <1>3, JobsAssumption DEF RememberFact, Prepared, MemoryType, MemoryTypeEnum
  <2>2. tags \in SUBSET Words
    BY <1>0, <2>1 DEF autoTags
  <2>3. \/ UNCHANGED memories
        \/ Save(Memory(job[r].who, MemoryType(job[r].type), tags, job[r].txn, r))
    BY <1>3 DEF RememberFact
  <2> HIDE DEF tags
  <2> QED BY <1>1, <1>4, <2>1, <2>2, <2>3
<1> QED
  BY <1>2, <1>3, <1>4
  DEF RequestStep, Begin, GetByID, GetBySlug, Correct, Reread, RecallTaggingHints,
      EnrichRow, FindLabel, CreateLabel, LabelByAPI, LabelByPage, LabelByTool

LEMMA HintsNext ==
    ASSUME IInv, NEW r \in Requests, RequestStep(r)
    PROVE  hints' \in [Requests -> SUBSET DOMAIN memories']
<1> USE DEF IInv, TypeOK, rows, history
<1>1. DOMAIN memories \subseteq DOMAIN memories'
  BY MemoriesNext
<1>2. CASE RecallTaggingHints(r)
  <2>1. \A u, t : RecallByTags(u, t) \subseteq DOMAIN memories
    BY DEF RecallByTags, Limited, Hints
  <2>2. \A u, t : \A S \in RecallByEmbedding(u, t) : S \subseteq DOMAIN memories
    BY DEF RecallByEmbedding, Hints
  <2>3. \E S \in SUBSET DOMAIN memories : hints' = [hints EXCEPT ![r] = S]
    BY <1>2, <2>1, <2>2 DEF RecallTaggingHints
  <2> QED BY <1>1, <2>3
<1>3. CASE EnrichRow(r)
  BY <1>1, <1>3 DEF EnrichRow
<1>4. CASE UNCHANGED hints
  BY <1>1, <1>4
<1> QED
  BY <1>2, <1>3, <1>4
  DEF RequestStep, Begin, GetByID, GetBySlug, Correct, SaveTaggingHint, Reread,
      RememberFact, FindLabel, CreateLabel, LabelByAPI, LabelByPage, LabelByTool

\* A label stays as it is created.
LEMMA LabelsNext ==
    ASSUME IInv, NEW r \in Requests, RequestStep(r)
    PROVE  /\ labels' \in [Slugs -> Label \union {None}]
           /\ \A s \in Slugs : labels[s] # None => labels'[s] = labels[s]
           /\ links' \subseteq Txns \X Slugs /\ \A link \in links' : labels'[link[2]] # None
<1> USE DEF IInv, TypeOK, rows, history
<1>1. ASSUME UNCHANGED labels, Change(job[r]), pc[r] = "link"
      PROVE  links' \subseteq Txns \X Slugs /\ \A link \in links' : labels[link[2]] # None
  <2>1. job[r].txn \in Txns /\ SlugOf[job[r].name] \in Slugs
    BY <1>1, JobsAssumption DEF Prepared, Slugs
  <2>2. CASE job[r].do = "add" /\ AddTransactionLabel(job[r])
    BY <1>1, <2>1, <2>2 DEF AddTransactionLabel, Prepared
  <2>3. CASE RemoveTransactionLabel(job[r])
    BY <2>3 DEF RemoveTransactionLabel
  <2> QED BY <1>1, <2>2, <2>3 DEF Change
<1>2. CASE UNCHANGED <<labels, links>>
  BY <1>2
<1>3. CASE CreateLabel(r)
  <2>1. job[r].who \in Users /\ job[r].name \in Names /\ SlugOf[job[r].name] \in Slugs
    BY <1>3, JobsAssumption DEF CreateLabel, Prepared, Slugs
  <2>2. [user |-> job[r].who, name |-> job[r].name, by |-> r] \in Label
    BY <2>1 DEF Label
  <2>3. CASE UNCHANGED labels
    BY <1>2, <1>3, <2>3 DEF CreateLabel
  <2>4. CASE /\ labels[SlugOf[job[r].name]] = None
             /\ labels' = [labels EXCEPT ![SlugOf[job[r].name]] =
                   [user |-> job[r].who, name |-> job[r].name, by |-> r]]
    <3>1. UNCHANGED links
      BY <1>3 DEF CreateLabel
    <3>2. [user |-> job[r].who, name |-> job[r].name, by |-> r] # None
      BY <2>2, NoneAssumption
    <3> QED BY <2>1, <2>2, <2>4, <3>1, <3>2
  <2> QED BY <1>3, <2>3, <2>4 DEF CreateLabel
<1>4. CASE LabelByAPI(r) \/ LabelByPage(r) \/ LabelByTool(r)
  BY <1>1, <1>2, <1>4 DEF LabelByAPI, LabelByPage, LabelByTool
<1> QED
  BY <1>2, <1>3, <1>4
  DEF RequestStep, Begin, GetByID, GetBySlug, Correct, SaveTaggingHint, Reread,
      RememberFact, RecallTaggingHints, EnrichRow, FindLabel

LEMMA TypeNext == ASSUME IInv, NEW r \in Requests, RequestStep(r) PROVE TypeOK'
BY ControlNext, HistoryNext, EnrichmentNext, MemoriesNext, HintsNext, LabelsNext DEF TypeOK

\* A request that gets to a statement is prepared for it.
LEMMA PreparedNext ==
    ASSUME IInv, NEW r \in Requests, RequestStep(r)
    PROVE  Prepared'
<1> USE DEF IInv, TypeOK, Goto, Fault, rows, history
<1> USE JobsAssumption, DataAssumption
<1>1. CASE Begin(r)
  <2>1. /\ job'[r] \in Jobs
        /\ \/ job'[r].do = "pass" /\ pc'[r] = "recall"
           \/ job'[r].do = "remember" /\ pc'[r] = "save"
           \/ job'[r].do # "edit" /\ pc'[r] = "find"
           \/ pc'[r] = "own"
    BY <1>1 DEF Begin, First
  <2>2. /\ UNCHANGED labels
        /\ \A q \in Requests : q # r => UNCHANGED <<pc[q], job[q]>>
    BY <1>1 DEF Begin, First
  <2> QED BY <2>1, <2>2 DEF Prepared, HintDue
<1>2. CASE GetByID(r)
  BY <1>2 DEF GetByID, Prepared, HintDue
<1>3. CASE GetBySlug(r)
  BY <1>3 DEF GetBySlug, Prepared, HintDue
<1>4. CASE Correct(r)
  BY <1>4 DEF Correct, Prepared, HintDue
<1>5. CASE SaveTaggingHint(r)
  BY <1>5 DEF SaveTaggingHint, Prepared, HintDue
<1>6. CASE Reread(r)
  BY <1>6 DEF Reread, Prepared, HintDue
<1>7. CASE RememberFact(r)
  BY <1>7 DEF RememberFact, Prepared, HintDue
<1>8. CASE RecallTaggingHints(r)
  BY <1>8 DEF RecallTaggingHints, Prepared, HintDue
<1>9. CASE EnrichRow(r)
  BY <1>9 DEF EnrichRow, Prepared, HintDue
<1>10. CASE FindLabel(r)
  BY <1>10 DEF FindLabel, GetLabel, Prepared, HintDue
<1>11. CASE CreateLabel(r)
  <2>1. job[r] \in Jobs /\ SlugOf[job[r].name] \in Slugs
    BY <1>11 DEF CreateLabel, Prepared, Slugs
  <2>2. /\ UNCHANGED job /\ pc[r] = "create"
        /\ \A q \in Requests :
              pc'[q] # pc[q] => q = r /\ pc'[q] \in {"link", "taken", "failed"}
    BY <1>11 DEF CreateLabel
  <2>3. pc'[r] = "link" => labels'[SlugOf[job[r].name]] # None
    BY <1>11, <2>1, LabelsNext, NoneAssumption DEF CreateLabel, Label
  <2>4. ASSUME NEW q \in Requests, pc[q] = "link", job[q].do = "add"
        PROVE  labels'[SlugOf[job[q].name]] # None
    <3>1. SlugOf[job[q].name] \in Slugs /\ labels[SlugOf[job[q].name]] # None
      BY <2>4 DEF Prepared, Slugs
    <3> QED BY <3>1, LabelsNext
  <2> QED BY <2>1, <2>2, <2>3, <2>4 DEF Prepared, HintDue
<1>12. CASE LabelByAPI(r)
  BY <1>12 DEF LabelByAPI, Prepared, HintDue
<1>13. CASE LabelByPage(r)
  BY <1>13 DEF LabelByPage, Prepared, HintDue
<1>14. CASE LabelByTool(r)
  BY <1>14 DEF LabelByTool, Prepared, HintDue
<1> QED BY <1>1, <1>2, <1>3, <1>4, <1>5, <1>6, <1>7, <1>8, <1>9, <1>10, <1>11, <1>12,
    <1>13, <1>14 DEF RequestStep

\* A request that has ended stays so.
LEMMA EndedNext ==
    ASSUME IInv, NEW r \in Requests, RequestStep(r)
    PROVE  EndedStays'
<1> USE DEF IInv, TypeOK, Goto, Fault, rows, history
<1>1. CASE Begin(r)
  BY <1>1 DEF Begin, First, EndedStays, Ended
<1>2. CASE GetByID(r)
  BY <1>2 DEF GetByID, EndedStays, Ended
<1>3. CASE GetBySlug(r)
  BY <1>3 DEF GetBySlug, EndedStays, Ended
<1>4. CASE Correct(r)
  BY <1>4 DEF Correct, EndedStays, Ended
<1>5. CASE SaveTaggingHint(r)
  BY <1>5 DEF SaveTaggingHint, EndedStays, Ended
<1>6. CASE Reread(r)
  BY <1>6 DEF Reread, EndedStays, Ended
<1>7. CASE RememberFact(r)
  BY <1>7 DEF RememberFact, EndedStays, Ended
<1>8. CASE RecallTaggingHints(r)
  BY <1>8 DEF RecallTaggingHints, EndedStays, Ended
<1>9. CASE EnrichRow(r)
  BY <1>9 DEF EnrichRow, EndedStays, Ended
<1>10. CASE FindLabel(r)
  BY <1>10 DEF FindLabel, EndedStays, Ended
<1>11. CASE CreateLabel(r)
  BY <1>11 DEF CreateLabel, EndedStays, Ended
<1>12. CASE LabelByAPI(r)
  BY <1>12 DEF LabelByAPI, EndedStays, Ended
<1>13. CASE LabelByPage(r)
  BY <1>13 DEF LabelByPage, EndedStays, Ended
<1>14. CASE LabelByTool(r)
  BY <1>14 DEF LabelByTool, EndedStays, Ended
<1> QED BY <1>1, <1>2, <1>3, <1>4, <1>5, <1>6, <1>7, <1>8, <1>9, <1>10, <1>11, <1>12,
    <1>13, <1>14 DEF RequestStep

\* A label created meanwhile is by a request that has not ended.
LEMMA NoneMissedNext ==
    ASSUME IInv, NEW r \in Requests, RequestStep(r)
    PROVE  NoneMissed'
<1> USE DEF IInv, TypeOK, Goto, Fault, rows, history
<1> USE NoneAssumption, DataAssumption
<1>1. CASE Begin(r)
  BY <1>1 DEF Begin, First, NoneMissed, EndedStays, Ended, GetLabel
<1>2. CASE GetByID(r)
  BY <1>2 DEF GetByID, NoneMissed, EndedStays, Ended, GetLabel
<1>3. CASE GetBySlug(r)
  BY <1>3 DEF GetBySlug, NoneMissed, EndedStays, Ended, GetLabel
<1>4. CASE Correct(r)
  BY <1>4 DEF Correct, NoneMissed, EndedStays, Ended, GetLabel
<1>5. CASE SaveTaggingHint(r)
  BY <1>5 DEF SaveTaggingHint, NoneMissed, EndedStays, Ended, GetLabel
<1>6. CASE Reread(r)
  BY <1>6 DEF Reread, NoneMissed, EndedStays, Ended, GetLabel
<1>7. CASE RememberFact(r)
  BY <1>7 DEF RememberFact, NoneMissed, EndedStays, Ended, GetLabel
<1>8. CASE RecallTaggingHints(r)
  BY <1>8 DEF RecallTaggingHints, NoneMissed, EndedStays, Ended, GetLabel
<1>9. CASE EnrichRow(r)
  BY <1>9 DEF EnrichRow, NoneMissed, EndedStays, Ended, GetLabel
<1>10. CASE FindLabel(r)
  BY <1>10 DEF FindLabel, NoneMissed, EndedStays, Ended, GetLabel
<1>11. CASE CreateLabel(r)
  <2>1. /\ UNCHANGED <<job, ended>> /\ pc[r] = "create"
        /\ \A q \in Requests : pc'[q] # pc[q] => q = r /\ pc'[q] \in {"link", "taken", "failed"}
        /\ pc'[r] = "taken" => UNCHANGED labels /\ labels[SlugOf[job[r].name]] # None
    BY <1>11 DEF CreateLabel
  <2>2. \A s \in Slugs : UNCHANGED labels[s] \/ (labels[s] = None /\ labels'[s].by = r)
    BY <1>11 DEF CreateLabel
  <2>3. \A q \in Requests : r \notin ended[q]
    BY <2>1 DEF EndedStays, Ended
  <2> SUFFICES ASSUME NEW q \in Requests, pc'[q] \in {"create", "taken"}
               PROVE  LET found == labels'[SlugOf[job[q].name]] IN
                      /\ found # None => found.by \notin ended[q]
                      /\ pc'[q] = "taken" => found # None
    BY <2>1 DEF NoneMissed
  <2>4. pc[q] \in {"create", "taken"}
    BY <2>1
  <2>5. SlugOf[job[q].name] \in Slugs
    BY <2>4, JobsAssumption DEF Prepared, Slugs
  <2>6. pc[q] = "taken" => labels'[SlugOf[job[q].name]] = labels[SlugOf[job[q].name]]
    BY <2>5, LabelsNext DEF NoneMissed
  <2> QED BY <2>1, <2>2, <2>3, <2>4, <2>5, <2>6 DEF NoneMissed
<1>12. CASE LabelByAPI(r)
  BY <1>12 DEF LabelByAPI, NoneMissed, EndedStays, Ended, GetLabel
<1>13. CASE LabelByPage(r)
  BY <1>13 DEF LabelByPage, NoneMissed, EndedStays, Ended, GetLabel
<1>14. CASE LabelByTool(r)
  BY <1>14 DEF LabelByTool, NoneMissed, EndedStays, Ended, GetLabel
<1> QED BY <1>1, <1>2, <1>3, <1>4, <1>5, <1>6, <1>7, <1>8, <1>9, <1>10, <1>11, <1>12,
    <1>13, <1>14 DEF RequestStep

\* The hint of a correction is saved before its last statement, and kept.
LEMMA HintedNext ==
    ASSUME IInv, NEW r \in Requests, RequestStep(r)
    PROVE  Hinted'
<1> USE DEF IInv, TypeOK, Goto, Fault, rows, history
<1> SUFFICES ASSUME NEW q \in Requests,
                    pc'[q] \in {"reread", "done"}, job'[q].do = "edit", faults' = 0,
                    job'[q].slug # None, Counterparty[job'[q].txn] # None,
                    seen'[q] = replaced'[q], replaced'[q] # job'[q].slug
             PROVE  \E i \in DOMAIN memories' :
                       memories'[i].m.by = q /\ memories'[i].m.user = OwnerOf[job'[q].txn]
  BY DEF Hinted
<1>1. faults = 0
  BY BoundsAssumption
  DEF RequestStep, Begin, GetByID, GetBySlug, Correct, SaveTaggingHint, Reread,
      RememberFact, RecallTaggingHints, EnrichRow, FindLabel, CreateLabel, LabelByAPI,
      LabelByPage, LabelByTool
<1>2. CASE pc[q] \in {"reread", "done"} /\ UNCHANGED <<job[q], seen[q], replaced[q]>>
  <2>1. PICK i \in DOMAIN memories :
           memories[i].m.by = q /\ memories[i].m.user = OwnerOf[job[q].txn]
    BY <1>1, <1>2 DEF Hinted
  <2>2. i \in DOMAIN memories' /\ memories'[i] = memories[i]
    BY MemoriesNext
  <2> QED BY <1>2, <2>1, <2>2
<1>3. CASE q # r
  <2>1. UNCHANGED <<pc[q], job[q], seen[q], replaced[q]>>
    BY <1>3
    DEF RequestStep, First, Begin, GetByID, GetBySlug, Correct, SaveTaggingHint, Reread,
        RememberFact, RecallTaggingHints, EnrichRow, FindLabel, CreateLabel, LabelByAPI,
        LabelByPage, LabelByTool
  <2> QED BY <1>2, <2>1
<1>4. CASE q = r /\ Reread(r)
  BY <1>2, <1>4 DEF Reread
<1>5. CASE q = r /\ SaveTaggingHint(r)
  <2>1. UNCHANGED <<job, seen, replaced>> /\ pc[r] = "hint"
    BY <1>5 DEF SaveTaggingHint
  <2> DEFINE g == {Counterparty[job[r].txn], job[r].slug}
  <2>0. Save(Memory(job[r].who, "tagging_hint", g, job[r].txn, r))
    <3>1. OldCategory(r) # job[r].slug
      BY <1>5, <2>1 DEF OldCategory
    <3>2. ~(faults < MaxFaults /\ faults' = faults + 1)
      BY <1>1
    <3> QED BY <1>5, <3>1, <3>2 DEF SaveTaggingHint
  <2>2. PICK e \in BOOLEAN : memories' = Append(memories,
           [m |-> Memory(job[r].who, "tagging_hint", g, job[r].txn, r), embedded |-> e])
    BY <2>0 DEF Save
  <2> HIDE DEF g
  <2>3. memories'[Len(memories) + 1].m = Memory(job[r].who, "tagging_hint", g, job[r].txn, r)
    BY <2>2
  <2>4. Len(memories) + 1 \in DOMAIN memories'
    BY <2>2
  <2>5. OwnerOf[job[r].txn] = job[r].who
    BY <1>5, <2>1 DEF Prepared
  <2> QED BY <1>5, <2>1, <2>3, <2>4, <2>5 DEF Memory
<1>6. CASE q = r /\ ~Reread(r) /\ ~SaveTaggingHint(r)
  <2> DEFINE Due == /\ pc'[r] \in {"reread", "done"} /\ job'[r].do = "edit"
                    /\ job'[r].slug # None /\ Counterparty[job'[r].txn] # None
  <2>1. ASSUME Begin(r) PROVE ~Due
    <3>1. pc'[r] \notin {"reread", "done"}
      BY <2>1 DEF Begin, First
    <3> QED BY <3>1
  <2>2. ASSUME GetByID(r) \/ GetBySlug(r) PROVE ~Due
    <3>1. pc'[r] \notin {"reread", "done"}
      BY <2>2 DEF GetByID, GetBySlug
    <3> QED BY <3>1
  <2>3. ASSUME Correct(r) PROVE ~Due
    BY <2>3 DEF Correct, HintDue
  <2>4. ASSUME RememberFact(r) \/ RecallTaggingHints(r) \/ EnrichRow(r) PROVE ~Due
    <3>1. job[r].do # "edit" /\ UNCHANGED job
      BY <2>4 DEF RememberFact, RecallTaggingHints, EnrichRow, Prepared
    <3> QED BY <3>1
  <2>5. ASSUME \/ FindLabel(r) \/ CreateLabel(r)
               \/ LabelByAPI(r) \/ LabelByPage(r) \/ LabelByTool(r)
        PROVE  ~Due
    <3>1. job[r].do # "edit" /\ UNCHANGED job
      BY <2>5 DEF FindLabel, CreateLabel, LabelByAPI, LabelByPage, LabelByTool, Prepared
    <3> QED BY <3>1
  <2>6. ~Due
    BY <1>6, <2>1, <2>2, <2>3, <2>4, <2>5 DEF RequestStep
  <2> QED BY <1>6, <2>6
<1> QED BY <1>3, <1>4, <1>5, <1>6

\* Every n up to L, if 0 is one and each step leads to the next.
LEMMA Climb ==
    ASSUME NEW L \in Nat, NEW S \in SUBSET (0 .. L), 0 \in S,
           \A n \in 1 .. L : n - 1 \in S => n \in S
    PROVE  L \in S
<1> DEFINE T == (0 .. L) \ S
           R == OpToRel(<, Nat)
<1> HIDE DEF R
<1> SUFFICES ASSUME T # {} PROVE FALSE
  OBVIOUS
<1>1. T \in SUBSET Nat
  OBVIOUS
<1>2. PICK x \in T : \A y \in T : ~(<<y, x>> \in R)
  <2> HIDE DEF T
  <2>1. IsWellFoundedOn(R, Nat)
    BY NatLessThanWellFounded DEF R
  <2> QED BY <1>1, <2>1, WFMin, Zenon
<1>3. x - 1 \in 0 .. L /\ x \in Nat /\ x \in 1 .. L
  OBVIOUS
<1>4. x - 1 \notin T
  <2>1. x - 1 < x /\ x - 1 \in Nat
    BY <1>3
  <2>2. <<x - 1, x>> \in R
    BY <1>3, <2>1 DEF OpToRel, R
  <2> QED BY <1>2, <2>2
<1> QED BY <1>3, <1>4

\* What a limit of the newest leaves out is older than as many as the limit allows: the
\* last x with that many above it has exactly that many, and they are what is kept.
LEMMA CrowdedOut ==
    ASSUME NEW S, NEW n \in Nat, S \subseteq 1..n, NEW k \in S, k \notin Limited(S)
    PROVE  Cardinality({i \in Limited(S) : i > k}) = HintLimit
<1> DEFINE Above(x) == {y \in S : y > x}
           Most == {d \in 0 .. n - k : Cardinality(Above(k + d)) >= HintLimit}
<1>0. S \subseteq Nat /\ k \in 1..n /\ \A y \in S : y \in Nat /\ y <= n
  OBVIOUS
<1>1. \A x \in Nat : IsFiniteSet(Above(x)) /\ Cardinality(Above(x)) \in Nat
  <2>1. IsFiniteSet(1..n)
    BY FS_Interval
  <2>2. \A x \in Nat : Above(x) \subseteq 1..n
    OBVIOUS
  <2>3. \A x \in Nat : IsFiniteSet(Above(x))
    BY <2>1, <2>2, FS_Subset
  <2> HIDE DEF Above
  <2> QED BY <2>3, FS_CardinalityType
<1>2. \A x, y \in Nat : x <= y => Cardinality(Above(y)) <= Cardinality(Above(x))
  <2> SUFFICES ASSUME NEW x \in Nat, NEW y \in Nat, x <= y
               PROVE  Cardinality(Above(y)) <= Cardinality(Above(x))
    OBVIOUS
  <2>1. Above(y) \subseteq Above(x)
    <3>1. \A z \in S : z > y => z > x
      BY <1>0
    <3> QED BY <3>1
  <2> HIDE DEF Above
  <2> QED BY <1>1, <2>1, FS_Subset
<1>3. Limited(S) = {i \in S : Cardinality(Above(i)) < HintLimit}
  BY DEF Limited
<1>4. 0 \in Most
  <2>1. Cardinality(Above(k)) >= HintLimit
    <3> HIDE DEF Above
    <3> QED BY <1>0, <1>1, <1>3, BoundsAssumption
  <2> HIDE DEF Above
  <2> QED BY <1>0, <2>1
<1>5. n - k \notin Most
  <2>1. Above(k + (n - k)) = {}
    <3>1. k + (n - k) = n /\ \A z \in S : ~(z > n)
      BY <1>0
    <3> QED BY <3>1
  <2> HIDE DEF Above
  <2> QED BY <2>1, FS_EmptySet, BoundsAssumption
<1>6. PICK d \in 1 .. n - k : d - 1 \in Most /\ d \notin Most
  <2> HIDE DEF Most
  <2>1. Most \in SUBSET (0 .. n - k)
    BY DEF Most
  <2> QED BY <1>0, <1>4, <1>5, <2>1, Climb
<1> DEFINE x == k + (d - 1)
<1>7. /\ x \in Nat /\ x + 1 \in Nat /\ x >= k /\ x + 1 <= n
      /\ Cardinality(Above(x)) >= HintLimit /\ Cardinality(Above(x + 1)) < HintLimit
  <2>1. x \in Nat /\ x + 1 = k + d /\ x >= k /\ x + 1 <= n /\ d \in 0 .. n - k
    BY <1>0
  <2> HIDE DEF Above, x
  <2>2. Cardinality(Above(x)) >= HintLimit
    BY <1>6 DEF x
  <2>3. ~(Cardinality(Above(x + 1)) >= HintLimit)
    BY <1>6, <2>1
  <2> QED BY <1>1, <2>1, <2>2, <2>3, BoundsAssumption
<1> HIDE DEF x, Most
<1>8. Cardinality(Above(x)) = HintLimit
  <2>1. CASE x + 1 \in S
    <3>1. Above(x) = Above(x + 1) \union {x + 1} /\ x + 1 \notin Above(x + 1)
      <4>1. /\ \A z \in S : z > x <=> z > x + 1 \/ z = x + 1
            /\ ~(x + 1 > x + 1)
        BY <1>0, <1>7
      <4> QED BY <2>1, <4>1
    <3> HIDE DEF Above
    <3>2. Cardinality(Above(x)) = Cardinality(Above(x + 1)) + 1
      BY <1>1, <1>7, <3>1, FS_AddElement
    <3> QED BY <1>1, <1>7, <3>2, BoundsAssumption
  <2>2. CASE x + 1 \notin S
    <3>1. Above(x) = Above(x + 1)
      <4>1. \A z \in S : z > x <=> z > x + 1 \/ z = x + 1
        BY <1>0, <1>7
      <4> QED BY <2>2, <4>1
    <3> HIDE DEF Above
    <3> QED BY <1>1, <1>7, <3>1, BoundsAssumption
  <2> QED BY <2>1, <2>2
<1>9. {i \in Limited(S) : i > k} = Above(x)
  <2>1. ASSUME NEW i \in Limited(S), i > k PROVE i \in Above(x)
    <3>1. i \in S /\ i \in Nat /\ Cardinality(Above(i)) < HintLimit
      <4> HIDE DEF Above
      <4> QED BY <1>0, <1>3
    <3>2. ~(i <= x)
      <4> HIDE DEF Above
      <4> QED BY <1>1, <1>2, <1>7, <3>1, BoundsAssumption
    <3> QED BY <1>7, <3>1, <3>2
  <2>2. ASSUME NEW i \in Above(x) PROVE i \in Limited(S) /\ i > k
    <3>1. i \in S /\ i \in Nat /\ i > x
      BY <1>0
    <3>2. i >= x + 1 /\ i > k
      BY <1>0, <1>7, <3>1
    <3>3. Cardinality(Above(i)) < HintLimit
      <4> HIDE DEF Above
      <4> QED BY <1>1, <1>2, <1>7, <3>1, <3>2, BoundsAssumption
    <3> HIDE DEF Above
    <3> QED BY <1>3, <3>1, <3>2, <3>3
  <2> HIDE DEF Above
  <2> QED BY <2>1, <2>2, <1>0
<1> QED BY <1>8, <1>9

\* What is added to the memories is by the request that takes the step, which has not
\* ended.
LEMMA MemoryBy ==
    ASSUME IInv, NEW r \in Requests, RequestStep(r), NEW k \in DOMAIN memories',
           k \notin DOMAIN memories
    PROVE  memories'[k].m.by = r /\ pc[r] \notin Ended
<1> USE DEF IInv, TypeOK, rows, history
<1>1. ASSUME NEW u, NEW y, NEW g, NEW t, Save(Memory(u, y, g, t, r))
      PROVE  memories'[k].m.by = r
  <2>1. PICK e \in BOOLEAN :
             memories' = Append(memories, [m |-> Memory(u, y, g, t, r), embedded |-> e])
    BY <1>1 DEF Save
  <2>2. memories'[k].m = Memory(u, y, g, t, r)
    BY <2>1
  <2> QED BY <2>2 DEF Memory
<1>2. CASE SaveTaggingHint(r)
  BY <1>1, <1>2 DEF SaveTaggingHint, Ended
<1>3. CASE RememberFact(r)
  BY <1>1, <1>3 DEF RememberFact, Ended
<1> QED
  BY <1>2, <1>3
  DEF RequestStep, Begin, GetByID, GetBySlug, Correct, Reread, RecallTaggingHints,
      EnrichRow, FindLabel, CreateLabel, LabelByAPI, LabelByPage, LabelByTool

\* Hints are left out only for newer ones: when they are recalled because the limit keeps
\* the newest, and later because what is added is by requests that have not ended.
LEMMA HeardNext ==
    ASSUME IInv, NEW r \in Requests, RequestStep(r)
    PROVE  Heard'
<1> USE DEF rows, history
<1>0. TypeOK /\ Heard /\ EndedStays
  BY DEF IInv
<1> SUFFICES ASSUME NEW q \in Requests, pc'[q] = "classify", ~embedder',
                    NEW k \in Hints(OwnerOf[job[q].txn])',
                    Relevant(k, job[q].txn)', memories'[k].m.by \in ended'[q]
             PROVE  \/ k \in hints'[q]
                    \/ Cardinality({i \in hints'[q] : i > k}) = HintLimit
                    \/ hints'[q] = {} /\ faults' > 0
  BY DEF Heard
<1>e. UNCHANGED embedder
  BY DEF RequestStep, Begin, GetByID, GetBySlug, Correct, SaveTaggingHint, Reread,
         RememberFact, RecallTaggingHints, EnrichRow, FindLabel, CreateLabel, LabelByAPI,
         LabelByPage, LabelByTool
<1>1. ~embedder /\ k \in DOMAIN memories'
  BY <1>e DEF Hints
<1>f. faults > 0 => faults' > 0
  <2>1. UNCHANGED faults \/ Fault
    BY DEF RequestStep, Begin, GetByID, GetBySlug, Correct, SaveTaggingHint, Reread,
           RememberFact, RecallTaggingHints, EnrichRow, FindLabel, CreateLabel, LabelByAPI,
           LabelByPage, LabelByTool
  <2> QED BY <1>0, <2>1, BoundsAssumption DEF Fault, TypeOK
<1>2. CASE q = r /\ RecallTaggingHints(r)
  <2> DEFINE S == {x \in Hints(OwnerOf[job[r].txn]) : Relevant(x, job[r].txn)}
  <2>1. UNCHANGED <<memories, job>>
    BY <1>2 DEF RecallTaggingHints
  <2>2. RecallByTags(OwnerOf[job[r].txn], job[r].txn) = Limited(S)
    BY DEF RecallByTags, Relevant
  <2>3. hints'[r] = Limited(S) \/ (hints'[r] = {} /\ Fault)
    BY <1>0, <1>1, <1>2, <2>2 DEF RecallTaggingHints, TypeOK
  <2>4. k \in S
    BY <1>2, <2>1 DEF Hints, Relevant
  <2>5. S \subseteq 1..Len(memories) /\ Len(memories) \in Nat
    BY <1>0 DEF Hints, TypeOK
  <2>6. Fault => faults' > 0
    BY <1>0, BoundsAssumption DEF Fault, TypeOK
  <2> HIDE DEF S
  <2> QED BY <1>2, <2>3, <2>4, <2>5, <2>6, CrowdedOut
<1>3. CASE ~(q = r /\ RecallTaggingHints(r))
  <2>1. /\ pc[q] = "classify"
        /\ hints'[q] = hints[q] /\ job'[q] = job[q] /\ ended'[q] = ended[q]
    <3> USE <1>3, <1>0 DEF TypeOK, Goto
    <3>1. CASE q = r
      BY <3>1
      DEF RequestStep, First, Begin, GetByID, GetBySlug, Correct, SaveTaggingHint, Reread,
          RememberFact, EnrichRow, FindLabel, CreateLabel, LabelByAPI, LabelByPage,
          LabelByTool
    <3>2. CASE q # r
      <4>1. /\ \E l : Goto(r, l)
            /\ UNCHANGED hints \/ \E x : hints' = [hints EXCEPT ![r] = x]
            /\ UNCHANGED job \/ \E x : job' = [job EXCEPT ![r] = x]
            /\ UNCHANGED ended \/ \E x : ended' = [ended EXCEPT ![r] = x]
        BY OwnVariables
      <4> QED BY <3>2, <4>1
    <3> QED BY <3>1, <3>2
  <2>2. k \in DOMAIN memories
    <3>1. ASSUME k \notin DOMAIN memories PROVE FALSE
      <4>1. memories'[k].m.by = r /\ pc[r] \notin Ended
        BY <1>1, <3>1, MemoryBy
      <4> QED BY <1>0, <2>1, <4>1 DEF EndedStays
    <3> QED BY <3>1
  <2>3. memories'[k] = memories[k]
    BY <2>2, MemoriesNext
  <2>4. k \in Hints(OwnerOf[job[q].txn]) /\ Relevant(k, job[q].txn)
    BY <2>1, <2>2, <2>3 DEF Hints, Relevant
  <2> QED BY <1>0, <1>1, <1>f, <2>1, <2>3, <2>4 DEF Heard
<1> QED BY <1>2, <1>3

\* One step of the system.
LEMMA NextInvariant == IInv /\ [Next]_vars => IInv'
<1> SUFFICES ASSUME IInv, [Next]_vars PROVE IInv'
  OBVIOUS
<1>1. ASSUME NEW r \in Requests, RequestStep(r) PROVE IInv'
  BY <1>1, TypeNext, PreparedNext, EndedNext, NoneMissedNext, HintedNext,
     HeardNext DEF IInv
<1>2. CASE UNCHANGED vars
  <2> USE <1>2 DEF IInv, vars, rows, history
  <2>1. TypeOK' /\ EndedStays' /\ NoneMissed'
    BY DEF TypeOK, EndedStays, NoneMissed
  <2>2. Prepared'
    BY DEF Prepared, HintDue
  <2>3. Hinted'
    BY DEF Hinted
  <2>4. Heard'
    BY DEF Heard, Hints, Relevant
  <2> QED BY <2>1, <2>2, <2>3, <2>4
<1> QED BY <1>1, <1>2 DEF Next, RequestStep, Settled

-----------------------------------------------------------------------------
\* In every behaviour.
LEMMA Invariant == Spec => []IInv
BY InitInvariant, NextInvariant, PTL DEF Spec

\* Every variable keeps its type whatever users, the agent and passes do at once.
THEOREM TypeCorrect == Spec => []TypeOK
<1>1. IInv => TypeOK
  BY DEF IInv
<1> QED BY <1>1, Invariant, PTL

\* A correction that changed the category of a transaction with a known counterparty is
\* remembered (SaveTaggingHint, after UpdateEnrichment).
THEOREM CorrectionRememberedAlways == Spec => []CorrectionRemembered
<1>1. IInv => CorrectionRemembered
  BY DEF IInv, Hinted, CorrectionRemembered
<1> QED BY <1>1, Invariant, PTL

\* Without an embedder a hint about a counterparty among the keywords is left out only if
\* as many newer ones as are asked for are given to the LLM, or the query failed
\* (RecallTaggingHintsByTags).
THEOREM NewestCorrectionHeardAlways == Spec => []NewestCorrectionHeard
<1>1. IInv => NewestCorrectionHeard
  <2> SUFFICES ASSUME IInv, NEW r \in Requests, pc[r] = "classify", ~embedder,
                      NEW k \in Hints(OwnerOf[job[r].txn]),
                      Counterparty[memories[k].m.about] \in memories[k].m.tags,
                      Counterparty[memories[k].m.about] \in memoryKeywords(job[r].txn),
                      memories[k].m.by \in ended[r]
               PROVE  \/ k \in hints[r]
                      \/ Cardinality({i \in hints[r] : i > k}) = HintLimit
                      \/ hints[r] = {} /\ faults > 0
    BY DEF NewestCorrectionHeard
  <2>1. Relevant(k, job[r].txn)
    BY DEF Relevant
  <2> QED BY <2>1 DEF IInv, Heard
<1> QED BY <1>1, Invariant, PTL

\* A label is refused only to a request that ran at the same time as the one that created
\* the other label of the slug (FindOrCreate).
THEOREM LabelRefusedOnlyInRacesAlways == Spec => []LabelRefusedOnlyInRaces
<1>1. IInv => LabelRefusedOnlyInRaces
  BY DEF IInv, NoneMissed, LabelRefusedOnlyInRaces
<1> QED BY <1>1, Invariant, PTL

\* No correction and no pass takes away a category or notes that are there.
THEOREM NothingErasedAlways == Spec => NothingErased
<1> DEFINE Kept == \A t \in Txns :
              /\ enrichment[t].category # None => enrichment'[t].category # None
              /\ enrichment[t].notes # enrichment'[t].notes =>
                    enrichment'[t].notes \in Requests /\ enrichment'[t].status = "manual"
<1>1. IInv /\ [Next]_vars => [Kept]_vars
  <2> SUFFICES ASSUME IInv, Next PROVE Kept
    OBVIOUS
  <2>1. CASE UNCHANGED enrichment
    BY <2>1
  <2>2. ASSUME NEW r \in Requests, Correct(r) PROVE Kept
    BY <2>2 DEF Correct, UpdateEnrichment, Coalesce, IInv, TypeOK
  <2>3. ASSUME NEW r \in Requests, EnrichRow(r) PROVE Kept
    <3>1. CASE UNCHANGED enrichment
      BY <3>1
    <3>2. ASSUME NEW c \in Answers, UpdateEnrichment(job[r].txn, c, None, "auto") PROVE Kept
      BY <3>2 DEF UpdateEnrichment, Coalesce, IInv, TypeOK
    <3> QED BY <2>3, <3>1, <3>2 DEF EnrichRow
  <2> QED
    BY <2>1, <2>2, <2>3
    DEF Next, Settled, vars, rows, Begin, GetByID, GetBySlug, SaveTaggingHint, Reread,
        RememberFact, RecallTaggingHints, FindLabel, CreateLabel, LabelByAPI, LabelByPage,
        LabelByTool
<1> QED
  BY <1>1, InitInvariant, NextInvariant, PTL DEF Spec, NothingErased

=============================================================================
