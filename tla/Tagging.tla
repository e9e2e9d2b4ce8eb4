------------------------------- MODULE Tagging -------------------------------
(***************************************************************************)
(* What users, the agent and the background pass do to transactions that   *)
(* are stored: corrections of the category, which leave a tagging hint in  *)
(* the memories; facts the agent remembers; hints recalled for the LLM     *)
(* that classifies; labels that are found or created by their slug.        *)
(* Requests run concurrently; each statement is a step.                    *)
(***************************************************************************)
EXTENDS Naturals, Sequences, FiniteSets

CONSTANTS
    Requests, Users, Txns, Categories, Names, None,
    OwnerOf,        \* of a transaction
    Counterparty,   \* the identifier stored with a transaction, or None
    Fields,         \* the words of a description
    LongWords,      \* of them the runs of more than four letters
    FirstWord,      \* of a description
    Near,           \* pairs of transactions whose descriptions embed close together
    SlugOf,         \* the slug a label name becomes
    HintLimit,      \* hints asked for: 3
    Jobs,           \* what a request may be for
    MaxFaults       \* bound: failing statements and calls

Label == [user : Users, name : Names, by : Requests]

ASSUME NoneAssumption ==
    None \notin Users \union Txns \union Categories \union Names \union Label
ASSUME BoundsAssumption == HintLimit \in Nat \ {0} /\ MaxFaults \in Nat
ASSUME DataAssumption ==
    /\ OwnerOf \in [Txns -> Users]
    /\ DOMAIN Counterparty = Txns /\ DOMAIN Fields = Txns /\ DOMAIN LongWords = Txns
    /\ DOMAIN FirstWord = Txns
    /\ Near \subseteq Txns \X Txns
    /\ DOMAIN SlugOf = Names
\* The handlers of the API and the page correct a category, or add or remove a
\* label; the agent has no tool that corrects one.
ASSUME JobsAssumption ==
    \A j \in Jobs :
        /\ j.who \in Users /\ j.txn \in Txns /\ j.name \in Names /\ j.notes \in BOOLEAN
        /\ j.door \in {"api", "ui"} => j.do \in {"edit", "add", "remove"}
        /\ j.do = "edit" => j.door \in {"api", "ui"}

VARIABLES
    enrichment,     \* transaction_enrichments
    memories,       \* agent_memories, the oldest first
    labels,         \* label by slug; None if there is none
    links,          \* transaction_labels
    embedder,       \* the service was started with an embedding model
    pc, job,
    seen,           \* the category in the transaction the handler read
    hints,          \* indices of the memories in the prompt of the LLM
    faults,
    replaced,       \* history: the category a correction took the place of
    ended           \* history: what had ended when a pass or the use of a label began

rows == <<enrichment, memories, labels, links>>
history == <<replaced, ended>>
vars == <<rows, embedder, pc, job, seen, hints, faults, history>>

TaggingStatusEnum == {"pending", "auto", "manual"}
MemoryTypeEnum == {"general", "tagging_hint", "recurring_hint", "preference"}
Ended == {"done", "refused", "failed", "taken"}
Working == {"own", "slug", "update", "hint", "reread", "save", "recall", "classify",
            "find", "create", "link"}

Slugs == {SlugOf[n] : n \in Names}
Enrichment == [category : Categories \union {None}, notes : Requests \union {None},
               status : TaggingStatusEnum]

Words ==
    Categories \union (UNION {j.tags : j \in Jobs}) \union
    UNION {Fields[t] \union LongWords[t] \union {FirstWord[t], Counterparty[t]} : t \in Txns}
Memories == [m : [user : Users, type : MemoryTypeEnum, tags : SUBSET Words, about : Txns,
                  by : Requests],
             embedded : BOOLEAN]

Init ==
    /\ enrichment = [t \in Txns |-> [category |-> None, notes |-> None, status |-> "pending"]]
    /\ memories = <<>> /\ labels = [s \in Slugs |-> None] /\ links = {}
    /\ pc = [r \in Requests |-> "idle"] /\ job = [r \in Requests |-> None]
    /\ seen = [r \in Requests |-> None] /\ hints = [r \in Requests |-> {}]
    /\ faults = 0 /\ embedder \in BOOLEAN
    /\ replaced = [r \in Requests |-> None] /\ ended = [r \in Requests |-> {}]

Goto(r, l) == pc' = [pc EXCEPT ![r] = l]
Fault == faults < MaxFaults /\ faults' = faults + 1

-----------------------------------------------------------------------------
(* The door of a request.  HTTP handlers look at the owner first; the tool *)
(* and the background pass work on transactions of their user.             *)
First(r, j) ==
    \/ j.do = "pass" /\ Goto(r, "recall")
    \/ j.do = "remember" /\ Goto(r, "save")
    \/ /\ j.do \notin {"pass", "remember"}
       /\ Goto(r, IF j.door = "agent" THEN "find" ELSE "own")

Begin(r) ==
    /\ pc[r] = "idle"
    /\ \E j \in Jobs :
          /\ job' = [job EXCEPT ![r] = j] /\ First(r, j)
          /\ ended' = [ended EXCEPT ![r] =
                IF j.do \in {"edit", "remember"} THEN {} ELSE {q \in Requests : pc[q] \in Ended}]
    /\ UNCHANGED <<rows, embedder, seen, hints, faults, replaced>>

\* Any error of the query is answered like an unknown transaction.
GetByID(r) ==
    LET j == job[r] IN
    /\ pc[r] = "own"
    /\ \/ Goto(r, "refused") /\ Fault /\ UNCHANGED seen
       \/ OwnerOf[j.txn] # j.who /\ Goto(r, "refused") /\ UNCHANGED <<seen, faults>>
       \/ /\ OwnerOf[j.txn] = j.who /\ UNCHANGED faults
          /\ seen' = [seen EXCEPT ![r] = IF j.do = "edit" THEN enrichment[j.txn].category ELSE None]
          /\ \/ j.do = "edit" /\ Goto(r, "slug")
             \/ j.do = "add" /\ Goto(r, "find")
             \/ j.do = "remove" /\ Goto(r, "link")
    /\ UNCHANGED <<rows, embedder, job, hints, history>>

\* GetBySlug, for a correction that names a category.
GetBySlug(r) ==
    /\ pc[r] = "slug"
    /\ \/ job[r].slug \in Categories \union {None} /\ Goto(r, "update") /\ UNCHANGED faults
       \/ job[r].slug \notin Categories \union {None} /\ Goto(r, "refused") /\ UNCHANGED faults
       \/ job[r].slug # None /\ Goto(r, "refused") /\ Fault
    /\ UNCHANGED <<rows, embedder, job, seen, hints, history>>

Coalesce_Last(new, old) == new
\* What is not given keeps its value.
Coalesce(new, old) == IF new # None THEN new ELSE old

UpdateEnrichment(t, category, notes, status) ==
    enrichment' = [enrichment EXCEPT ![t] =
        [category |-> Coalesce(category, @.category), notes |-> Coalesce(notes, @.notes),
         status |-> status]]

OldCategory_Reread(r) == enrichment[job[r].txn].category
\* Of the row as it was read before the update.
OldCategory(r) == seen[r]

\* After a correction of the category, if the counterparty is known.
HintDue(r) ==
    LET j == job[r] IN
    j.slug # None /\ Counterparty[j.txn] # None

Correct(r) ==
    LET j == job[r] IN
    /\ pc[r] = "update"
    /\ \/ /\ UpdateEnrichment(j.txn, j.slug, IF j.notes THEN r ELSE None, "manual")
          /\ replaced' = [replaced EXCEPT ![r] = enrichment[j.txn].category]
          /\ Goto(r, IF HintDue(r) THEN "hint" ELSE "reread") /\ UNCHANGED faults
       \/ Fault /\ Goto(r, "failed") /\ UNCHANGED <<enrichment, replaced>>
    /\ UNCHANGED <<memories, labels, links, embedder, job, seen, hints, ended>>

-----------------------------------------------------------------------------
(* Memories: never deactivated, without an end date.                       *)
Memory(u, type, tags, t, r) ==
    [user |-> u, type |-> type, tags |-> tags, about |-> t, by |-> r]

\* Without an embedding if there is no embedder or it fails.
Save(m) ==
    \E e \in IF embedder THEN BOOLEAN ELSE {FALSE} :
        memories' = Append(memories, [m |-> m, embedded |-> e])

\* An error is logged, no more.  If the categories cannot be listed the old one counts
\* as none.
SaveTaggingHint(r) ==
    LET j == job[r]
        hint == Memory(j.who, "tagging_hint", {Counterparty[j.txn], j.slug}, j.txn, r)
    IN
    /\ pc[r] = "hint" /\ Goto(r, "reread")
    /\ \/ OldCategory(r) # j.slug /\ Save(hint) /\ UNCHANGED faults
       \/ OldCategory(r) = j.slug /\ UNCHANGED <<memories, faults>>
       \/ OldCategory(r) # j.slug /\ Fault /\ UNCHANGED memories
       \/ OldCategory(r) # None /\ Fault /\ Save(hint)
    /\ UNCHANGED <<enrichment, labels, links, embedder, job, seen, hints, history>>

Reread(r) ==
    /\ pc[r] = "reread"
    /\ \/ Goto(r, "done") /\ UNCHANGED faults
       \/ Goto(r, "failed") /\ Fault
    /\ UNCHANGED <<rows, embedder, job, seen, hints, history>>

\* Of the remember_fact tool.
MemoryType(given) == IF given \in MemoryTypeEnum THEN given ELSE "general"

memoryKeywords(t) == IF LongWords[t] # {} THEN LongWords[t] ELSE Fields[t]

\* The topic words of a fact about a transaction.
autoTags(t) == IF LongWords[t] # {} THEN LongWords[t] ELSE {FirstWord[t]}

\* The tags are the words the LLM gives, if it gives any.
RememberFact(r) ==
    LET j == job[r]
        tags == IF j.tags # {} THEN j.tags ELSE autoTags(j.txn)
    IN
    /\ pc[r] = "save"
    /\ \/ /\ Save(Memory(j.who, MemoryType(j.type), tags, j.txn, r))
          /\ Goto(r, "done") /\ UNCHANGED faults
       \/ Fault /\ Goto(r, "failed") /\ UNCHANGED memories
    /\ UNCHANGED <<enrichment, labels, links, embedder, job, seen, hints, history>>

Hints(u) == {i \in DOMAIN memories : /\ memories[i].m.user \in {u, None}
                                     /\ memories[i].m.type = "tagging_hint"}

Limited_Oldest(S) == {i \in S : Cardinality({k \in S : k < i}) < HintLimit}
\* ORDER BY created_at DESC LIMIT.
Limited(S) == {i \in S : Cardinality({k \in S : k > i}) < HintLimit}

RecallByTags(u, t) ==
    Limited({i \in Hints(u) : \/ memories[i].m.tags = {}
                              \/ memories[i].m.tags \intersect memoryKeywords(t) # {}})

\* The nearest first: which of the near ones are nearest is left open.
RecallByEmbedding(u, t) ==
    LET close == {i \in Hints(u) : memories[i].embedded /\ <<memories[i].m.about, t>> \in Near}
        n == IF Cardinality(close) < HintLimit THEN Cardinality(close) ELSE HintLimit
    IN {S \in SUBSET close : Cardinality(S) = n}

\* By tags if there is no embedder, or it or its query fails, or nothing is near.
RecallTaggingHints(r) ==
    LET j == job[r]
        byTags == RecallByTags(OwnerOf[j.txn], j.txn)
    IN
    /\ pc[r] = "recall" /\ Goto(r, "classify")
    /\ \/ /\ embedder /\ UNCHANGED faults
          /\ \E S \in RecallByEmbedding(OwnerOf[j.txn], j.txn) :
                hints' = [hints EXCEPT ![r] = IF S = {} THEN byTags ELSE S]
       \/ embedder /\ Fault /\ hints' = [hints EXCEPT ![r] = byTags]
       \/ ~embedder /\ UNCHANGED faults /\ hints' = [hints EXCEPT ![r] = byTags]
       \/ Fault /\ hints' = [hints EXCEPT ![r] = {}]
    /\ UNCHANGED <<rows, embedder, job, seen, history>>

\* The category the LLM names; None if it names none that is known.
Answers == Categories \union {None}

\* A failure leaves the row as it is.
EnrichRow(r) ==
    /\ pc[r] = "classify" /\ hints' = [hints EXCEPT ![r] = {}]
    /\ \/ /\ \E c \in Answers : UpdateEnrichment(job[r].txn, c, None, "auto")
          /\ Goto(r, "done") /\ UNCHANGED faults
       \/ Fault /\ Goto(r, "failed") /\ UNCHANGED enrichment
    /\ UNCHANGED <<memories, labels, links, embedder, job, seen, history>>

-----------------------------------------------------------------------------
(* Labels: the slug is unique among those of all users.                    *)
GetLabel_ByName(name) ==
    IF labels[SlugOf[name]] # None /\ labels[SlugOf[name]].name = name
    THEN labels[SlugOf[name]] ELSE None
GetLabel(name) == labels[SlugOf[name]]

FindLabel(r) ==
    /\ pc[r] = "find"
    /\ \/ GetLabel(job[r].name) # None /\ Goto(r, "link") /\ UNCHANGED faults
       \/ GetLabel(job[r].name) = None /\ Goto(r, "create") /\ UNCHANGED faults
       \/ Goto(r, "failed") /\ Fault
    /\ UNCHANGED <<rows, embedder, job, seen, hints, history>>

CreateLabel(r) ==
    LET s == SlugOf[job[r].name] IN
    /\ pc[r] = "create"
    /\ \/ /\ labels[s] = None /\ Goto(r, "link") /\ UNCHANGED faults
          /\ labels' = [labels EXCEPT ![s] =
                [user |-> job[r].who, name |-> job[r].name, by |-> r]]
       \/ labels[s] # None /\ Goto(r, "taken") /\ UNCHANGED <<labels, faults>>
       \/ Goto(r, "failed") /\ Fault /\ UNCHANGED labels
    /\ UNCHANGED <<enrichment, memories, links, embedder, job, seen, hints, history>>

AddTransactionLabel(j) == links' = links \union {<<j.txn, SlugOf[j.name]>>}
RemoveTransactionLabel(j) == links' = links \ {<<j.txn, SlugOf[j.name]>>}

Change(j) ==
    \/ j.do = "add" /\ AddTransactionLabel(j)
    \/ j.do = "remove" /\ RemoveTransactionLabel(j)

LabelByAPI(r) ==
    /\ pc[r] = "link" /\ job[r].door = "api"
    /\ \/ Change(job[r]) /\ Goto(r, "done") /\ UNCHANGED faults
       \/ Fault /\ Goto(r, "failed") /\ UNCHANGED links
    /\ UNCHANGED <<enrichment, memories, labels, embedder, job, seen, hints, history>>

\* The page shows the labels as they are, also after an error.
LabelByPage(r) ==
    /\ pc[r] = "link" /\ job[r].door = "ui" /\ Goto(r, "done")
    /\ \/ Change(job[r]) /\ UNCHANGED faults
       \/ Fault /\ UNCHANGED links
    /\ UNCHANGED <<enrichment, memories, labels, embedder, job, seen, hints, history>>

\* What the tool is to do is looked at after the label has been found or created.
LabelByTool(r) ==
    LET j == job[r] IN
    /\ pc[r] = "link" /\ j.door = "agent"
    /\ \/ Change(j) /\ Goto(r, "done") /\ UNCHANGED faults
       \/ j.do \in {"add", "remove"} /\ Fault /\ Goto(r, "failed") /\ UNCHANGED links
       \/ /\ j.do \notin {"add", "remove"} /\ Goto(r, "refused")
          /\ UNCHANGED <<links, faults>>
    /\ UNCHANGED <<enrichment, memories, labels, embedder, job, seen, hints, history>>

Settled == (\A r \in Requests : pc[r] \in Ended) /\ UNCHANGED vars

Next ==
    \/ \E r \in Requests :
          \/ Begin(r) \/ GetByID(r) \/ GetBySlug(r)
          \/ Correct(r) \/ SaveTaggingHint(r) \/ Reread(r)
          \/ RememberFact(r) \/ RecallTaggingHints(r) \/ EnrichRow(r)
          \/ FindLabel(r) \/ CreateLabel(r)
          \/ LabelByAPI(r) \/ LabelByPage(r) \/ LabelByTool(r)
    \/ Settled

Spec == Init /\ [][Next]_vars

-----------------------------------------------------------------------------
(* Statuses and memory types are values of their enums, hints are memories, *)
(* and a link is of a label that exists (models.go, the foreign key of      *)
(* transaction_labels).                                                     *)
TypeOK ==
    /\ enrichment \in [Txns -> Enrichment]
    /\ memories \in Seq(Memories)
    /\ labels \in [Slugs -> Label \union {None}]
    /\ links \subseteq Txns \X Slugs /\ \A link \in links : labels[link[2]] # None
    /\ embedder \in BOOLEAN /\ faults \in 0..MaxFaults
    /\ pc \in [Requests -> {"idle"} \union Working \union Ended]
    /\ job \in [Requests -> Jobs \union {None}]
    /\ seen \in [Requests -> Categories \union {None}]
    /\ hints \in [Requests -> SUBSET DOMAIN memories]
    /\ replaced \in [Requests -> Categories \union {None}]
    /\ ended \in [Requests -> SUBSET Requests]

(* A correction that changed the category of a transaction with a known    *)
(* counterparty has left a hint of it, unless saving it failed or the      *)
(* category was changed by somebody else between the read and the update   *)
(* (handlePatchEnrichment, handleUIEnrich).                                *)
CorrectionRemembered ==
    \A r \in Requests :
        (/\ pc[r] = "done" /\ job[r].do = "edit" /\ faults = 0
         /\ job[r].slug # None /\ Counterparty[job[r].txn] # None
         /\ seen[r] = replaced[r] /\ replaced[r] # job[r].slug)
        => \E i \in DOMAIN memories :
              memories[i].m.by = r /\ memories[i].m.user = OwnerOf[job[r].txn]

(* Neither a correction nor the background pass takes away a category or   *)
(* notes that are there: they only put others in their place, and the pass *)
(* never touches the notes (UpdateEnrichment).                             *)
NothingErased ==
    [][\A t \in Txns :
          /\ enrichment[t].category # None => enrichment'[t].category # None
          /\ enrichment[t].notes # enrichment'[t].notes =>
                enrichment'[t].notes \in Requests /\ enrichment'[t].status = "manual"]_vars

(* The LLM is given every earlier hint about a counterparty that is among  *)
(* the keywords of the transaction it classifies, unless as many newer     *)
(* hints as are asked for come before it or the query failed: advice the   *)
(* user has since revised never stands alone, and none is passed over      *)
(* while there is room (RecallTaggingHintsByTags).  A counterparty that    *)
(* memoryKeywords does not take from the description is not looked for.    *)
NewestCorrectionHeard ==
    \A r \in Requests : pc[r] = "classify" /\ ~embedder =>
        \A k \in Hints(OwnerOf[job[r].txn]) :
            LET about == Counterparty[memories[k].m.about] IN
            (/\ about \in memories[k].m.tags /\ about \in memoryKeywords(job[r].txn)
             /\ memories[k].m.by \in ended[r])
            => \/ k \in hints[r]
               \/ Cardinality({i \in hints[r] : i > k}) = HintLimit
               \/ hints[r] = {} /\ faults > 0

(* A label is refused because its slug is taken only if the request that   *)
(* created the other label ran at the same time (FindOrCreate).            *)
LabelRefusedOnlyInRaces ==
    \A r \in Requests : pc[r] = "taken" =>
        labels[SlugOf[job[r].name]].by \notin ended[r]

=============================================================================
