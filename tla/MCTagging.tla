------------------------------ MODULE MCTagging ------------------------------
EXTENDS Tagging, TLC

CONSTANTS asha, ravi, t1, t2, t3

Symmetric == Permutations(Requests)

\* The description of t1 names its counterparty and no longer word, that of t2
\* a category; t3 belongs to somebody else.
MCOwnerOf == [t \in Txns |-> IF t = t3 THEN ravi ELSE asha]
MCCounterparty == [t \in Txns |-> IF t = t3 THEN None ELSE "abc@bank"]
MCFields == [t \in Txns |-> IF t = t1 THEN {"upi", "abc@bank"} ELSE {"insurance", "premium"}]
MCLongWords == [t \in Txns |-> IF t = t1 THEN {} ELSE {"insurance", "premium"}]
MCFirstWord == [t \in Txns |-> IF t = t1 THEN "upi" ELSE "insurance"]
MCNear == {<<t1, t1>>, <<t1, t2>>, <<t2, t2>>}
MCSlugOf == [n \in Names |-> IF n = "Business" THEN "business" ELSE n]

Job(door, do, t) ==
    [door |-> door, do |-> do, who |-> asha, txn |-> t, slug |-> None, notes |-> FALSE,
     name |-> "business", type |-> "general", tags |-> {}]

MCJobs ==
    {[Job("api", "edit", t1) EXCEPT !.slug = c] : c \in Categories \union {"unheard"}}
        \union {[Job("ui", "edit", t1) EXCEPT !.notes = TRUE]}
        \union {Job("api", "edit", t3)}
        \union {Job("pass", "pass", t) : t \in {t1, t2}}
        \union {[Job("agent", "remember", t1) EXCEPT !.type = "tagging_hint", !.tags = {"abc@bank"}]}
        \union {[Job("agent", "remember", t1) EXCEPT !.type = k] : k \in {"tagging_hint", "rule"}}
        \union {[Job("api", "add", t1) EXCEPT !.name = n] : n \in Names}
        \union {[Job("agent", "remove", t1) EXCEPT !.name = "Business"]}
        \union {Job(d, "remove", t1) : d \in {"api", "ui"}}
        \union {Job("ui", "add", t1), Job("agent", "add", t1), Job("agent", "tag", t1)}

=============================================================================
