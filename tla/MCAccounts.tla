----------------------------- MODULE MCAccounts -----------------------------
EXTENDS Accounts, TLC

CONSTANTS a0, asha, ravi, k1, k2, k3

Symmetric == Permutations(Calls \ {a0})

MCNameOf == [u \in {asha, ravi} |-> IF u = asha THEN "Asha" ELSE "Ravi"]

\* k1 and k2 have the same first characters.
MCPrefix == [k \in {k1, k2, k3} |-> IF k = k3 THEN "c" ELSE "a"]
\* The keys of the two, the wrong way round if Ravi was added with k3.
MCConfigured == << <<asha, k3>>, <<ravi, k1>> >>

MCFold == [i \in {"hdfc", "HDFC", "idfc"} |-> IF i = "HDFC" THEN "hdfc" ELSE i]

Job(door, who, do, institution, number) ==
    [door |-> door, who |-> who, do |-> do, named |-> door = "api" /\ do # "create",
     institution |-> institution, number |-> number, type |-> "savings", on |-> 1]

\* A second account added in other letters, statements of two banks, one of them
\* without an account number, an account that is added and imported at once, imports
\* that name their account: over the API, and by a command of somebody else.
MCJobs ==
    {Job("api", k, "create", "hdfc", 1) : k \in {k1, k2}}
        \union {Job("command", asha, "create", "idfc", 1)}
        \union {Job("command", asha, "import", b, 1) : b \in {"hdfc", "idfc"}}
        \union {Job("command", None, "import", "idfc", 0)}
        \union {[Job("api", k3, "balance", "hdfc", 1) EXCEPT !.on = d] : d \in {1, 2}}
        \union {Job("api", k1, "import", "hdfc", 1),
                [Job("command", ravi, "import", "idfc", 1) EXCEPT !.named = TRUE]}

\* Asha has an account, added in capital letters.
MCEarlier == {<<a0, Job("api", k1, "create", "HDFC", 2), asha, k1>>}

=============================================================================
