------------------------------- MODULE Ledger -------------------------------
(***************************************************************************)
(* What importing promises about the transactions table, whatever the      *)
(* imports, their interleaving and their failures: a transaction           *)
(* (identified by its idempotency key) is recorded once and for ever, and  *)
(* at most one import ever reports it as Inserted, only after it has been  *)
(* recorded.  "Re-importing the same file is safe."                        *)
(***************************************************************************)
EXTENDS Naturals

CONSTANT Keys

VARIABLES
    stored,  \* how many transactions have the key
    claims   \* how many imports have reported it as Inserted

vars == <<stored, claims>>

Init ==
    /\ stored = [k \in Keys |-> 0]
    /\ claims = [k \in Keys |-> 0]

Record(k) ==
    /\ stored[k] = 0
    /\ stored' = [stored EXCEPT ![k] = 1]
    /\ UNCHANGED claims

Claim(k) ==
    /\ stored[k] = 1 /\ claims[k] = 0
    /\ claims' = [claims EXCEPT ![k] = 1]
    /\ UNCHANGED stored

Next == \E k \in Keys : Record(k) \/ Claim(k)

Spec == Init /\ [][Next]_vars

=============================================================================
