------------------------------- MODULE Ledger -------------------------------
(***************************************************************************)
(* What the accounting of a node promises for every unit of traffic, with   *)
(* counters, files, transactions and failures forgotten: it may be lost      *)
(* only before it was reported as stored; it is billed at most once; and it  *)
(* is billed at the rate that was in force when it flowed.                   *)
(***************************************************************************)
CONSTANTS
    Units,
    Rates,
    BatchIDs

VARIABLES
    place,     \* "fresh", "held", "stored", "billed" or "lost"
    due,       \* the rate in force when a unit flowed
    invoices   \* the <<batch, rate>> pairs a unit was billed with

ledgerVars == <<place, due, invoices>>

LedgerInit ==
    /\ place = [t \in Units |-> "fresh"]
    /\ due \in [Units -> Rates]
    /\ invoices = [t \in Units |-> {}]

Move(units, to) == place' = [t \in Units |-> IF t \in units THEN to ELSE place[t]]

Flow(t, rate) ==
    /\ place[t] = "fresh"
    /\ Move({t}, "held")
    /\ due' = [due EXCEPT ![t] = rate]
    /\ UNCHANGED invoices

\* Save has reported a batch as stored.
Store(units) ==
    /\ \A t \in units : place[t] = "held"
    /\ Move(units, "stored")
    /\ UNCHANGED <<due, invoices>>

\* A batch may also be billed before Save has reported anything.
Bill(batch, units) ==
    /\ \A t \in units : place[t] \in {"held", "stored"}
    /\ Move(units, "billed")
    /\ invoices' = [t \in Units |-> IF t \in units THEN {<<batch, due[t]>>}
                                                   ELSE invoices[t]]
    /\ UNCHANGED due

Lose(units) ==
    /\ \A t \in units : place[t] = "held"
    /\ Move(units, "lost")
    /\ UNCHANGED <<due, invoices>>

LedgerNext ==
    \/ \E t \in Units, rate \in Rates : Flow(t, rate)
    \/ \E units \in SUBSET Units : \/ Store(units)
                                   \/ Lose(units)
                                   \/ \E batch \in BatchIDs : Bill(batch, units)

LedgerSpec == LedgerInit /\ [][LedgerNext]_ledgerVars
=============================================================================
