-------------------------- MODULE BillingDatabase --------------------------
(***************************************************************************)
(* The accounting side of internal/database/mysql.go: ApplyBatch inserts    *)
(* the row of a batch and adds its traffic to the users in one transaction; *)
(* a batch whose row exists is acknowledged and changes nothing.  MySQL      *)
(* itself (atomic commit, the primary key on batch_id) is external.          *)
(***************************************************************************)
EXTENDS Outbox

VARIABLES
    rows,     \* vless_traffic_batches: ids of the applied batches
    billed    \* how often each traffic unit was added to its user

databaseVars == <<rows, billed>>

DatabaseTypeOK ==
    /\ rows \subseteq BatchIDs
    /\ billed \in [Units -> Nat]

DatabaseInit ==
    /\ rows = {}
    /\ billed = [t \in Units |-> 0]

\* Mutant: the batch row does not guard the user update.
ApplyBatchUnguarded(b) ==
    /\ rows' = rows \cup {b}
    /\ billed' = [t \in Units |->
                     IF t \in batches[b].units THEN billed[t] + 1 ELSE billed[t]]

\* A transaction of ApplyBatch that commits, or finds the row of b.
ApplyBatch(b) ==
    IF b \in rows
    THEN UNCHANGED databaseVars
    ELSE /\ rows' = rows \cup {b}
         /\ billed' = [t \in Units |->
                          IF t \in batches[b].units THEN billed[t] + 1 ELSE billed[t]]
=============================================================================
