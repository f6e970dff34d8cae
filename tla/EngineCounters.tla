--------------------------- MODULE EngineCounters ---------------------------
(***************************************************************************)
(* The accounting side of internal/xrayadapter/engine.go: per-user traffic   *)
(* counters of the running Xray instance, the set of retired users that are  *)
(* still drained, and the swap-and-restore of counters.  Sessions come and   *)
(* go, and add traffic, concurrently with the main loop.                     *)
(*                                                                          *)
(* Uplink and downlink counters of a user are one set of traffic units.      *)
(* Xray registers a user's counters with the first session of that user, so  *)
(* a fresh instance has none (external: app/dispatcher and app/stats).       *)
(***************************************************************************)
EXTENDS BillingDatabase

CONSTANTS
    UserIDs,
    Snapshots,  \* [users, rate] pairs LoadSnapshot may produce
    Faults      \* the failures this instance of the model may suffer

ASSUME SnapshotsAssumption ==
    Snapshots \subseteq [users: SUBSET UserIDs, rate: Rates]

FaultNames == {"crash", "power", "database", "disk", "close", "apply", "start", "tail",
               "counter"}
ASSUME FaultsAssumption == Faults \subseteq FaultNames

VARIABLES
    instanceUp,  \* Engine.instance # nil
    snapshot,    \* Engine.snapshot
    registered,  \* users whose counters exist in the instance's stats manager
    counters,    \* traffic units in the counters of each user
    active,      \* users with sessions in the registry
    retired,     \* Engine.retired
    rateOf,      \* history: the rate in force when a unit flowed
    produced     \* history: units that flowed

engineVars == <<instanceUp, snapshot, registered, counters, active, retired>>
historyVars == <<rateOf, produced>>

NoCounters == [u \in UserIDs |-> {}]

EngineTypeOK ==
    /\ instanceUp \in BOOLEAN
    /\ snapshot \in Snapshots
    /\ registered \subseteq UserIDs
    /\ counters \in [UserIDs -> SUBSET Units]
    /\ active \subseteq UserIDs
    /\ retired \subseteq UserIDs \ snapshot.users
    /\ rateOf \in [Units -> Rates]
    /\ produced \subseteq Units

----------------------------------------------------------------------------
(* The data plane                                                           *)

OpenSession(u) ==
    /\ instanceUp
    /\ u \in snapshot.users
    /\ u \notin active
    /\ active' = active \cup {u}
    /\ registered' = registered \cup {u}
    /\ UNCHANGED <<instanceUp, snapshot, counters, retired, historyVars>>

\* The last session of u ends.
CloseSession(u) ==
    /\ u \in active
    /\ active' = active \ {u}
    /\ UNCHANGED <<instanceUp, snapshot, registered, counters, retired, historyVars>>

\* A session moves one more unit.  After instance.Close only copies that were
\* under way can still do so ("tail").  Left out: the answers of an XUDP session
\* that Mux keeps for a minute after its lease was closed are counted as well.
Traffic(u, t) ==
    /\ u \in active
    /\ instanceUp \/ "tail" \in Faults
    /\ t \notin produced
    /\ produced' = produced \cup {t}
    /\ rateOf' = [rateOf EXCEPT ![t] = snapshot.rate]
    /\ counters' = [counters EXCEPT ![u] = @ \cup {t}]
    /\ UNCHANGED <<instanceUp, snapshot, registered, active, retired>>

----------------------------------------------------------------------------
(* Operations of the main loop                                              *)

\* Start: a new instance, stats manager and registry.
StartInstance(next) ==
    /\ instanceUp' = TRUE
    /\ snapshot' = next
    /\ registered' = {}
    /\ counters' = NoCounters
    /\ active' = {}
    /\ retired' = {}

\* The users drainLocked visits.
DrainedUsers == snapshot.users \cup retired

\* Restore adds entries back to the counters that exist.
Restore(entries) ==
    counters' = [u \in UserIDs |->
                    IF u \in registered
                    THEN counters[u] \cup {e[2] : e \in {x \in entries : x[1] = u}}
                    ELSE counters[u]]

\* Mutant: a retired user that comes back stays retired.
retiredForGood(next) == retired \cup (snapshot.users \ next.users)

\* Apply, as far as it concerns accounting: who leaves is retired.
retiredAfter(next) == (retired \cup snapshot.users) \ next.users
=============================================================================
