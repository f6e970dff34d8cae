---------------------------- MODULE AuthRefresh ----------------------------
(***************************************************************************)
(* How changes in the panel reach the data plane: refresh and reload of     *)
(* internal/lifecycle/run.go over the two queries of DB.LoadSnapshot        *)
(* (internal/database/mysql.go), composed with CredentialTable.  The panel   *)
(* changes at any time, also between the two queries; the database may be    *)
(* out of reach; the age of the last good snapshot decides when to give up.  *)
(* Reports, traffic and telemetry are in Lifecycle.                          *)
(***************************************************************************)
EXTENDS CredentialTable

CONSTANTS
    PanelStates,   \* [node, users] contents the panel's tables may have
    MaxChanges,    \* bound: changes of the panel
    AuthStale      \* auth_stale_seconds, in clock ticks

\* config.Validate: auth_stale_seconds is at least one refresh interval.
ASSUME AuthStaleAssumption == AuthStale \in Nat \ {0}
ASSUME MaxChangesAssumption == MaxChanges \in Nat

\* enabled: not switched off, not expired, traffic left.
Nodes == [available: BOOLEAN, valid: BOOLEAN, class: Nat, group: Nat, dataPlane: Nat]
PanelUsers == [enabled: BOOLEAN, admin: BOOLEAN, class: Nat, group: Nat,
               password: Passwords, wellFormed: BOOLEAN]
ASSUME PanelStatesAssumption ==
    PanelStates \subseteq [node: Nodes, users: [UserIDs -> PanelUsers]]

VARIABLES
    panel,       \* the panel's tables
    changes,     \* changes of the panel so far
    reachable,   \* the database answers
    node,        \* the node of Engine.snapshot
    nodeRead,    \* the node of the snapshot on its way in
    age          \* clock ticks since lastAuth, up to AuthStale

panelVars == <<panel, changes, reachable>>
nodeVars == <<node, nodeRead>>
vars == <<credentialVars, panelVars, nodeVars, age>>

TypeOK ==
    /\ CredentialTypeOK
    /\ panel \in PanelStates
    /\ changes \in 0..MaxChanges
    /\ reachable \in BOOLEAN
    /\ node \in Nodes
    /\ nodeRead \in Nodes
    /\ age \in 0..AuthStale

\* The WHERE clause of the second query, with what the first one read.
Eligible(n, users) ==
    {u \in UserIDs :
        /\ users[u].enabled
        /\ \/ users[u].admin
           \/ users[u].class >= n.class /\ n.group \in {0, users[u].group}}

\* compileUser isolates users whose rules do not parse.
compileUsers(n, users) ==
    {<<u, users[u].password>> : u \in {v \in Eligible(n, users) : users[v].wellFormed}}

Granted(p) == IF p.node.available THEN compileUsers(p.node, p.users) ELSE {}

Init ==
    /\ panel \in {p \in PanelStates : p.node.available /\ p.node.valid}
    /\ changes = 0
    /\ reachable = TRUE
    /\ node = panel.node
    /\ nodeRead = panel.node
    /\ age = 0
    /\ CredentialInit(Granted(panel))

----------------------------------------------------------------------------
(* The environment                                                          *)

PanelChange(p) ==
    /\ changes < MaxChanges
    /\ p # panel
    /\ panel' = p
    /\ changes' = changes + 1
    /\ UNCHANGED <<credentialVars, reachable, nodeVars, age>>

DatabaseFlips ==
    /\ "database" \in Faults
    /\ reachable' = ~reachable
    /\ UNCHANGED <<credentialVars, panel, changes, nodeVars, age>>

ClockTick ==
    /\ stage # "stopped"
    /\ age < AuthStale
    /\ age' = age + 1
    /\ UNCHANGED <<credentialVars, panelVars, nodeVars>>

----------------------------------------------------------------------------
(* refresh                                                                  *)

Untouched == <<table, snapshot, policy, controller, linkVars, removed, added, undone>>

\* Mutant: a failed refresh counts as one.
RefreshFailedForgiven ==
    /\ IF age >= AuthStale THEN EndLoop ELSE stage' = "idle" /\ UNCHANGED goal
    /\ age' = 0
    /\ UNCHANGED <<Untouched, next, panelVars, nodeVars>>

\* Any error but a missing node is tolerated until the snapshot is too old.
RefreshFailed ==
    /\ IF age >= AuthStale THEN EndLoop ELSE stage' = "idle" /\ UNCHANGED goal
    /\ UNCHANGED <<Untouched, next, panelVars, nodeVars, age>>

QueryNode ==
    /\ stage = "idle"
    /\ reachable
    /\ panel.node.available
    /\ panel.node.valid
    /\ nodeRead' = panel.node
    /\ stage' = "users"
    /\ UNCHANGED <<Untouched, next, goal, panelVars, node, age>>

\* ErrNodeUnavailable: no row, the node is hidden or its bandwidth used up.
NodeUnavailable ==
    /\ stage = "idle"
    /\ reachable
    /\ ~panel.node.available
    /\ EndLoop
    /\ UNCHANGED <<Untouched, next, panelVars, nodeVars, age>>

\* A query fails or times out, or validateNode refuses the row.
QueryFails ==
    /\ \/ stage \in {"idle", "users"} /\ "database" \in Faults
       \/ stage = "idle" /\ reachable /\ panel.node.available /\ ~panel.node.valid
    /\ RefreshFailed

dataPlaneNodeEqual(left, right) == left.dataPlane = right.dataPlane

\* Mutant: the hash covers the node only.
NodeHashEqual(creds) == nodeRead = node

\* Finalize hashes node and users.
HashEqual(creds) == nodeRead = node /\ creds = snapshot

QueryUsers ==
    /\ stage = "users"
    /\ reachable
    /\ next' = compileUsers(nodeRead, panel.users)
    /\ age' = 0
    /\ IF HashEqual(next')
       THEN stage' = "idle" /\ UNCHANGED goal
       ELSE IF dataPlaneNodeEqual(node, nodeRead)
            THEN stage' = "persist" /\ goal' = "apply"
            ELSE stage' = "close" /\ goal' = "restart"
    /\ UNCHANGED <<Untouched, panelVars, nodeVars>>

\* The context is cancelled, or a report fails.
Stop ==
    /\ stage = "idle"
    /\ EndLoop
    /\ UNCHANGED <<Untouched, next, panelVars, nodeVars, age>>

----------------------------------------------------------------------------
(* reload                                                                   *)

Publish ==
    /\ ApplyPublish
    /\ node' = nodeRead
    /\ UNCHANGED <<panelVars, nodeRead, age>>

Serve ==
    /\ Listen
    /\ node' = IF goal = "back" THEN node ELSE nodeRead
    /\ UNCHANGED <<panelVars, nodeRead, age>>

Reload ==
    \/ Publish
    \/ Serve
    \/ Reloading /\ UNCHANGED <<panelVars, nodeVars, age>>

Refresh == QueryNode \/ NodeUnavailable \/ QueryFails \/ QueryUsers

Next ==
    \/ \E p \in PanelStates : PanelChange(p)
    \/ DatabaseFlips
    \/ ClockTick
    \/ DataPlane /\ UNCHANGED <<panelVars, nodeVars, age>>
    \/ Refresh
    \/ Stop
    \/ Reload

Spec == Init /\ [][Next]_vars

\* The main loop and the clock go on; a database that answers again and again
\* also answers one whole refresh.
Fairness ==
    /\ WF_vars(Refresh)
    /\ WF_vars(Reload)
    /\ WF_vars(ClockTick)
    /\ SF_vars(QueryNode)
    /\ SF_vars(QueryUsers)

FairSpec == Spec /\ Fairness

----------------------------------------------------------------------------
(* Properties                                                               *)

(* Outside Apply, and after a failed Apply whose rollback went through, the  *)
(* users Xray accepts are exactly those of the snapshot in force, although   *)
(* Apply edits the table one user at a time.                                 *)
TableExact ==
    stage \in {"idle", "users"} \/ (stage = "failed" /\ undone) =>
        table = snapshot /\ policy = snapshot

(* RemoveUser never meets a user who is missing and AddUser never one who is *)
(* there, neither in Apply nor in its rollback: only a fault of the user     *)
(* manager itself can make Apply fail.                                       *)
OnlyFaultsFail ==
    /\ stage = "apply" => /\ UsersOf(toRemove) \subseteq UsersOf(table)
                          /\ toRemove = {} => UsersOf(toAdd) \cap UsersOf(table) = {}
    /\ stage = "undo" /\ undone =>
           /\ UsersOf(added) \subseteq UsersOf(table)
           /\ added = {} => UsersOf(removed) \cap UsersOf(table) = {}

(* A session that holds a lease belongs to a user of the registry in force:  *)
(* a user who is gone has no session, and no carrier of his opens one,       *)
(* however long ago it authenticated.                                        *)
SessionsAuthorized ==
    \A l \in sessions : controller = "open" /\ links[l][1] \in UsersOf(policy)

(* The leased sessions of the users the panel no longer grants end, and      *)
(* their credentials leave Xray's table, once the panel stays that way:      *)
(* through mixed reads, failed refreshes and reloads, or because the node    *)
(* stops.  It says nothing of a session that has no lease, because it was    *)
(* opened without a controller or outlived its lease as an XUDP session.     *)
RevocationArrives ==
    \A u \in UserIDs :
        <>[](u \notin UsersOf(Granted(panel)))
            => <>[](/\ u \notin UsersOf(table)
                    /\ \A l \in sessions : links[l][1] # u)

(* A node that never reaches the database again stops serving.               *)
StaleStops == <>[](~reachable) => <>(stage = "stopped")

(* A leased session that exists when the password of its user changes, or    *)
(* when the user goes, does not survive the step in which Update puts the    *)
(* change in force; a session without a lease is out of Update's reach.      *)
RotationRevokes ==
    [][\A l \in sessions \cap sessions' : links[l] \in policy => links[l] \in policy']_vars

(* Between refreshes every open session was authenticated with a credential  *)
(* that is still valid: docs/03 wants the sessions of an old UUID revoked.   *)
CredentialCurrent ==
    stage = "idle" => \A l \in sessions : links[l] \in policy

(* Every session was decided by a registry: docs/12 calls the registry the   *)
(* only authority for policy.                                                *)
EverySessionControlled == uncontrolled = {}
=============================================================================
