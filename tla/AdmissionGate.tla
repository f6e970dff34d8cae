--------------------------- MODULE AdmissionGate ---------------------------
(***************************************************************************)
(* What the session registry promises, without counters, locks, leases or   *)
(* callbacks: at every moment the sessions that still hold a permission are *)
(* permitted by the snapshot in force.  A session is admitted under that    *)
(* snapshot, may move to a source it also permits, and may end at any time; *)
(* installing a snapshot keeps only sessions it permits and whose user      *)
(* policy did not change; a shut gate holds and admits none.                *)
(***************************************************************************)
CONSTANTS Snapshots, SessionIDs, Sessions, SourceIPs

VARIABLES
    policy,   \* the snapshot in force
    live,     \* id -> session with a permission
    shut

gateVars == <<policy, live, shut>>

Permits(p, s) ==
    /\ s.userID \in DOMAIN p.users
    /\ s.sourceIP \notin p.users[s.userID].disconnectIPs
    /\ s.port \notin p.users[s.userID].forbiddenPorts
    /\ s.addrs \cap p.users[s.userID].forbiddenIPs = {}

\* Nothing but the disconnect list and the connector limit of the node may
\* change under a session that stays.
SamePolicy(p, q, s) ==
    /\ s.userID \in DOMAIN p.users \cap DOMAIN q.users
    /\ p.speed = q.speed
    /\ [p.users[s.userID] EXCEPT !.disconnectIPs = {}]
           = [q.users[s.userID] EXCEPT !.disconnectIPs = {}]

Only(ids) == [id \in DOMAIN live \cap ids |-> live[id]]

GateInit ==
    /\ policy \in Snapshots
    /\ live = [id \in {} |-> id]
    /\ shut = FALSE

Admit(id, s) ==
    /\ ~shut
    /\ id \notin DOMAIN live
    /\ Permits(policy, s)
    /\ live' = [i \in DOMAIN live \cup {id} |-> IF i = id THEN s ELSE live[i]]
    /\ UNCHANGED <<policy, shut>>

Move(id, source) ==
    /\ ~shut
    /\ id \in DOMAIN live
    /\ Permits(policy, [live[id] EXCEPT !.sourceIP = source])
    /\ live' = [live EXCEPT ![id].sourceIP = source]
    /\ UNCHANGED <<policy, shut>>

Keep(ids) ==
    /\ live' = Only(ids)
    /\ UNCHANGED <<policy, shut>>

Install(p, ids) ==
    /\ ~shut
    /\ policy' = p
    /\ live' = Only(ids)
    /\ \A id \in DOMAIN live \cap ids :
           Permits(p, live[id]) /\ SamePolicy(policy, p, live[id])
    /\ UNCHANGED shut

Shut ==
    /\ shut' = TRUE
    /\ live' = Only({})
    /\ UNCHANGED policy

GateNext ==
    \/ \E id \in SessionIDs, s \in Sessions : Admit(id, s)
    \/ \E id \in SessionIDs, source \in SourceIPs : Move(id, source)
    \/ \E ids \in SUBSET SessionIDs : Keep(ids)
    \/ \E p \in Snapshots, ids \in SUBSET SessionIDs : Install(p, ids)
    \/ Shut

GateSpec == GateInit /\ [][GateNext]_gateVars
=============================================================================
