-------------------------- MODULE CredentialTable --------------------------
(***************************************************************************)
(* Who may authenticate and who may open sessions: Xray's table of VLESS    *)
(* users, which Engine.Apply (internal/xrayadapter/engine.go) edits user by *)
(* user and rolls back on an error, and the process-wide session controller *)
(* that Start registers and CloseAndDrain takes away again.                 *)
(*                                                                          *)
(* A UUID is derived from the id and the password of a user, so a credential *)
(* is that pair.  A link is a client connection whose request header was     *)
(* accepted: a single request on its way to the dispatcher, or a Mux carrier *)
(* that opens sessions for as long as it lives.  Open is one step, as        *)
(* AdmissionGate promises.                                                   *)
(***************************************************************************)
EXTENDS Naturals

CONSTANTS
    UserIDs,
    Passwords,
    Links,
    Faults      \* the failures this instance of the model may suffer

ASSUME UserIDsAssumption == UserIDs \subseteq Nat

AuthFaults == {"manager", "start", "close", "disk", "database"}
ASSUME AuthFaultsAssumption == Faults \subseteq AuthFaults

VARIABLES
    table,         \* credentials Xray's validator knows
    snapshot,      \* credentials of Engine.snapshot
    policy,        \* credentials of the users in the session registry
    controller,    \* the process-wide controller: "open", "closed" or "none"
    links,         \* the credential each link was accepted with
    sessions,      \* links with an unrevoked session that holds a lease
    uncontrolled,  \* links with a session that was opened without a lease
    stage,         \* place of the main loop
    goal,          \* what a reload is doing: "apply", "restart", "back" or "end"
    next,          \* credentials of the snapshot on its way in
    removed,       \* what Apply removed so far, or rollbackUsers has to re-add
    added,         \* what Apply added so far, or rollbackUsers has to remove
    undone         \* FALSE when a step of rollbackUsers failed

linkVars == <<links, sessions, uncontrolled>>
applyVars == <<next, removed, added, undone>>
credentialVars == <<table, snapshot, policy, controller, linkVars, stage, goal, applyVars>>

Credentials == UserIDs \X Passwords
NoCredential == <<>>

UsersOf(creds) == {c[1] : c \in creds}
OnePerUser(creds) == \A c, d \in creds : c[1] = d[1] => c = d

Stages == {"idle", "users", "persist", "apply", "undo", "failed", "close", "unregister",
           "start", "listen", "stopped"}
Goals == {"apply", "restart", "back", "end"}

CredentialTypeOK ==
    /\ table \subseteq Credentials /\ OnePerUser(table)
    /\ snapshot \subseteq Credentials /\ OnePerUser(snapshot)
    /\ policy \subseteq Credentials /\ OnePerUser(policy)
    /\ next \subseteq Credentials /\ OnePerUser(next)
    /\ controller \in {"open", "closed", "none"}
    /\ links \in [Links -> Credentials \cup {NoCredential}]
    /\ sessions \subseteq {l \in Links : links[l] # NoCredential}
    /\ uncontrolled \subseteq {l \in Links : links[l] # NoCredential}
    /\ stage \in Stages
    /\ goal \in Goals
    /\ removed \subseteq snapshot
    /\ added \subseteq next
    /\ undone \in BOOLEAN

\* After bootstrap: the first snapshot is served.
CredentialInit(creds) ==
    /\ table = creds /\ snapshot = creds /\ policy = creds /\ next = creds
    /\ controller = "open"
    /\ links = [l \in Links |-> NoCredential]
    /\ sessions = {} /\ uncontrolled = {}
    /\ stage = "idle"
    /\ goal = "apply"
    /\ removed = {} /\ added = {}
    /\ undone = TRUE

----------------------------------------------------------------------------
(* The data plane                                                           *)

\* DecodeRequestHeader asks the validator.
Authenticate(l, c) ==
    /\ links[l] = NoCredential
    /\ c \in table
    /\ links' = [links EXCEPT ![l] = c]
    /\ UNCHANGED <<sessions, uncontrolled>>

\* Mutant: the registry does not look the user up.
AdmittedUnchecked(l) == controller = "open"

\* Registry.Open knows the user by e-mail, that is by id.
Admitted(l) == controller = "open" /\ links[l][1] \in UsersOf(policy)

Open(l) ==
    /\ links[l] # NoCredential
    /\ \/ /\ Admitted(l)
          /\ sessions' = sessions \cup {l}
          /\ UNCHANGED uncontrolled
       \* Without a controller Open decides nothing and gives no lease.
       \/ /\ controller = "none"
          /\ uncontrolled' = uncontrolled \cup {l}
          /\ UNCHANGED sessions
    /\ UNCHANGED links

EndSession(l) ==
    /\ l \in sessions \cup uncontrolled
    /\ sessions' = sessions \ {l}
    /\ uncontrolled' = uncontrolled \ {l}
    /\ UNCHANGED links

\* Mutant: a session outlives its link.
DisconnectAlone(l) ==
    /\ links[l] # NoCredential
    /\ links' = [links EXCEPT ![l] = NoCredential]
    /\ UNCHANGED <<sessions, uncontrolled>>

\* The connection ends, and its context closes the lease of each of its
\* sessions.  Mux keeps an XUDP session for another minute, but without a lease
\* that the registry counts: SessionRegistry has that.
Disconnect(l) ==
    /\ links[l] # NoCredential
    /\ links' = [links EXCEPT ![l] = NoCredential]
    /\ sessions' = sessions \ {l}
    /\ uncontrolled' = uncontrolled \ {l}

----------------------------------------------------------------------------
(* Engine.Apply                                                             *)

\* Mutant: a changed UUID is not a reason to remove the user.
toRemoveMissing == {c \in snapshot : c[1] \notin UsersOf(next)} \ removed

\* The two differences Apply computes: users that left or came, and both
\* credentials of a user whose UUID changed.
toRemove == (snapshot \ next) \ removed
toAdd == (next \ snapshot) \ added

\* Users are handled in the order of their ids.
FirstOf(c, creds) == c \in creds /\ \A d \in creds : c[1] <= d[1]

Without(creds, user) == {c \in creds : c[1] # user}

\* RemoveUser and AddUser of the validator fail when the user is missing, or
\* there already; another user manager may fail at any time.
RemoveFails(c) == c[1] \notin UsersOf(table) \/ "manager" \in Faults
AddFails(c) == c[1] \in UsersOf(table) \/ "manager" \in Faults

ApplyRemove(c) ==
    /\ stage = "apply"
    /\ FirstOf(c, toRemove)
    /\ c[1] \in UsersOf(table)
    /\ table' = Without(table, c[1])
    /\ removed' = removed \cup {c}
    /\ UNCHANGED <<snapshot, policy, controller, stage, goal, next, added, undone>>

ApplyAdd(c) ==
    /\ stage = "apply"
    /\ toRemove = {}
    /\ FirstOf(c, toAdd)
    /\ c[1] \notin UsersOf(table)
    /\ table' = table \cup {c}
    /\ added' = added \cup {c}
    /\ UNCHANGED <<snapshot, policy, controller, stage, goal, next, removed, undone>>

ApplyFails(c) ==
    /\ stage = "apply"
    /\ \/ FirstOf(c, toRemove) /\ RemoveFails(c)
       \/ toRemove = {} /\ FirstOf(c, toAdd) /\ AddFails(c)
    /\ stage' = "undo"
    /\ undone' = TRUE
    /\ UNCHANGED <<table, snapshot, policy, controller, goal, next, removed, added>>

\* Mutant: Update leaves the sessions of a user whose UUID changed alone.
KeptByID == {l \in sessions : links[l][1] \in UsersOf(next)}

\* sessions.Update revokes users that left or whose entry changed.
Kept == {l \in sessions : links[l][1] \in UsersOf(snapshot \cap next)}

\* sessions.Update and the exchange of the snapshot.
ApplyPublish ==
    /\ stage = "apply"
    /\ toRemove = {} /\ toAdd = {}
    /\ snapshot' = next
    /\ policy' = next
    /\ sessions' = Kept
    /\ removed' = {} /\ added' = {}
    /\ stage' = "idle"
    /\ UNCHANGED <<table, controller, links, uncontrolled, goal, next, undone>>

\* rollbackUsers takes out what was added ...
UndoAdd(c, failed) ==
    /\ stage = "undo"
    /\ FirstOf(c, added)
    /\ IF failed THEN RemoveFails(c) ELSE c[1] \in UsersOf(table)
    /\ table' = IF failed THEN table ELSE Without(table, c[1])
    /\ undone' = (undone /\ ~failed)
    /\ added' = added \ {c}
    /\ UNCHANGED <<snapshot, policy, controller, stage, goal, next, removed>>

\* ... and then puts back what was removed, going on after an error.
UndoRemove(c, failed) ==
    /\ stage = "undo"
    /\ added = {}
    /\ FirstOf(c, removed)
    /\ IF failed THEN AddFails(c) ELSE c[1] \notin UsersOf(table)
    /\ table' = IF failed THEN table ELSE table \cup {c}
    /\ undone' = (undone /\ ~failed)
    /\ removed' = removed \ {c}
    /\ UNCHANGED <<snapshot, policy, controller, stage, goal, next, added>>

\* Mutant: what was removed is not put back.
UndoDoneEarly ==
    /\ stage = "undo"
    /\ added = {}
    /\ removed' = {}
    /\ stage' = "failed"
    /\ UNCHANGED <<table, snapshot, policy, controller, goal, next, added, undone>>

UndoDone ==
    /\ stage = "undo"
    /\ added = {} /\ removed = {}
    /\ stage' = "failed"
    /\ UNCHANGED <<table, snapshot, policy, controller, goal, next, removed, added, undone>>

----------------------------------------------------------------------------
(* The rest of reload, Start and CloseAndDrain                              *)

\* An error of a job ends the loop; shutdown closes the engine.
EndLoop ==
    /\ stage' = "close"
    /\ goal' = "end"

\* Everything of the process is gone.
Exit ==
    /\ stage' = "stopped"
    /\ links' = [l \in Links |-> NoCredential]
    /\ sessions' = {} /\ uncontrolled' = {}

\* A reload saves the traffic of the old snapshot before the new one is in
\* force; shutdown also replays, and the process exits.
Persist ==
    /\ stage = "persist"
    /\ \/ goal = "apply" /\ stage' = "apply" /\ UNCHANGED linkVars
       \/ goal = "restart" /\ stage' = "start" /\ UNCHANGED linkVars
       \/ goal = "end" /\ Exit
    /\ UNCHANGED <<table, snapshot, policy, controller, goal, applyVars>>

PersistFails ==
    /\ stage = "persist"
    /\ "disk" \in Faults
    /\ \/ goal = "apply" /\ EndLoop
       \/ goal = "restart" /\ stage' = "start" /\ goal' = "back"
    /\ UNCHANGED <<table, snapshot, policy, controller, linkVars, applyVars>>

ApplyFailed ==
    /\ stage = "failed"
    /\ EndLoop
    /\ UNCHANGED <<table, snapshot, policy, controller, linkVars, applyVars>>

\* sessions.Close: the registry revokes everything and refuses what comes.
CloseSessions ==
    /\ stage = "close"
    /\ controller' = "closed"
    /\ sessions' = {}
    /\ stage' = "unregister"
    /\ UNCHANGED <<table, snapshot, policy, links, uncontrolled, goal, applyVars>>

\* instance.Close ends listening; links that exist live on (a handshake that
\* outlives the listener is a link that authenticated earlier).  Then the
\* controller is gone.  An error of Close ends a reload and with it the loop.
Unregister ==
    /\ stage = "unregister"
    /\ controller' = "none"
    /\ table' = {}
    /\ stage' = "persist"
    /\ goal' \in {goal} \cup (IF "close" \in Faults THEN {"end"} ELSE {})
    /\ UNCHANGED <<snapshot, policy, linkVars, applyVars>>

\* Start registers the new registry before it builds the instance.
Register ==
    /\ stage = "start"
    /\ controller' = "open"
    /\ policy' = IF goal = "back" THEN snapshot ELSE next
    /\ stage' = "listen"
    /\ UNCHANGED <<table, snapshot, linkVars, goal, applyVars>>

\* BuildConfig hands all users to the instance, which listens.  After a step
\* back to the previous snapshot the error is still returned.
Listen ==
    /\ stage = "listen"
    /\ table' = policy
    /\ snapshot' = policy
    /\ IF goal = "back" THEN EndLoop ELSE stage' = "idle" /\ UNCHANGED goal
    /\ UNCHANGED <<policy, controller, linkVars, applyVars>>

\* The configuration is refused before Register, or the instance does not
\* start: the registry is closed and unregistered, and reload goes back to the
\* previous snapshot, or gives up.
StartFails ==
    /\ stage \in {"start", "listen"}
    /\ "start" \in Faults
    /\ controller' = "none"
    /\ sessions' = {}
    /\ IF goal = "back"
       THEN stage' = "persist" /\ goal' = "end"
       ELSE stage' = "start" /\ goal' = "back"
    /\ UNCHANGED <<table, snapshot, policy, links, uncontrolled, applyVars>>

----------------------------------------------------------------------------
DataPlane ==
    /\ \E l \in Links : \/ \E c \in Credentials : Authenticate(l, c)
                        \/ Open(l) \/ EndSession(l) \/ Disconnect(l)
    /\ UNCHANGED <<table, snapshot, policy, controller, stage, goal, applyVars>>

\* The steps of Apply that touch only Xray's table.
EditTable ==
    /\ \/ \E c \in Credentials :
             \/ ApplyRemove(c) \/ ApplyAdd(c) \/ ApplyFails(c)
             \/ \E failed \in BOOLEAN : UndoAdd(c, failed) \/ UndoRemove(c, failed)
       \/ UndoDone
    /\ UNCHANGED linkVars

Reloading ==
    \/ EditTable \/ Persist \/ PersistFails \/ ApplyFailed \/ CloseSessions
    \/ Unregister \/ Register \/ StartFails
=============================================================================
