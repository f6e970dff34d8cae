------------------------- MODULE AuthRefreshProofs -------------------------
(***************************************************************************)
(* Theorems about AuthRefresh, for every set of users, passwords, links and  *)
(* panel contents, any number of changes and every choice of faults.        *)
(***************************************************************************)
EXTENDS AuthRefresh, TLAPS

(* Nothing of an earlier Apply is left over. *)
Clean == removed = {} /\ added = {}

(* The three copies of the users agree. *)
InForce == table = snapshot /\ policy = snapshot

(* How far Apply, or its rollback, has come.  Nothing is added before all    *)
(* that has to go is removed.                                                *)
Halfway ==
    /\ policy = snapshot
    /\ controller = "open"
    /\ goal = "apply"
    /\ removed \subseteq snapshot \ next
    /\ added \subseteq next \ snapshot
    /\ added # {} => removed = snapshot \ next

Edited == table = (snapshot \ removed) \cup added

(* What holds at each place of the main loop. *)
StageInv ==
    /\ stage \in {"idle", "users"} => InForce /\ Clean /\ controller = "open"
    /\ stage = "persist" /\ goal = "apply" => InForce /\ Clean /\ controller = "open"
    /\ stage = "persist" /\ goal # "apply" => controller = "none"
    /\ stage = "apply" => Halfway /\ Edited
    /\ stage = "undo" => Halfway /\ (undone => Edited)
    /\ stage = "failed" => Halfway /\ Clean /\ (undone => Edited)
    /\ stage = "unregister" => controller = "closed"
    /\ stage = "start" => controller = "none"
    /\ stage = "listen" => controller = "open"
    /\ stage \in {"close", "unregister"} => goal \in {"restart", "end"}
    /\ stage \in {"start", "listen"} => goal \in {"restart", "back"}
    /\ stage = "persist" => goal \in {"apply", "restart", "end"}
    /\ goal = "restart" => Clean
    /\ stage = "listen" /\ goal = "back" => policy = snapshot

Inv == TypeOK /\ StageInv /\ SessionsAuthorized

----------------------------------------------------------------------------
(* compileUsers yields one credential per user. *)
LEMMA CompiledType ==
    ASSUME NEW p \in PanelStates, NEW n \in Nodes
    PROVE  compileUsers(n, p.users) \subseteq Credentials /\ OnePerUser(compileUsers(n, p.users))
<1>1. \A u \in UserIDs : p.users[u].password \in Passwords
  BY PanelStatesAssumption DEF PanelUsers
<1> QED  BY <1>1 DEF compileUsers, Eligible, Credentials, OnePerUser

LEMMA PanelNode ==
    ASSUME NEW p \in PanelStates
    PROVE  p.node \in Nodes
BY PanelStatesAssumption

LEMMA InitInv == Init => Inv
<1> SUFFICES ASSUME Init PROVE Inv
  OBVIOUS
<1>1. panel \in PanelStates /\ panel.node \in Nodes
  BY PanelNode DEF Init
<1>2. Granted(panel) = compileUsers(panel.node, panel.users)
  BY DEF Init, Granted
<1>3. Granted(panel) \subseteq Credentials /\ OnePerUser(Granted(panel))
  BY <1>1, <1>2, CompiledType
<1>4. TypeOK
  BY <1>1, <1>3, AuthStaleAssumption, MaxChangesAssumption
     DEF Init, CredentialInit, TypeOK, CredentialTypeOK, Stages, Goals
<1> QED  BY <1>4 DEF Init, CredentialInit, Inv, StageInv, InForce, Clean, SessionsAuthorized
----------------------------------------------------------------------------
(* The environment and the data plane                                       *)

(* What the panel and the clock do leaves the node alone. *)
LEMMA EnvironmentStep ==
    ASSUME Inv, (\E p \in PanelStates : PanelChange(p)) \/ DatabaseFlips \/ ClockTick
    PROVE  Inv'
<1>1. UNCHANGED credentialVars /\ UNCHANGED nodeVars
  <2>1. CASE \E p \in PanelStates : PanelChange(p)
    <3>1. PICK p \in PanelStates : PanelChange(p)
      BY <2>1
    <3> QED  BY <3>1 DEF PanelChange
  <2>2. CASE DatabaseFlips
    BY <2>2 DEF DatabaseFlips
  <2>3. CASE ClockTick
    BY <2>3 DEF ClockTick
  <2> QED  BY <2>1, <2>2, <2>3
<1>2. panel' \in PanelStates /\ changes' \in 0..MaxChanges /\ reachable' \in BOOLEAN
      /\ age' \in 0..AuthStale
  <2> USE DEF Inv, TypeOK
  <2>1. CASE \E p \in PanelStates : PanelChange(p)
    <3>1. PICK p \in PanelStates : PanelChange(p)
      BY <2>1
    <3> QED  BY <3>1, MaxChangesAssumption DEF PanelChange
  <2>2. CASE DatabaseFlips
    BY <2>2 DEF DatabaseFlips
  <2>3. CASE ClockTick
    BY <2>3, AuthStaleAssumption DEF ClockTick, panelVars
  <2> QED  BY <2>1, <2>2, <2>3
<1>3. TypeOK'
  BY <1>1, <1>2
     DEF Inv, TypeOK, CredentialTypeOK, credentialVars, linkVars, applyVars, nodeVars
<1>4. StageInv' /\ SessionsAuthorized'
  BY <1>1 DEF Inv, StageInv, SessionsAuthorized, InForce, Clean, Halfway, Edited,
              credentialVars, linkVars, applyVars
<1> QED  BY <1>3, <1>4 DEF Inv

(* A link opens sessions of users the registry knows, and only through it. *)
LEMMA DataPlaneStep ==
    ASSUME Inv, DataPlane, UNCHANGED <<panelVars, nodeVars, age>>
    PROVE  Inv'
<1> USE DEF Inv
<1>1. UNCHANGED <<table, snapshot, policy, controller, stage, goal, next, removed, added, undone>>
  BY DEF DataPlane, applyVars
<1>2. PICK l \in Links : \/ \E c \in Credentials : Authenticate(l, c)
                         \/ Open(l) \/ EndSession(l) \/ Disconnect(l)
  BY DEF DataPlane
<1>3. links \in [Links -> Credentials \cup {NoCredential}]
      /\ sessions \subseteq {m \in Links : links[m] # NoCredential}
      /\ uncontrolled \subseteq {m \in Links : links[m] # NoCredential}
  BY DEF TypeOK, CredentialTypeOK
<1>4. /\ links' \in [Links -> Credentials \cup {NoCredential}]
      /\ sessions' \subseteq {m \in Links : links'[m] # NoCredential}
      /\ uncontrolled' \subseteq {m \in Links : links'[m] # NoCredential}
      /\ SessionsAuthorized'
  <2>1. CASE \E c \in Credentials : Authenticate(l, c)
    <3>1. PICK c \in Credentials : Authenticate(l, c)
      BY <2>1
    <3>2. c # NoCredential
      BY DEF Credentials, NoCredential
    <3> QED  BY <1>1, <1>3, <3>1, <3>2 DEF Authenticate, SessionsAuthorized
  <2>2. CASE Open(l)
    BY <1>1, <1>3, <2>2 DEF Open, Admitted, SessionsAuthorized
  <2>3. CASE EndSession(l)
    BY <1>1, <1>3, <2>3 DEF EndSession, SessionsAuthorized
  <2>4. CASE Disconnect(l)
    BY <1>1, <1>3, <2>4 DEF Disconnect, SessionsAuthorized
  <2> QED  BY <1>2, <2>1, <2>2, <2>3, <2>4
<1>5. TypeOK'
  BY <1>1, <1>4 DEF TypeOK, CredentialTypeOK, panelVars, nodeVars
<1>6. StageInv'
  BY <1>1 DEF StageInv, InForce, Clean, Halfway, Edited
<1> QED  BY <1>4, <1>5, <1>6
----------------------------------------------------------------------------
(* refresh                                                                  *)

(* The variables no step of refresh touches. *)
LEMMA RefreshTypes ==
    ASSUME Inv, UNCHANGED <<Untouched, panelVars>>
    PROVE  /\ table' = table /\ snapshot' = snapshot /\ policy' = policy
           /\ controller' = controller /\ links' = links /\ sessions' = sessions
           /\ uncontrolled' = uncontrolled /\ removed' = removed /\ added' = added
           /\ undone' = undone /\ panel' = panel /\ changes' = changes
           /\ reachable' = reachable
           /\ SessionsAuthorized'
BY DEF Inv, Untouched, panelVars, linkVars, SessionsAuthorized

(* Asking the database changes nothing but the place, and what was read. *)
LEMMA RefreshStep ==
    ASSUME Inv, Refresh \/ Stop
    PROVE  Inv'
<1>1. UNCHANGED <<Untouched, panelVars>> /\ node' = node
  BY DEF Refresh, Stop, QueryNode, NodeUnavailable, QueryFails, RefreshFailed, QueryUsers,
         Untouched, panelVars, nodeVars, linkVars
<1>2. /\ table' = table /\ snapshot' = snapshot /\ policy' = policy
      /\ controller' = controller /\ links' = links /\ sessions' = sessions
      /\ uncontrolled' = uncontrolled /\ removed' = removed /\ added' = added
      /\ undone' = undone /\ panel' = panel /\ changes' = changes
      /\ reachable' = reachable
      /\ SessionsAuthorized'
  BY <1>1, RefreshTypes
<1>3. TypeOK /\ StageInv /\ panel \in PanelStates /\ nodeRead \in Nodes
  BY DEF Inv, TypeOK
<1>4. stage \in {"idle", "users"} /\ InForce /\ Clean /\ controller = "open"
  BY <1>3 DEF Refresh, Stop, QueryNode, NodeUnavailable, QueryFails, QueryUsers, StageInv
<1>5. /\ stage' \in Stages /\ goal' \in Goals
      /\ nodeRead' \in Nodes /\ age' \in 0..AuthStale
      /\ next' \subseteq Credentials /\ OnePerUser(next')
      /\ \/ stage' \in {"idle", "users"} /\ goal' = goal
         \/ stage' = "persist" /\ goal' = "apply"
         \/ stage' = "close" /\ goal' \in {"restart", "end"}
  <2>1. CASE QueryNode
    BY <1>3, <2>1, PanelNode DEF QueryNode, TypeOK, CredentialTypeOK, Stages
  <2>2. CASE NodeUnavailable \/ QueryFails \/ Stop
    BY <1>3, <2>2 DEF NodeUnavailable, QueryFails, Stop, RefreshFailed, EndLoop, nodeVars,
                      TypeOK, CredentialTypeOK, Stages, Goals
  <2>3. CASE QueryUsers
    BY <1>3, <2>3, CompiledType, AuthStaleAssumption
       DEF QueryUsers, nodeVars, TypeOK, CredentialTypeOK, Stages, Goals
  <2> QED  BY <2>1, <2>2, <2>3 DEF Refresh
<1>6. TypeOK'
  BY <1>1, <1>2, <1>3, <1>4, <1>5 DEF TypeOK, CredentialTypeOK, Clean
<1>7. StageInv'
  BY <1>2, <1>3, <1>4, <1>5 DEF StageInv, InForce, Clean, Halfway, Edited
<1> QED  BY <1>2, <1>6, <1>7 DEF Inv
----------------------------------------------------------------------------
(* Apply and its rollback                                                   *)

(* Removing a user by id takes out the one credential of that user. *)
LEMMA WithoutOne ==
    ASSUME NEW t, OnePerUser(t), NEW c \in t
    PROVE  Without(t, c[1]) = t \ {c}
BY DEF Without, OnePerUser

(* Parts of the old and the new snapshot that share no user. *)
LEMMA EditedType ==
    ASSUME TypeOK, Halfway, NEW r, NEW a, r \subseteq snapshot, a \subseteq next \ snapshot,
           a # {} => r = snapshot \ next
    PROVE  (snapshot \ r) \cup a \subseteq Credentials /\ OnePerUser((snapshot \ r) \cup a)
BY DEF TypeOK, CredentialTypeOK, OnePerUser

(* While the table is edited only the table and the progress of the edit     *)
(* change.                                                                   *)
LEMMA EditFrame ==
    ASSUME Inv, EditTable, UNCHANGED <<panelVars, nodeVars, age>>
    PROVE  /\ UNCHANGED <<snapshot, policy, controller, goal, next, links, sessions, uncontrolled>>
           /\ UNCHANGED <<panel, changes, reachable, node, nodeRead, age>>
           /\ stage \in {"apply", "undo"}
           /\ Halfway
           /\ SessionsAuthorized'
<1>1. /\ UNCHANGED <<snapshot, policy, controller, goal, next>>
      /\ stage \in {"apply", "undo"}
  <2>1. CASE \E c \in Credentials :
               \/ ApplyRemove(c) \/ ApplyAdd(c) \/ ApplyFails(c)
               \/ \E failed \in BOOLEAN : UndoAdd(c, failed) \/ UndoRemove(c, failed)
    BY <2>1 DEF ApplyRemove, ApplyAdd, ApplyFails, UndoAdd, UndoRemove
  <2>2. CASE UndoDone
    BY <2>2 DEF UndoDone
  <2> QED  BY <2>1, <2>2 DEF EditTable
<1>2. UNCHANGED <<links, sessions, uncontrolled, panel, changes, reachable, node, nodeRead, age>>
  BY DEF EditTable, linkVars, panelVars, nodeVars
<1> QED  BY <1>1, <1>2 DEF Inv, StageInv, SessionsAuthorized

(* The table is the old snapshot without what was removed and with what was  *)
(* added, and after the rollback it is the old snapshot again.               *)
LEMMA EditStep ==
    ASSUME Inv, EditTable, UNCHANGED <<panelVars, nodeVars, age>>
    PROVE  Inv'
<1>1. /\ UNCHANGED <<snapshot, policy, controller, goal, next, links, sessions, uncontrolled>>
      /\ UNCHANGED <<panel, changes, reachable, node, nodeRead, age>>
      /\ stage \in {"apply", "undo"}
      /\ Halfway
      /\ SessionsAuthorized'
  BY EditFrame
<1>2. TypeOK /\ StageInv
  BY DEF Inv
<1> DEFINE Good == /\ table' \subseteq Credentials /\ OnePerUser(table')
                   /\ undone' \in BOOLEAN
                   /\ Halfway'
                   /\ \/ stage' = "apply" /\ Edited'
                      \/ stage' = "undo" /\ (undone' => Edited')
                      \/ stage' = "failed" /\ Clean' /\ (undone' => Edited')
<1>3. ASSUME Good PROVE Inv'
  <2>1. TypeOK'
    BY <1>1, <1>2, <1>3 DEF TypeOK, CredentialTypeOK, Halfway, Stages
  <2>2. StageInv'
    BY <1>1, <1>2, <1>3 DEF StageInv, Halfway
  <2> QED  BY <1>1, <2>1, <2>2 DEF Inv
<1>4. ASSUME NEW c \in Credentials, ApplyRemove(c) PROVE Good
  <2>1. Edited /\ added = {} /\ c \in snapshot \ next /\ c \notin removed
    BY <1>1, <1>2, <1>4 DEF StageInv, Halfway, ApplyRemove, FirstOf, toRemove
  <2>2. table' = table \ {c} /\ table \subseteq Credentials /\ OnePerUser(table)
    BY <1>2, <1>4, <2>1, WithoutOne DEF ApplyRemove, Edited, TypeOK, CredentialTypeOK
  <2> QED  BY <1>1, <1>2, <1>4, <2>1, <2>2
              DEF ApplyRemove, Halfway, Edited, OnePerUser, TypeOK, CredentialTypeOK
<1>5. ASSUME NEW c \in Credentials, ApplyAdd(c) PROVE Good
  <2>1. Edited /\ c \in next \ snapshot /\ removed = snapshot \ next
    BY <1>1, <1>2, <1>5 DEF StageInv, Halfway, ApplyAdd, FirstOf, toRemove, toAdd
  <2>2. removed' = removed /\ added' = added \cup {c} /\ table' = table \cup {c}
        /\ stage' = "apply" /\ undone' \in BOOLEAN
    BY <1>2, <1>5 DEF ApplyAdd, TypeOK, CredentialTypeOK
  <2>3. Halfway' /\ Edited'
    BY <1>1, <2>1, <2>2 DEF Halfway, Edited
  <2>4. table' \subseteq Credentials /\ OnePerUser(table')
    BY <1>1, <1>2, <2>1, <2>2, <2>3, EditedType DEF Halfway, Edited
  <2> QED  BY <2>2, <2>3, <2>4
<1>6. ASSUME NEW c \in Credentials, ApplyFails(c) PROVE Good
  BY <1>1, <1>2, <1>6 DEF ApplyFails, StageInv, Halfway, Edited, TypeOK, CredentialTypeOK
<1>7. ASSUME NEW c \in Credentials, NEW failed \in BOOLEAN, UndoAdd(c, failed) PROVE Good
  <2>1. (undone => Edited) /\ c \in added /\ c \in next \ snapshot
    BY <1>1, <1>2, <1>7 DEF StageInv, Halfway, UndoAdd, FirstOf
  <2>2. table \subseteq Credentials /\ OnePerUser(table) /\ undone \in BOOLEAN
    BY <1>2 DEF TypeOK, CredentialTypeOK
  <2>3. removed' = removed /\ added' = added \ {c} /\ stage' = "undo"
        /\ undone' = (undone /\ ~failed)
        /\ table' = IF failed THEN table ELSE Without(table, c[1])
    BY <1>1, <1>7 DEF UndoAdd
  <2>4. Halfway'
    BY <1>1, <2>1, <2>3 DEF Halfway
  <2>5. table' \subseteq Credentials /\ OnePerUser(table')
    BY <2>2, <2>3 DEF Without, OnePerUser
  <2>6. undone' => Edited'
    <3> SUFFICES ASSUME undone, ~failed PROVE Edited'
      BY <2>2, <2>3
    <3>1. Edited /\ c \in table
      BY <2>1 DEF Edited
    <3>2. table' = table \ {c}
      BY <2>2, <2>3, <3>1, WithoutOne
    <3> QED  BY <1>1, <2>1, <2>3, <3>1, <3>2 DEF Edited
  <2> QED  BY <2>2, <2>3, <2>4, <2>5, <2>6
<1>8. ASSUME NEW c \in Credentials, NEW failed \in BOOLEAN, UndoRemove(c, failed) PROVE Good
  <2>1. (undone => Edited) /\ c \in removed /\ c \in snapshot \ next /\ added = {}
    BY <1>1, <1>2, <1>8 DEF StageInv, Halfway, UndoRemove, FirstOf
  <2>2. table \subseteq Credentials /\ OnePerUser(table) /\ undone \in BOOLEAN
    BY <1>2 DEF TypeOK, CredentialTypeOK
  <2>3. removed' = removed \ {c} /\ added' = added /\ stage' = "undo"
        /\ undone' = (undone /\ ~failed)
        /\ table' = IF failed THEN table ELSE table \cup {c}
    BY <1>1, <1>8 DEF UndoRemove
  <2>4. Halfway'
    BY <1>1, <2>1, <2>3 DEF Halfway
  <2>5. table' \subseteq Credentials /\ OnePerUser(table')
    <3>1. CASE failed
      BY <2>2, <2>3, <3>1
    <3>2. CASE ~failed
      <4>1. c[1] \notin UsersOf(table)
        BY <1>8, <3>2 DEF UndoRemove
      <4>2. \A d \in table : d[1] # c[1]
        BY <4>1 DEF UsersOf
      <4> QED  BY <2>2, <2>3, <3>2, <4>2 DEF OnePerUser
    <3> QED  BY <3>1, <3>2
  <2>6. undone' => Edited'
    <3> SUFFICES ASSUME undone, ~failed PROVE Edited'
      BY <2>2, <2>3
    <3> QED  BY <1>1, <2>1, <2>3 DEF Edited
  <2> QED  BY <2>2, <2>3, <2>4, <2>5, <2>6
<1>9. ASSUME UndoDone PROVE Good
  BY <1>1, <1>2, <1>9 DEF UndoDone, StageInv, Halfway, Edited, Clean, TypeOK, CredentialTypeOK
<1> QED  BY <1>3, <1>4, <1>5, <1>6, <1>7, <1>8, <1>9 DEF EditTable
----------------------------------------------------------------------------
(* The rest of reload                                                       *)

(* No session holds a lease while no registry is open. *)
LEMMA NoSessions ==
    ASSUME Inv, controller # "open"
    PROVE  sessions = {}
BY DEF Inv, SessionsAuthorized

(* What closes, opens or replaces the engine keeps the invariant. *)
LEMMA RestartStep ==
    ASSUME Inv, UNCHANGED <<panelVars, nodeVars, age>>,
           \/ Persist \/ PersistFails \/ ApplyFailed \/ CloseSessions
           \/ Unregister \/ Register \/ StartFails
    PROVE  Inv'
<1>1. TypeOK /\ StageInv /\ SessionsAuthorized
  BY DEF Inv
<1>2. UNCHANGED <<snapshot, next, removed, added, undone>>
  BY DEF Persist, PersistFails, ApplyFailed, CloseSessions, Unregister, Register, StartFails,
         applyVars
<1>3. UNCHANGED <<panel, changes, reachable, node, nodeRead, age>>
  BY DEF panelVars, nodeVars
<1> DEFINE Typed == /\ table' \subseteq Credentials /\ OnePerUser(table')
                    /\ policy' \subseteq Credentials /\ OnePerUser(policy')
                    /\ controller' \in {"open", "closed", "none"}
                    /\ links' \in [Links -> Credentials \cup {NoCredential}]
                    /\ sessions' \subseteq {l \in Links : links'[l] # NoCredential}
                    /\ uncontrolled' \subseteq {l \in Links : links'[l] # NoCredential}
                    /\ stage' \in Stages /\ goal' \in Goals
<1>4. ASSUME Typed PROVE TypeOK'
  BY <1>1, <1>2, <1>3, <1>4 DEF TypeOK, CredentialTypeOK
<1> USE DEF TypeOK, CredentialTypeOK, Stages, Goals, linkVars, applyVars
<1>5. CASE Persist
  <2>1. UNCHANGED <<table, policy, controller, goal>>
    BY <1>5 DEF Persist
  <2>2. \/ UNCHANGED <<links, sessions, uncontrolled>>
        \/ /\ links' = [l \in Links |-> NoCredential]
           /\ sessions' = {} /\ uncontrolled' = {}
    BY <1>5 DEF Persist, Exit
  <2>3. /\ stage = "persist"
        /\ \/ goal = "apply" /\ stage' = "apply"
           \/ goal = "restart" /\ stage' = "start"
           \/ goal = "end" /\ stage' = "stopped"
    BY <1>5 DEF Persist, Exit
  <2>4. Typed
    BY <1>1, <2>1, <2>2, <2>3
  <2>5. SessionsAuthorized'
    BY <1>1, <2>1, <2>2 DEF SessionsAuthorized
  <2>6. StageInv'
    BY <1>1, <1>2, <2>1, <2>3 DEF StageInv, InForce, Clean, Halfway, Edited
  <2> QED  BY <1>4, <2>4, <2>5, <2>6 DEF Inv
<1>6. CASE PersistFails
  <2>1. UNCHANGED <<table, policy, controller, links, sessions, uncontrolled>>
    BY <1>6 DEF PersistFails
  <2>2. /\ stage = "persist"
        /\ \/ goal = "apply" /\ stage' = "close" /\ goal' = "end"
           \/ goal = "restart" /\ stage' = "start" /\ goal' = "back"
    BY <1>6 DEF PersistFails, EndLoop
  <2>3. Typed /\ SessionsAuthorized'
    BY <1>1, <2>1, <2>2 DEF SessionsAuthorized
  <2>4. StageInv'
    BY <1>1, <1>2, <2>1, <2>2 DEF StageInv, InForce, Clean, Halfway, Edited
  <2> QED  BY <1>4, <2>3, <2>4 DEF Inv
<1>7. CASE ApplyFailed
  <2>1. UNCHANGED <<table, policy, controller, links, sessions, uncontrolled>>
        /\ stage' = "close" /\ goal' = "end"
    BY <1>7 DEF ApplyFailed, EndLoop
  <2>2. Typed /\ SessionsAuthorized'
    BY <1>1, <2>1 DEF SessionsAuthorized
  <2>3. StageInv'
    BY <2>1 DEF StageInv
  <2> QED  BY <1>4, <2>2, <2>3 DEF Inv
<1>8. CASE CloseSessions
  <2>1. UNCHANGED <<table, policy, links, uncontrolled, goal>> /\ stage = "close"
        /\ controller' = "closed" /\ sessions' = {} /\ stage' = "unregister"
    BY <1>8 DEF CloseSessions
  <2>2. Typed /\ SessionsAuthorized'
    BY <1>1, <2>1 DEF SessionsAuthorized
  <2>3. StageInv'
    BY <1>1, <1>2, <2>1 DEF StageInv, Clean
  <2> QED  BY <1>4, <2>2, <2>3 DEF Inv
<1>9. CASE Unregister
  <2>1. UNCHANGED <<policy, links, sessions, uncontrolled>> /\ stage = "unregister"
        /\ controller' = "none" /\ table' = {} /\ stage' = "persist"
        /\ goal' \in {goal, "end"}
    BY <1>9 DEF Unregister
  <2>2. sessions = {} /\ goal \in {"restart", "end"}
    BY <1>1, <2>1, NoSessions DEF StageInv
  <2>3. Typed /\ SessionsAuthorized'
    BY <1>1, <2>1, <2>2 DEF SessionsAuthorized, OnePerUser
  <2>4. StageInv'
    BY <1>1, <1>2, <2>1, <2>2 DEF StageInv, Clean
  <2> QED  BY <1>4, <2>3, <2>4 DEF Inv
<1>10. CASE Register
  <2>1. UNCHANGED <<table, links, sessions, uncontrolled, goal>> /\ stage = "start"
        /\ controller' = "open" /\ stage' = "listen"
        /\ policy' = IF goal = "back" THEN snapshot ELSE next
    BY <1>10 DEF Register
  <2>2. sessions = {} /\ goal \in {"restart", "back"}
    BY <1>1, <2>1, NoSessions DEF StageInv
  <2>3. Typed /\ SessionsAuthorized'
    BY <1>1, <2>1, <2>2 DEF SessionsAuthorized
  <2>4. StageInv'
    BY <1>1, <1>2, <2>1, <2>2 DEF StageInv, Clean
  <2> QED  BY <1>4, <2>3, <2>4 DEF Inv
<1>11. CASE StartFails
  <2>1. UNCHANGED <<table, policy, links, uncontrolled>> /\ stage \in {"start", "listen"}
        /\ controller' = "none" /\ sessions' = {}
        /\ \/ stage' = "persist" /\ goal' = "end"
           \/ stage' = "start" /\ goal' = "back"
    BY <1>11 DEF StartFails
  <2>2. Typed /\ SessionsAuthorized'
    BY <1>1, <2>1 DEF SessionsAuthorized
  <2>3. StageInv'
    BY <1>1, <1>2, <2>1 DEF StageInv, Clean
  <2> QED  BY <1>4, <2>2, <2>3 DEF Inv
<1> QED  BY <1>5, <1>6, <1>7, <1>8, <1>9, <1>10, <1>11

(* The new snapshot is in force, in place ... *)
LEMMA PublishStep ==
    ASSUME Inv, Publish
    PROVE  Inv'
<1>1. TypeOK /\ StageInv /\ SessionsAuthorized
  BY DEF Inv
<1>2. /\ snapshot' = next /\ policy' = next /\ sessions' = Kept
      /\ removed' = {} /\ added' = {} /\ stage' = "idle" /\ node' = nodeRead
      /\ UNCHANGED <<table, controller, links, uncontrolled, goal, next, undone>>
      /\ UNCHANGED <<panel, changes, reachable, nodeRead, age>>
  BY DEF Publish, ApplyPublish, panelVars
<1>3. Halfway /\ Edited /\ snapshot \ next = removed /\ next \ snapshot = added
  BY <1>1 DEF Publish, ApplyPublish, StageInv, Halfway, toRemove, toAdd
<1>4. table = next
  BY <1>3 DEF Edited
<1>5. TypeOK'
  BY <1>1, <1>2 DEF TypeOK, CredentialTypeOK, Stages, Kept
<1>6. StageInv'
  BY <1>2, <1>3, <1>4, <1>1 DEF StageInv, InForce, Clean, Halfway
<1>7. SessionsAuthorized'
  BY <1>2, <1>3 DEF SessionsAuthorized, Kept, UsersOf, Halfway
<1> QED  BY <1>5, <1>6, <1>7 DEF Inv

(* ... or in a new instance. *)
LEMMA ServeStep ==
    ASSUME Inv, Serve
    PROVE  Inv'
<1>1. TypeOK /\ StageInv /\ SessionsAuthorized
  BY DEF Inv
<1>2. /\ stage = "listen"
      /\ table' = policy /\ snapshot' = policy
      /\ \/ goal = "back" /\ stage' = "close" /\ goal' = "end"
         \/ goal # "back" /\ stage' = "idle" /\ goal' = goal
      /\ node' \in {node, nodeRead}
      /\ UNCHANGED <<policy, controller, links, sessions, uncontrolled, next, removed, added, undone>>
      /\ UNCHANGED <<panel, changes, reachable, nodeRead, age>>
  BY DEF Serve, Listen, EndLoop, panelVars, linkVars, applyVars
<1>3. /\ controller = "open" /\ goal \in {"restart", "back"}
      /\ goal = "back" => policy = snapshot
      /\ goal = "restart" => Clean
  BY <1>1, <1>2 DEF StageInv
<1>4. TypeOK'
  BY <1>1, <1>2, <1>3 DEF TypeOK, CredentialTypeOK, Stages, Goals, Clean
<1>5. StageInv'
  BY <1>2, <1>3 DEF StageInv, InForce, Clean
<1>6. SessionsAuthorized'
  BY <1>1, <1>2 DEF SessionsAuthorized
<1> QED  BY <1>4, <1>5, <1>6 DEF Inv
----------------------------------------------------------------------------
LEMMA NextInv == Inv /\ [Next]_vars => Inv'
<1> SUFFICES ASSUME Inv, [Next]_vars PROVE Inv'
  OBVIOUS
<1>1. CASE UNCHANGED vars
  <2>1. UNCHANGED <<table, snapshot, policy, controller, links, sessions, uncontrolled,
                    stage, goal, next, removed, added, undone>>
        /\ UNCHANGED <<panel, changes, reachable, node, nodeRead, age>>
    BY <1>1 DEF vars, credentialVars, linkVars, applyVars, panelVars, nodeVars
  <2> QED  BY <2>1 DEF Inv, TypeOK, CredentialTypeOK, StageInv, SessionsAuthorized,
                       InForce, Clean, Halfway, Edited
<1>2. CASE (\E p \in PanelStates : PanelChange(p)) \/ DatabaseFlips \/ ClockTick
  BY <1>2, EnvironmentStep
<1>3. CASE DataPlane /\ UNCHANGED <<panelVars, nodeVars, age>>
  BY <1>3, DataPlaneStep
<1>4. CASE Refresh \/ Stop
  BY <1>4, RefreshStep
<1>5. CASE Publish
  BY <1>5, PublishStep
<1>6. CASE Serve
  BY <1>6, ServeStep
<1>7. CASE Reloading /\ UNCHANGED <<panelVars, nodeVars, age>>
  BY <1>7, EditStep, RestartStep DEF Reloading
<1> QED  BY <1>1, <1>2, <1>3, <1>4, <1>5, <1>6, <1>7 DEF Next, Reload

LEMMA InvTableExact == Inv => TableExact
BY DEF Inv, StageInv, TableExact, InForce, Clean, Halfway, Edited

(* Neither half of Apply, nor of its rollback, meets a user it does not      *)
(* expect, because both snapshots have one credential per user.              *)
LEMMA InvOnlyFaultsFail == Inv => OnlyFaultsFail
<1> SUFFICES ASSUME Inv PROVE OnlyFaultsFail
  OBVIOUS
<1>1. OnePerUser(snapshot) /\ OnePerUser(next)
  BY DEF Inv, TypeOK, CredentialTypeOK
<1>2. ASSUME stage = "apply"
      PROVE  /\ UsersOf(toRemove) \subseteq UsersOf(table)
             /\ toRemove = {} => UsersOf(toAdd) \cap UsersOf(table) = {}
  <2>1. Halfway /\ Edited
    BY <1>2 DEF Inv, StageInv
  <2>2. toRemove \subseteq table
    BY <2>1 DEF Edited, toRemove
  <2>3. ASSUME toRemove = {}, NEW c \in toAdd, NEW d \in table PROVE c[1] # d[1]
    <3>1. d \in next /\ c \in next /\ c # d
      BY <2>1, <2>3 DEF Halfway, Edited, toRemove, toAdd
    <3> QED  BY <1>1, <3>1 DEF OnePerUser
  <2> QED  BY <2>2, <2>3 DEF UsersOf
<1>3. ASSUME stage = "undo", undone
      PROVE  /\ UsersOf(added) \subseteq UsersOf(table)
             /\ added = {} => UsersOf(removed) \cap UsersOf(table) = {}
  <2>1. Halfway /\ Edited
    BY <1>3 DEF Inv, StageInv
  <2>2. added \subseteq table
    BY <2>1 DEF Edited
  <2>3. ASSUME added = {}, NEW c \in removed, NEW d \in table PROVE c[1] # d[1]
    <3>1. d \in snapshot /\ c \in snapshot /\ c # d
      BY <2>1, <2>3 DEF Halfway, Edited
    <3> QED  BY <1>1, <3>1 DEF OnePerUser
  <2> QED  BY <2>2, <2>3 DEF UsersOf
<1> QED  BY <1>2, <1>3 DEF OnlyFaultsFail

(* What a step may do to the sessions of a credential that was current. *)
Rotation ==
    \A l \in sessions \cap sessions' : links[l] \in policy => links[l] \in policy'

LEMMA RotationStep == Inv /\ [Next]_vars => [Rotation]_vars
<1> SUFFICES ASSUME Inv, Next PROVE Rotation
  OBVIOUS
<1>1. CASE Publish
  <2> SUFFICES ASSUME NEW l \in sessions, l \in sessions', links[l] \in policy
               PROVE  links[l] \in policy'
    BY DEF Rotation
  <2>1. policy' = next /\ l \in Kept /\ policy = snapshot
    BY <1>1 DEF Publish, ApplyPublish, Inv, StageInv, Halfway
  <2>2. PICK c \in snapshot \cap next : c[1] = links[l][1]
    BY <2>1 DEF Kept, UsersOf
  <2>3. OnePerUser(snapshot)
    BY DEF Inv, TypeOK, CredentialTypeOK
  <2>4. c = links[l]
    BY <2>1, <2>2, <2>3 DEF OnePerUser
  <2> QED  BY <2>1, <2>2, <2>4
<1>2. CASE Register
  <2>1. sessions = {}
    BY <1>2, NoSessions DEF Register, Inv, StageInv
  <2> QED  BY <2>1 DEF Rotation
<1>3. CASE Serve
  BY <1>3 DEF Serve, Listen, Rotation
<1>4. CASE EditTable /\ UNCHANGED <<panelVars, nodeVars, age>>
  BY <1>4, EditFrame DEF Rotation
<1>5. CASE Persist \/ PersistFails \/ ApplyFailed \/ CloseSessions \/ Unregister \/ StartFails
  BY <1>5 DEF Persist, PersistFails, ApplyFailed, CloseSessions, Unregister, StartFails, Rotation
<1>6. CASE Refresh \/ Stop
  BY <1>6 DEF Refresh, Stop, QueryNode, NodeUnavailable, QueryFails, RefreshFailed, QueryUsers,
              Untouched, Rotation
<1>7. CASE DataPlane
  BY <1>7 DEF DataPlane, Rotation
<1>8. CASE (\E p \in PanelStates : PanelChange(p)) \/ DatabaseFlips \/ ClockTick
  BY <1>8 DEF PanelChange, DatabaseFlips, ClockTick, credentialVars, Rotation
<1> QED  BY <1>1, <1>2, <1>3, <1>4, <1>5, <1>6, <1>7, <1>8 DEF Next, Reload, Reloading
----------------------------------------------------------------------------
LEMMA SpecInv == Spec => []Inv
BY InitInv, NextInv, PTL DEF Spec

(* Every variable of refresh, reload and Apply stays in its type: one        *)
(* credential per user in Xray's table, in the snapshot and in the registry, *)
(* and Apply never removes or adds what the snapshots do not ask for.        *)
THEOREM RefreshTypeCorrect == Spec => []TypeOK
<1>1. Inv => TypeOK
  BY DEF Inv
<1> QED  BY <1>1, SpecInv, PTL

(* Outside Apply, and after a rollback that went through, Xray's table, the  *)
(* snapshot and the registry name the same users.                            *)
THEOREM TableStaysExact == Spec => []TableExact
BY InvTableExact, SpecInv, PTL

(* Apply and rollbackUsers never ask the user manager for something it must  *)
(* refuse: only its own faults make them fail.                               *)
THEOREM ApplyFailsOnlyByFaults == Spec => []OnlyFaultsFail
BY InvOnlyFaultsFail, SpecInv, PTL

(* A leased session belongs to a user of the open registry, through every    *)
(* interleaving of refresh, reload, restart and the data plane.              *)
THEOREM LeasesAreAuthorized == Spec => []SessionsAuthorized
<1>1. Inv => SessionsAuthorized
  BY DEF Inv
<1> QED  BY <1>1, SpecInv, PTL

(* No session that existed with a current credential survives the step that  *)
(* changes or removes that credential.                                       *)
THEOREM RotationAlwaysRevokes == Spec => RotationRevokes
<1>1. Spec => [][Rotation]_vars
  BY SpecInv, RotationStep, PTL DEF Spec
<1> QED  BY <1>1 DEF RotationRevokes, Rotation
=============================================================================
