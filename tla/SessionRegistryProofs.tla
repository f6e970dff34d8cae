---------------------- MODULE SessionRegistryProofs ----------------------
(***************************************************************************)
(* Theorems about SessionRegistry, for every set of users, sources,         *)
(* snapshots, goroutines and every limit.                                   *)
(***************************************************************************)
EXTENDS SessionRegistry, FiniteSetTheorems, TLAPS

USE DEF Kinds

(* newLimiter yields a limiter. *)
LEMMA LimiterType ==
    ASSUME NEW mbps \in Nat, NEW now \in Nat
    PROVE  newLimiter(mbps, now) \in Limiters
BY DEF newLimiter, Limiters, NoLimiter

(* What an installed snapshot looks like. *)
LEMMA SnapshotType ==
    ASSUME NEW s \in Snapshots
    PROVE  /\ s.speed \in Nat /\ s.connectors \in Int
           /\ DOMAIN s.users \subseteq UserIDs
           /\ s.users \in [DOMAIN s.users -> UserPolicy]
           /\ \A u \in DOMAIN s.users : s.users[u].speed \in Nat
BY SnapshotsAssumption DEF IsSnapshot, UserPolicy

(* Requests become leases of the right type. *)
LEMMA NewLeaseType ==
    ASSUME TypeOK, NEW req \in Requests, req.userID \in DOMAIN installed.users
    PROVE  NewLease(req) \in Leases
BY KindsAssumption DEF TypeOK, NewLease, Leases, Requests

(* Setting a flag of a lease keeps its type. *)
LEMMA FlagTypes ==
    ASSUME NEW l \in Leases, NEW b \in BOOLEAN
    PROVE  /\ [l EXCEPT !.revoked = b] \in Leases
           /\ [l EXCEPT !.interrupt = b] \in Leases
BY DEF Leases

(* revokeLocked only sets revoked flags and collects sessions. *)
LEMMA RevokeType ==
    ASSUME TypeOK, NEW ids \in SUBSET sessions, revokeLocked(ids)
    PROVE  /\ DOMAIN leases' = DOMAIN leases
           /\ leases' \in [DOMAIN leases -> Leases]
           /\ callbacks' \subseteq sessions
           /\ \A id \in DOMAIN leases : leases'[id].revoked => id \in sessions
<1>1. ASSUME NEW id \in DOMAIN leases
      PROVE  [leases[id] EXCEPT !.revoked = @ \/ id \in ids] \in Leases
  <2>1. leases[id] \in Leases
    BY DEF TypeOK
  <2>2. (leases[id].revoked \/ id \in ids) \in BOOLEAN
    OBVIOUS
  <2> QED
    BY <2>1, <2>2, FlagTypes
<1>2. ASSUME NEW id \in DOMAIN leases, leases'[id].revoked PROVE id \in sessions
  <2>1. leases'[id] = [leases[id] EXCEPT !.revoked = @ \/ id \in ids]
    BY DEF revokeLocked
  <2>2. leases[id] \in Leases
    BY DEF TypeOK
  <2>3. leases'[id].revoked = (leases[id].revoked \/ id \in ids)
    BY <2>1, <2>2 DEF Leases
  <2> QED
    BY <1>2, <2>3 DEF TypeOK
<1> QED
  BY <1>1, <1>2 DEF TypeOK, revokeLocked

(* New establishes the types. *)
LEMMA TypeInit == Init => TypeOK
<1> SUFFICES ASSUME Init PROVE TypeOK
  OBVIOUS
<1>1. nodeLimiter \in Limiters
  BY SnapshotType, LimiterType DEF Init
<1>2. userLimiters \in [DOMAIN installed.users -> Limiters]
  BY SnapshotType, LimiterType DEF Init
<1> QED
  BY <1>1, <1>2 DEF Init, TypeOK

(* Every operation keeps the types. *)
LEMMA TypeStep == TypeOK /\ [Next]_vars => TypeOK'
<1> SUFFICES ASSUME TypeOK, [Next]_vars PROVE TypeOK'
  OBVIOUS
<1>1. ASSUME NEW o \in Openers, AcquireHandshake(o) PROVE TypeOK'
  BY <1>1 DEF TypeOK, AcquireHandshake, policyVars, countVars, callbackVars
<1>2. ASSUME NEW o \in Openers, ReleaseHandshake(o) PROVE TypeOK'
  BY <1>2 DEF TypeOK, ReleaseHandshake, policyVars, countVars, callbackVars
<1>3. ASSUME NEW o \in Openers, NEW req \in Requests, AuthorizeTarget(o, req)
      PROVE  TypeOK'
  BY <1>3 DEF TypeOK, AuthorizeTarget, policyVars, countVars, handshakeVars,
              callbackVars
<1>4. ASSUME NEW o \in Openers, OpenAdmit(o) PROVE TypeOK'
  <2> DEFINE req == pending[o]
             id == nextID + 1
  <2>1. req \in Requests /\ req.userID \in DOMAIN installed.users
    BY <1>4 DEF OpenAdmit, Admissible, TypeOK
  <2>2. NewLease(req) \in Leases
    BY <2>1, NewLeaseType
  <2>3. /\ DOMAIN leases' = DOMAIN leases \cup {id}
        /\ leases' \in [DOMAIN leases' -> Leases]
        /\ DOMAIN leases' \subseteq 1..nextID'
        /\ sessions' \subseteq DOMAIN leases'
        /\ nextID' \in Nat
        /\ sessions \subseteq sessions'
    BY <1>4, <2>2 DEF OpenAdmit, TypeOK
  <2>4. req.userID \in UserIDs /\ req.sourceIP \in SourceIPs /\ req.kind \in Kinds
    BY <2>1, KindsAssumption DEF Requests
  <2>5. /\ sources' \in [UserIDs -> [SourceIPs -> Nat]]
        /\ total' \in [Kinds -> Nat]
        /\ perUser' \in [Kinds -> [UserIDs -> Nat]]
    BY <1>4, <2>4 DEF OpenAdmit, TypeOK
  <2>6. DOMAIN pending' \subseteq Openers /\ pending' \in [DOMAIN pending' -> Requests]
    BY <1>4 DEF OpenAdmit, DropPending, TypeOK
  <2> QED
    BY <1>4, <2>3, <2>5, <2>6
    DEF OpenAdmit, TypeOK, policyVars, handshakeVars, callbackVars
<1>5. ASSUME NEW o \in Openers, OpenReject(o) PROVE TypeOK'
  BY <1>5 DEF TypeOK, OpenReject, DropPending, policyVars, countVars,
              handshakeVars, callbackVars
<1>6. ASSUME NEW id \in DOMAIN leases, BindInterrupt(id) PROVE TypeOK'
  <2>1. leases' \in [DOMAIN leases -> Leases] /\ DOMAIN leases' = DOMAIN leases
    <3>1. leases[id] \in Leases
      BY DEF TypeOK
    <3>2. [leases[id] EXCEPT !.interrupt = TRUE] \in Leases
      BY <3>1, FlagTypes
    <3> QED
      BY <1>6, <3>2 DEF BindInterrupt, TypeOK
  <2> QED
    BY <1>6, <2>1 DEF TypeOK, BindInterrupt, policyVars, countVars, handshakeVars
<1>7. ASSUME NEW id \in DOMAIN leases, NEW s \in SourceIPs, Rebind(id, s)
      PROVE  TypeOK'
  <2>1. leases' \in [DOMAIN leases -> Leases] /\ DOMAIN leases' = DOMAIN leases
    BY <1>7 DEF Rebind, TypeOK, Leases
  <2>2. sources' \in [UserIDs -> [SourceIPs -> Nat]]
    <3>1. leases[id].userID \in UserIDs /\ leases[id].sourceIP \in SourceIPs
      BY DEF TypeOK, Leases
    <3> QED
      BY <1>7, <3>1 DEF Rebind, TypeOK, removeSource, Decrement
  <2> QED
    BY <1>7, <2>1, <2>2 DEF TypeOK, Rebind, policyVars, handshakeVars, callbackVars
<1>8. ASSUME NEW id \in DOMAIN leases, LeaseClose(id) PROVE TypeOK'
  <2>1. /\ leases[id].userID \in UserIDs /\ leases[id].sourceIP \in SourceIPs
        /\ leases[id].kind \in Kinds
    BY DEF TypeOK, Leases
  <2>2. /\ sources' \in [UserIDs -> [SourceIPs -> Nat]]
        /\ total' \in [Kinds -> Nat]
        /\ perUser' \in [Kinds -> [UserIDs -> Nat]]
    BY <1>8, <2>1 DEF LeaseClose, TypeOK, removeSource, Decrement
  <2>3. /\ DOMAIN leases \ {id} \subseteq DOMAIN leases'
        /\ DOMAIN leases' \subseteq DOMAIN leases
        /\ leases' \in [DOMAIN leases' -> Leases]
    BY <1>8 DEF LeaseClose, Discard, TypeOK
  <2>4. \A i \in DOMAIN leases' : leases'[i].revoked => i \in sessions \ {id}
    BY <1>8 DEF LeaseClose, Discard, TypeOK
  <2> QED
    BY <1>8, <2>2, <2>3, <2>4 DEF TypeOK, LeaseClose, policyVars, handshakeVars
<1>9. ASSUME NEW id \in DOMAIN leases, Forget(id) PROVE TypeOK'
  BY <1>9 DEF TypeOK, Forget, Discard, policyVars, countVars, handshakeVars,
              callbackVars
<1>10. ASSUME NEW id \in DOMAIN leases, RunLateCallback(id) PROVE TypeOK'
  BY <1>10 DEF TypeOK, RunLateCallback, policyVars, countVars, handshakeVars
<1>11. ASSUME NEW next \in Snapshots, Update(next) PROVE TypeOK'
  <2> DEFINE now == installs + 1
  <2>a. now \in Nat /\ installed' = next /\ installs' = now
    BY <1>11 DEF TypeOK, Update, installSnapshot
  <2>b. newLimiter(next.speed, now) \in Limiters
    BY <2>a, SnapshotType, LimiterType
  <2>c. \A u \in DOMAIN next.users : newLimiter(next.users[u].speed, now) \in Limiters
    BY <2>a, SnapshotType, LimiterType
  <2> HIDE DEF now
  <2>1. nodeLimiter' \in Limiters
    BY <1>11, <2>b DEF TypeOK, Update, installSnapshot, now
  <2>2. userLimiters' \in [DOMAIN installed'.users -> Limiters]
    BY <1>11, <2>a, <2>c DEF TypeOK, Update, installSnapshot, now
  <2>3. installed' \in Snapshots /\ installs' \in Nat
    BY <1>11 DEF TypeOK, Update, installSnapshot
  <2>4. (PolicyRevoked(next) \cup ConnectorRevoked(next)) \subseteq sessions
    BY DEF PolicyRevoked, ConnectorRevoked
  <2>5. /\ DOMAIN leases' = DOMAIN leases
        /\ leases' \in [DOMAIN leases -> Leases]
        /\ callbacks' \subseteq sessions
        /\ \A id \in DOMAIN leases : leases'[id].revoked => id \in sessions
    BY <1>11, <2>4, RevokeType DEF Update
  <2> QED
    BY <1>11, <2>1, <2>2, <2>3, <2>5 DEF TypeOK, Update, countVars, handshakeVars
<1>12. ASSUME NEW next \in Snapshots, UpdatePanic(next) PROVE TypeOK'
  BY <1>12 DEF TypeOK, UpdatePanic, policyVars, countVars, handshakeVars,
               callbackVars
<1>13. ASSUME NEW ids \in SUBSET UserIDs, RevokeUsers(ids) PROVE TypeOK'
  <2>1. /\ DOMAIN leases' = DOMAIN leases
        /\ leases' \in [DOMAIN leases -> Leases]
        /\ callbacks' \subseteq sessions
        /\ \A id \in DOMAIN leases : leases'[id].revoked => id \in sessions
    BY <1>13, RevokeType DEF RevokeUsers
  <2> QED
    BY <1>13, <2>1 DEF TypeOK, RevokeUsers, policyVars, countVars, handshakeVars
<1>14. ASSUME Close PROVE TypeOK'
  <2>1. /\ DOMAIN leases' = DOMAIN leases
        /\ leases' \in [DOMAIN leases -> Leases]
        /\ callbacks' \subseteq sessions
        /\ \A id \in DOMAIN leases : leases'[id].revoked => id \in sessions
    BY <1>14, RevokeType DEF Close
  <2> QED
    BY <1>14, <2>1 DEF TypeOK, Close, policyVars, countVars, handshakeVars
<1>15. ASSUME NEW id \in callbacks, RunCallback(id) PROVE TypeOK'
  BY <1>15 DEF TypeOK, RunCallback, policyVars, countVars, handshakeVars
<1>16. ASSUME UNCHANGED vars PROVE TypeOK'
  BY <1>16 DEF TypeOK, vars, policyVars, countVars, handshakeVars, callbackVars
<1> QED
  BY <1>1, <1>2, <1>3, <1>4, <1>5, <1>6, <1>7, <1>8, <1>9, <1>10, <1>11, <1>12,
     <1>13, <1>14, <1>15, <1>16
  DEF Next, OpenerStep, LeaseStep, MainStep

(* Type correctness: every step of the registry keeps TypeOK, in particular *)
(* counters never become negative and callbacks only belong to sessions.    *)
THEOREM TypeCorrect == Spec => []TypeOK
BY TypeInit, TypeStep, PTL DEF Spec

----------------------------------------------------------------------------
(* LivePolicyCurrent is inductive on top of the types: admission decides on *)
(* the installed snapshot, a move checks the disconnect list, and Update     *)
(* revokes every session whose answers could differ.                         *)

(* Policies that differ in nothing but the disconnect list agree elsewhere.  *)
LEMMA UnchangedPolicy ==
    ASSUME NEW p \in UserPolicy, NEW q \in UserPolicy,
           ~userPolicyWithoutDisconnectChanged(p, q)
    PROVE  /\ p.speed = q.speed
           /\ p.forbiddenIPs = q.forbiddenIPs
           /\ p.forbiddenPorts = q.forbiddenPorts
<1> DEFINE pp == [p EXCEPT !.disconnectIPs = {}]
           qq == [q EXCEPT !.disconnectIPs = {}]
<1>1. pp = qq
  BY DEF userPolicyWithoutDisconnectChanged
<1>2. pp.speed = p.speed /\ pp.forbiddenIPs = p.forbiddenIPs
      /\ pp.forbiddenPorts = p.forbiddenPorts
  BY DEF UserPolicy
<1>3. qq.speed = q.speed /\ qq.forbiddenIPs = q.forbiddenIPs
      /\ qq.forbiddenPorts = q.forbiddenPorts
  BY DEF UserPolicy
<1> QED
  BY <1>1, <1>2, <1>3

(* A session that revokeLocked leaves alone keeps its lease as it was. *)
LEMMA RevokeKeepsOthers ==
    ASSUME TypeOK, NEW ids \in SUBSET sessions, revokeLocked(ids),
           NEW id \in DOMAIN leases, ~leases'[id].revoked
    PROVE  /\ id \notin ids
           /\ ~leases[id].revoked
           /\ leases'[id] = leases[id]
<1>1. leases'[id] = [leases[id] EXCEPT !.revoked = @ \/ id \in ids]
  BY DEF revokeLocked
<1>2. leases[id] \in Leases
  BY DEF TypeOK
<1>3. leases'[id].revoked = (leases[id].revoked \/ id \in ids)
  BY <1>1, <1>2 DEF Leases
<1>4. id \notin ids /\ ~leases[id].revoked
  BY <1>3
<1>5. leases[id].revoked = FALSE
  BY <1>2, <1>4 DEF Leases
<1>6. leases'[id] = [leases[id] EXCEPT !.revoked = FALSE]
  BY <1>1, <1>4
<1> QED
  BY <1>2, <1>4, <1>5, <1>6 DEF Leases

(* A live session that Update does not revoke is current under the new       *)
(* snapshot.                                                                 *)
LEMMA UpdateKeepsCurrent ==
    ASSUME TypeOK, NEW next \in Snapshots, Update(next),
           NEW id \in sessions, ~leases[id].revoked, Current(leases[id]),
           id \notin PolicyRevoked(next)
    PROVE  Current(leases[id])'  \/ leases'[id] # leases[id]
<1> DEFINE l == leases[id]
           u == leases[id].userID
<1> SUFFICES ASSUME leases'[id] = leases[id]
             PROVE  Current(leases[id])'
  OBVIOUS
<1>1. u \in DOMAIN installed.users /\ u \notin WholeUsers(next)
  BY DEF Current, PolicyRevoked
<1>2. /\ u \in DOMAIN next.users
      /\ installed.speed = next.speed
      /\ ~userPolicyWithoutDisconnectChanged(installed.users[u], next.users[u])
  BY <1>1 DEF WholeUsers
<1>3. installed.users[u] \in UserPolicy /\ next.users[u] \in UserPolicy
  BY <1>1, <1>2, SnapshotType DEF TypeOK
<1>4. /\ installed.users[u].speed = next.users[u].speed
      /\ installed.users[u].forbiddenIPs = next.users[u].forbiddenIPs
      /\ installed.users[u].forbiddenPorts = next.users[u].forbiddenPorts
  BY <1>2, <1>3, UnchangedPolicy
<1>5. l.sourceIP \notin next.users[u].disconnectIPs
  BY <1>1 DEF Current, PolicyRevoked
<1>6. installed' = next /\ nodeLimiter' = nodeLimiter
      /\ userLimiters'[u] = userLimiters[u]
  BY <1>1, <1>2, <1>4 DEF Update, installSnapshot
<1>7. closed' = closed
  BY DEF Update
<1> QED
  BY <1>2, <1>4, <1>5, <1>6, <1>7 DEF Current, TargetAllowed

(* A new registry has no sessions. *)
LEMMA PolicyInit == Init => LivePolicyCurrent
BY DEF Init, LivePolicyCurrent

(* Every operation leaves only authorized sessions unrevoked. *)
LEMMA PolicyStep == TypeOK /\ LivePolicyCurrent /\ [Next]_vars => LivePolicyCurrent'
<1> SUFFICES ASSUME TypeOK, LivePolicyCurrent, [Next]_vars,
                    NEW id \in sessions', ~leases'[id].revoked
             PROVE  Current(leases[id])'
  BY DEF LivePolicyCurrent
<1>a. \A i \in sessions : ~leases[i].revoked => Current(leases[i])
  BY DEF LivePolicyCurrent
<1>b. ASSUME id \in sessions, leases'[id] = leases[id],
             UNCHANGED <<policyVars, closed>>
      PROVE  Current(leases[id])'
  BY <1>a, <1>b DEF Current, TargetAllowed, policyVars
<1>1. ASSUME NEW o \in Openers, AcquireHandshake(o) PROVE Current(leases[id])'
  BY <1>1, <1>b DEF AcquireHandshake
<1>2. ASSUME NEW o \in Openers, ReleaseHandshake(o) PROVE Current(leases[id])'
  BY <1>2, <1>b DEF ReleaseHandshake
<1>3. ASSUME NEW o \in Openers, NEW req \in Requests, AuthorizeTarget(o, req)
      PROVE  Current(leases[id])'
  BY <1>3, <1>b DEF AuthorizeTarget
<1>4. ASSUME NEW o \in Openers, OpenAdmit(o) PROVE Current(leases[id])'
  <2>1. nextID + 1 \notin DOMAIN leases
    BY DEF TypeOK
  <2>2. CASE id = nextID + 1
    <3>1. leases'[id] = NewLease(pending[o])
      BY <1>4, <2>2 DEF OpenAdmit
    <3>2. UNCHANGED <<policyVars, closed>> /\ Admissible(pending[o])
      BY <1>4 DEF OpenAdmit
    <3>3. /\ leases'[id].userID = pending[o].userID
          /\ leases'[id].sourceIP = pending[o].sourceIP
          /\ leases'[id].target = pending[o]
          /\ leases'[id].userRate = userLimiters[pending[o].userID]
          /\ leases'[id].nodeRate = nodeLimiter
      BY <3>1 DEF NewLease
    <3> QED
      BY <3>2, <3>3 DEF Admissible, Current, TargetAllowed, policyVars
  <2>3. CASE id # nextID + 1
    <3>1. id \in sessions /\ leases'[id] = leases[id]
      BY <1>4, <2>3 DEF OpenAdmit, TypeOK
    <3> QED
      BY <1>4, <1>b, <3>1 DEF OpenAdmit
  <2> QED
    BY <2>2, <2>3
<1>5. ASSUME NEW o \in Openers, OpenReject(o) PROVE Current(leases[id])'
  BY <1>5, <1>b DEF OpenReject
<1>6. ASSUME NEW i \in DOMAIN leases, BindInterrupt(i) PROVE Current(leases[id])'
  <2>1. id \in sessions /\ ~leases[id].revoked
    BY <1>6 DEF BindInterrupt, TypeOK, Leases
  <2>2. /\ leases'[id].userID = leases[id].userID
        /\ leases'[id].sourceIP = leases[id].sourceIP
        /\ leases'[id].target = leases[id].target
        /\ leases'[id].userRate = leases[id].userRate
        /\ leases'[id].nodeRate = leases[id].nodeRate
    BY <1>6, <2>1 DEF BindInterrupt, TypeOK, Leases
  <2> QED
    BY <1>6, <1>a, <2>1, <2>2 DEF BindInterrupt, Current, TargetAllowed, policyVars
<1>7. ASSUME NEW i \in DOMAIN leases, NEW s \in SourceIPs, Rebind(i, s)
      PROVE  Current(leases[id])'
  <2>1. CASE id = i
    <3>1. id \in sessions /\ ~leases[id].revoked
      BY <1>7 DEF Rebind, TypeOK, Leases
    <3>2. /\ leases'[id].userID = leases[id].userID
          /\ leases'[id].sourceIP = s
          /\ leases'[id].target = leases[id].target
          /\ leases'[id].userRate = leases[id].userRate
          /\ leases'[id].nodeRate = leases[id].nodeRate
      BY <1>7, <2>1 DEF Rebind, TypeOK, Leases
    <3>3. s \notin installed.users[leases[id].userID].disconnectIPs
      BY <1>7, <2>1 DEF Rebind, RebindAllowed
    <3> QED
      BY <1>7, <1>a, <3>1, <3>2, <3>3 DEF Rebind, Current, TargetAllowed, policyVars
  <2>2. CASE id # i
    <3>1. id \in sessions /\ leases'[id] = leases[id]
      BY <1>7, <2>2 DEF Rebind, TypeOK
    <3> QED
      BY <1>7, <1>b, <3>1 DEF Rebind
  <2> QED
    BY <2>1, <2>2
<1>8. ASSUME NEW i \in DOMAIN leases, LeaseClose(i) PROVE Current(leases[id])'
  <2>1. id \in sessions /\ leases'[id] = leases[id]
    BY <1>8 DEF LeaseClose, Discard, TypeOK
  <2> QED
    BY <1>8, <1>b, <2>1 DEF LeaseClose
<1>9. ASSUME NEW i \in DOMAIN leases, Forget(i) PROVE Current(leases[id])'
  <2>1. id \in sessions /\ leases'[id] = leases[id]
    BY <1>9 DEF Forget, Discard, TypeOK
  <2> QED
    BY <1>9, <1>b, <2>1 DEF Forget
<1>10. ASSUME NEW i \in DOMAIN leases, RunLateCallback(i) PROVE Current(leases[id])'
  BY <1>10, <1>b DEF RunLateCallback
<1>11. ASSUME NEW next \in Snapshots, Update(next) PROVE Current(leases[id])'
  <2> DEFINE ids == PolicyRevoked(next) \cup ConnectorRevoked(next)
  <2>1. id \in sessions /\ ids \subseteq sessions /\ revokeLocked(ids)
    BY <1>11 DEF Update, PolicyRevoked, ConnectorRevoked
  <2>2. id \in DOMAIN leases
    BY <2>1 DEF TypeOK
  <2>3. id \notin ids /\ ~leases[id].revoked /\ leases'[id] = leases[id]
    <3> HIDE DEF ids
    <3> QED
      BY <2>1, <2>2, RevokeKeepsOthers
  <2> QED
    BY <1>11, <1>a, <2>1, <2>3, UpdateKeepsCurrent
<1>12. ASSUME NEW next \in Snapshots, UpdatePanic(next) PROVE Current(leases[id])'
  BY <1>12, <1>b DEF UpdatePanic
<1>13. ASSUME NEW users \in SUBSET UserIDs, RevokeUsers(users)
       PROVE  Current(leases[id])'
  <2> DEFINE ids == {i \in sessions : Live(i) /\ leases[i].userID \in users}
  <2>1. id \in DOMAIN leases /\ ids \subseteq sessions /\ revokeLocked(ids)
    BY <1>13 DEF RevokeUsers, TypeOK
  <2>2. leases'[id] = leases[id]
    <3> HIDE DEF ids
    <3> QED
      BY <2>1, RevokeKeepsOthers
  <2> QED
    BY <1>13, <1>b, <2>2 DEF RevokeUsers
<1>14. ASSUME Close PROVE Current(leases[id])'
  <2> DEFINE ids == {i \in sessions :
                       Live(i) /\ leases[i].userID \in DOMAIN installed.users}
  <2>1. id \in sessions /\ id \in DOMAIN leases /\ ids \subseteq sessions
        /\ revokeLocked(ids)
    BY <1>14 DEF Close, TypeOK
  <2>2. id \notin ids /\ ~leases[id].revoked
    <3> HIDE DEF ids
    <3> QED
      BY <2>1, RevokeKeepsOthers
  <2> QED
    BY <1>a, <2>1, <2>2 DEF Current, Live
<1>15. ASSUME NEW i \in callbacks, RunCallback(i) PROVE Current(leases[id])'
  BY <1>15, <1>b DEF RunCallback
<1>16. ASSUME UNCHANGED vars PROVE Current(leases[id])'
  BY <1>16, <1>b DEF vars
<1> QED
  BY <1>1, <1>2, <1>3, <1>4, <1>5, <1>6, <1>7, <1>8, <1>9, <1>10, <1>11, <1>12,
     <1>13, <1>14, <1>15, <1>16
  DEF Next, OpenerStep, LeaseStep, MainStep

(* The central promise of the registry: although Open resolves its target    *)
(* without the mutex and snapshots change at any moment, every session that  *)
(* was not revoked is authorized by the snapshot now installed.              *)
THEOREM PolicyCurrent == Spec => []LivePolicyCurrent
<1>1. Init => TypeOK /\ LivePolicyCurrent
  BY TypeInit, PolicyInit
<1>2. TypeOK /\ LivePolicyCurrent /\ [Next]_vars => (TypeOK /\ LivePolicyCurrent)'
  BY TypeStep, PolicyStep
<1> QED
  BY <1>1, <1>2, PTL DEF Spec

----------------------------------------------------------------------------
(* Counters.  CountersExact relates each counter to the cardinality of what  *)
(* it counts; CountersBounded is what checkCapacityLocked keeps; together    *)
(* they give LimitsRespected.                                                *)

\* What checkCapacityLocked and AcquireHandshake bound.
CountersBounded ==
    /\ \A k \in Kinds : /\ total[k] <= GlobalLimit(k)
                        /\ \A u \in UserIDs : perUser[k][u] <= UserLimit(k)
    /\ handshakes <= ConcurrentHandshakes

(* The sets that are counted are finite. *)
LEMMA CountedFinite ==
    ASSUME TypeOK
    PROVE  /\ IsFiniteSet(handshaking)
           /\ \A k \in Kinds : /\ IsFiniteSet(SessionsOf(k))
                               /\ \A u \in UserIDs : IsFiniteSet(UserSessionsOf(k, u))
<1>0. nextID \in Int /\ 1 \in Int
  BY DEF TypeOK
<1>1. IsFiniteSet(1..nextID)
  BY <1>0, FS_Interval, Zenon
<1>2. sessions \subseteq 1..nextID
  BY DEF TypeOK
<1>3. \A S : S \subseteq sessions => IsFiniteSet(S)
  BY <1>1, <1>2, FS_Subset
<1>4. IsFiniteSet(handshaking)
  BY FiniteAssumption, FS_Subset DEF TypeOK
<1> QED
  BY <1>3, <1>4 DEF SessionsOf, UserSessionsOf

(* Steps that neither open nor close a session and leave kind and user of    *)
(* every lease alone count the same sessions.                                *)
LEMMA SameCounted ==
    ASSUME sessions' = sessions,
           \A id \in sessions : /\ leases'[id].kind = leases[id].kind
                               /\ leases'[id].userID = leases[id].userID
    PROVE  \A k \in Kinds :
              /\ SessionsOf(k)' = SessionsOf(k)
              /\ \A u \in UserIDs : UserSessionsOf(k, u)' = UserSessionsOf(k, u)
BY DEF SessionsOf, UserSessionsOf

(* A counter that moves with its set. *)
LEMMA CountUp ==
    ASSUME NEW S, IsFiniteSet(S), NEW x, x \notin S
    PROVE  Cardinality(S \cup {x}) = Cardinality(S) + 1
BY FS_AddElement

(* The floor of Decrement is never needed for a set that is not empty. *)
LEMMA CountDown ==
    ASSUME NEW S, IsFiniteSet(S), NEW x \in S
    PROVE  Cardinality(S \ {x}) = Decrement(Cardinality(S))
<1>1. Cardinality(S \ {x}) = Cardinality(S) - 1
  BY FS_RemoveElement
<1>2. Cardinality(S) \in Nat /\ Cardinality(S \ {x}) \in Nat
  BY FS_CardinalityType, FS_RemoveElement
<1> QED
  BY <1>1, <1>2 DEF Decrement

\* The inductive invariant.
CountInv == CountersExact /\ CountersBounded

(* A new registry counts nothing. *)
LEMMA CountInit == Init => CountInv
<1> SUFFICES ASSUME Init PROVE CountInv
  OBVIOUS
<1>1. handshaking = {} /\ \A k \in Kinds : /\ SessionsOf(k) = {}
                                          /\ \A u \in UserIDs : UserSessionsOf(k, u) = {}
  BY DEF Init, SessionsOf, UserSessionsOf
<1>2. Cardinality({}) = 0
  BY FS_EmptySet
<1>3. CountersExact
  BY <1>1, <1>2 DEF Init, CountersExact
<1>4. CountersBounded
  <2>1. ConcurrentHandshakes >= 0 /\ \A k \in Kinds : GlobalLimit(k) >= 0 /\ UserLimit(k) >= 0
    BY LimitsAssumption DEF GlobalLimit, UserLimit
  <2>2. \A k \in Kinds : total[k] = 0 /\ \A u \in UserIDs : perUser[k][u] = 0
    BY DEF Init
  <2> QED
    BY <2>1, <2>2 DEF Init, CountersBounded
<1> QED
  BY <1>3, <1>4 DEF CountInv

(* A step that changes no counter and counts the same things. *)
LEMMA CountSame ==
    ASSUME CountInv, UNCHANGED <<total, perUser, handshakes, handshaking, sessions>>,
           \A id \in sessions : /\ leases'[id].kind = leases[id].kind
                               /\ leases'[id].userID = leases[id].userID
    PROVE  CountInv'
<1>1. CountersExact'
  BY SameCounted DEF CountInv, CountersExact
<1>2. CountersBounded'
  BY DEF CountInv, CountersBounded, GlobalLimit, UserLimit
<1> QED
  BY <1>1, <1>2 DEF CountInv

(* revokeLocked changes flags only. *)
LEMMA RevokeKeepsOwner ==
    ASSUME TypeOK, NEW ids, revokeLocked(ids), NEW id \in sessions
    PROVE  /\ leases'[id].kind = leases[id].kind
           /\ leases'[id].userID = leases[id].userID
BY DEF TypeOK, revokeLocked, Leases

(* Open counts the new session once, in three counters, below the limits. *)
LEMMA CountOpen ==
    ASSUME TypeOK, CountInv, NEW o \in Openers, OpenAdmit(o)
    PROVE  CountInv'
<1> DEFINE req == pending[o]
           id == nextID + 1
<1>1. /\ req.kind \in Kinds /\ req.userID \in UserIDs
  BY KindsAssumption DEF OpenAdmit, TypeOK, Requests
<1>2. id \notin sessions /\ id \notin DOMAIN leases
  BY DEF TypeOK
<1>3. sessions' = sessions \cup {id} /\ leases'[id] = NewLease(req)
      /\ \A i \in sessions : leases'[i] = leases[i]
  BY <1>2 DEF OpenAdmit, TypeOK
<1>4. leases'[id].kind = req.kind /\ leases'[id].userID = req.userID
  BY <1>3 DEF NewLease
<1>5. /\ total' = [total EXCEPT ![req.kind] = @ + 1]
      /\ perUser' = [perUser EXCEPT ![req.kind][req.userID] = @ + 1]
      /\ UNCHANGED <<handshakes, handshaking>>
      /\ total[req.kind] < GlobalLimit(req.kind)
      /\ perUser[req.kind][req.userID] < UserLimit(req.kind)
  BY DEF OpenAdmit, Admissible, checkCapacityLocked, handshakeVars
<1> HIDE DEF req, id
<1>6. ASSUME NEW k \in Kinds PROVE total'[k] = Cardinality(SessionsOf(k)')
  <2>1. CASE k = req.kind
    <3>1. SessionsOf(k)' = SessionsOf(k) \cup {id} /\ id \notin SessionsOf(k)
      BY <1>2, <1>3, <1>4, <2>1 DEF SessionsOf
    <3>2. Cardinality(SessionsOf(k)') = Cardinality(SessionsOf(k)) + 1
      BY <3>1, CountedFinite, CountUp
    <3> QED
      BY <1>1, <1>5, <2>1, <3>2 DEF CountInv, CountersExact, TypeOK
  <2>2. CASE k # req.kind
    <3>1. SessionsOf(k)' = SessionsOf(k)
      BY <1>2, <1>3, <1>4, <2>2 DEF SessionsOf
    <3> QED
      BY <1>1, <1>5, <2>2, <3>1 DEF CountInv, CountersExact, TypeOK
  <2> QED
    BY <2>1, <2>2
<1>7. ASSUME NEW k \in Kinds, NEW u \in UserIDs
      PROVE  perUser'[k][u] = Cardinality(UserSessionsOf(k, u)')
  <2>1. CASE k = req.kind /\ u = req.userID
    <3>1. UserSessionsOf(k, u)' = UserSessionsOf(k, u) \cup {id}
          /\ id \notin UserSessionsOf(k, u)
      BY <1>2, <1>3, <1>4, <2>1 DEF SessionsOf, UserSessionsOf
    <3>2. Cardinality(UserSessionsOf(k, u)') = Cardinality(UserSessionsOf(k, u)) + 1
      BY <3>1, CountedFinite, CountUp
    <3> QED
      BY <1>1, <1>5, <2>1, <3>2 DEF CountInv, CountersExact, TypeOK
  <2>2. CASE ~(k = req.kind /\ u = req.userID)
    <3>1. UserSessionsOf(k, u)' = UserSessionsOf(k, u)
      BY <1>2, <1>3, <1>4, <2>2 DEF SessionsOf, UserSessionsOf
    <3> QED
      BY <1>1, <1>5, <2>2, <3>1 DEF CountInv, CountersExact, TypeOK
  <2> QED
    BY <2>1, <2>2
<1>8. CountersExact'
  BY <1>5, <1>6, <1>7 DEF CountInv, CountersExact
<1>9. CountersBounded'
  <2>1. \A k \in Kinds : GlobalLimit(k) \in Nat /\ UserLimit(k) \in Nat
    BY LimitsAssumption DEF GlobalLimit, UserLimit
  <2>2. \A k \in Kinds : total'[k] <= GlobalLimit(k)
    BY <1>1, <1>5, <2>1 DEF CountInv, CountersBounded, TypeOK
  <2>3. \A k \in Kinds, u \in UserIDs : perUser'[k][u] <= UserLimit(k)
    BY <1>1, <1>5, <2>1 DEF CountInv, CountersBounded, TypeOK
  <2>4. \A k \in Kinds : GlobalLimit(k)' = GlobalLimit(k) /\ UserLimit(k)' = UserLimit(k)
    BY DEF GlobalLimit, UserLimit
  <2> QED
    BY <1>5, <2>2, <2>3, <2>4 DEF CountInv, CountersBounded
<1> QED
  BY <1>8, <1>9 DEF CountInv

(* lease.Close takes its session out of every counter. *)
LEMMA CountClose ==
    ASSUME TypeOK, CountInv, NEW id \in DOMAIN leases, LeaseClose(id)
    PROVE  CountInv'
<1> DEFINE l == leases[id]
<1>1. id \in sessions /\ l.kind \in Kinds /\ l.userID \in UserIDs
  BY DEF LeaseClose, TypeOK, Leases
<1>2. sessions' = sessions \ {id} /\ \A i \in sessions' : leases'[i] = leases[i]
  BY DEF LeaseClose, Discard, TypeOK
<1>3. /\ total' = [total EXCEPT ![l.kind] = Decrement(@)]
      /\ perUser' = [perUser EXCEPT ![l.kind][l.userID] = Decrement(@)]
      /\ UNCHANGED <<handshakes, handshaking>>
  BY DEF LeaseClose, handshakeVars
<1>4. ASSUME NEW k \in Kinds PROVE total'[k] = Cardinality(SessionsOf(k)')
  <2>1. CASE k = l.kind
    <3>1. SessionsOf(k)' = SessionsOf(k) \ {id} /\ id \in SessionsOf(k)
      BY <1>1, <1>2, <2>1 DEF SessionsOf
    <3>2. Cardinality(SessionsOf(k)') = Decrement(Cardinality(SessionsOf(k)))
      BY <3>1, CountedFinite, CountDown
    <3> QED
      BY <1>1, <1>3, <2>1, <3>2 DEF CountInv, CountersExact, TypeOK
  <2>2. CASE k # l.kind
    <3>1. SessionsOf(k)' = SessionsOf(k)
      BY <1>1, <1>2, <2>2 DEF SessionsOf
    <3> QED
      BY <1>1, <1>3, <2>2, <3>1 DEF CountInv, CountersExact, TypeOK
  <2> QED
    BY <2>1, <2>2
<1>5. ASSUME NEW k \in Kinds, NEW u \in UserIDs
      PROVE  perUser'[k][u] = Cardinality(UserSessionsOf(k, u)')
  <2>1. CASE k = l.kind /\ u = l.userID
    <3>1. UserSessionsOf(k, u)' = UserSessionsOf(k, u) \ {id}
          /\ id \in UserSessionsOf(k, u)
      BY <1>1, <1>2, <2>1 DEF SessionsOf, UserSessionsOf
    <3>2. Cardinality(UserSessionsOf(k, u)')
              = Decrement(Cardinality(UserSessionsOf(k, u)))
      BY <3>1, CountedFinite, CountDown
    <3> QED
      BY <1>1, <1>3, <2>1, <3>2 DEF CountInv, CountersExact, TypeOK
  <2>2. CASE ~(k = l.kind /\ u = l.userID)
    <3>1. UserSessionsOf(k, u)' = UserSessionsOf(k, u)
      BY <1>1, <1>2, <2>2 DEF SessionsOf, UserSessionsOf
    <3> QED
      BY <1>1, <1>3, <2>2, <3>1 DEF CountInv, CountersExact, TypeOK
  <2> QED
    BY <2>1, <2>2
<1>6. CountersExact'
  BY <1>3, <1>4, <1>5 DEF CountInv, CountersExact
<1>7. CountersBounded'
  <2>1. \A k \in Kinds : GlobalLimit(k) \in Nat /\ UserLimit(k) \in Nat
    BY LimitsAssumption DEF GlobalLimit, UserLimit
  <2>2. \A n \in Nat : Decrement(n) <= n
    BY DEF Decrement
  <2>3. \A k \in Kinds : /\ total'[k] <= total[k] /\ total'[k] \in Nat
                        /\ \A u \in UserIDs : /\ perUser'[k][u] <= perUser[k][u]
                                              /\ perUser'[k][u] \in Nat
    BY <1>1, <1>3, <2>2 DEF TypeOK, Decrement
  <2>4. \A k \in Kinds : GlobalLimit(k)' = GlobalLimit(k) /\ UserLimit(k)' = UserLimit(k)
    BY DEF GlobalLimit, UserLimit
  <2> QED
    BY <1>3, <2>1, <2>3, <2>4 DEF CountInv, CountersBounded, TypeOK
<1> QED
  BY <1>6, <1>7 DEF CountInv

(* A handshake slot is taken and released once. *)
LEMMA CountHandshake ==
    ASSUME TypeOK, CountInv, NEW o \in Openers,
           AcquireHandshake(o) \/ ReleaseHandshake(o)
    PROVE  CountInv'
<1>1. UNCHANGED <<total, perUser, sessions, leases>>
  BY DEF AcquireHandshake, ReleaseHandshake, countVars
<1>2. \A k \in Kinds :
              /\ SessionsOf(k)' = SessionsOf(k)
              /\ \A u \in UserIDs : UserSessionsOf(k, u)' = UserSessionsOf(k, u)
  BY <1>1, SameCounted
<1>3. handshakes' = Cardinality(handshaking') /\ handshakes' <= ConcurrentHandshakes
  <2>0. handshakes = Cardinality(handshaking) /\ handshakes <= ConcurrentHandshakes
        /\ handshakes \in Nat /\ ConcurrentHandshakes \in Nat
    BY LimitsAssumption DEF CountInv, CountersExact, CountersBounded, TypeOK
  <2>1. CASE AcquireHandshake(o)
    <3>1. handshaking' = handshaking \cup {o} /\ o \notin handshaking
          /\ handshakes' = handshakes + 1 /\ handshakes < ConcurrentHandshakes
      BY <2>1 DEF AcquireHandshake
    <3>2. Cardinality(handshaking') = Cardinality(handshaking) + 1
      BY <3>1, CountedFinite, CountUp
    <3> QED
      BY <2>0, <3>1, <3>2
  <2>2. CASE ReleaseHandshake(o)
    <3>1. handshaking' = handshaking \ {o} /\ o \in handshaking
          /\ handshakes' = IF handshakes > 0 THEN handshakes - 1 ELSE handshakes
      BY <2>2 DEF ReleaseHandshake
    <3>2. Cardinality(handshaking') = Decrement(Cardinality(handshaking))
      BY <3>1, CountedFinite, CountDown
    <3> QED
      BY <2>0, <3>1, <3>2 DEF Decrement
  <2> QED
    BY <2>1, <2>2
<1>4. CountersExact'
  BY <1>1, <1>2, <1>3 DEF CountInv, CountersExact
<1>5. CountersBounded'
  BY <1>1, <1>3 DEF CountInv, CountersBounded, GlobalLimit, UserLimit
<1> QED
  BY <1>4, <1>5 DEF CountInv

(* Every operation keeps counters and sets together. *)
LEMMA CountStep == TypeOK /\ CountInv /\ [Next]_vars => CountInv'
<1> SUFFICES ASSUME TypeOK, CountInv, [Next]_vars PROVE CountInv'
  OBVIOUS
<1>a. ASSUME UNCHANGED <<total, perUser, handshakes, handshaking, sessions, leases>>
      PROVE  CountInv'
  BY <1>a, CountSame
<1>b. ASSUME NEW ids, revokeLocked(ids),
             UNCHANGED <<total, perUser, handshakes, handshaking, sessions>>
      PROVE  CountInv'
  BY <1>b, RevokeKeepsOwner, CountSame
<1>1. ASSUME NEW o \in Openers, OpenerStep(o) PROVE CountInv'
  <2>1. CASE AcquireHandshake(o) \/ ReleaseHandshake(o)
    BY <2>1, CountHandshake
  <2>2. CASE \E req \in Requests : AuthorizeTarget(o, req)
    BY <1>a, <2>2 DEF AuthorizeTarget, countVars, handshakeVars
  <2>3. CASE OpenAdmit(o)
    BY <2>3, CountOpen
  <2>4. CASE OpenReject(o)
    BY <1>a, <2>4 DEF OpenReject, countVars, handshakeVars
  <2> QED
    BY <1>1, <2>1, <2>2, <2>3, <2>4 DEF OpenerStep
<1>2. ASSUME NEW id \in DOMAIN leases, LeaseStep(id) PROVE CountInv'
  <2>1. CASE BindInterrupt(id)
    <3>1. \A i \in sessions : /\ leases'[i].kind = leases[i].kind
                             /\ leases'[i].userID = leases[i].userID
      BY <2>1 DEF BindInterrupt, TypeOK, Leases
    <3> QED
      BY <2>1, <3>1, CountSame DEF BindInterrupt, countVars, handshakeVars
  <2>2. CASE \E s \in SourceIPs : Rebind(id, s)
    <3>1. \A i \in sessions : /\ leases'[i].kind = leases[i].kind
                             /\ leases'[i].userID = leases[i].userID
      BY <2>2 DEF Rebind, TypeOK, Leases
    <3> QED
      BY <2>2, <3>1, CountSame DEF Rebind, handshakeVars
  <2>3. CASE LeaseClose(id)
    BY <2>3, CountClose
  <2>4. CASE Forget(id)
    <3>1. \A i \in sessions : leases'[i] = leases[i]
      BY <2>4 DEF Forget, Discard, TypeOK
    <3> QED
      BY <2>4, <3>1, CountSame DEF Forget, countVars, handshakeVars
  <2>5. CASE RunLateCallback(id)
    BY <1>a, <2>5 DEF RunLateCallback, countVars, handshakeVars
  <2> QED
    BY <1>2, <2>1, <2>2, <2>3, <2>4, <2>5 DEF LeaseStep
<1>3. ASSUME MainStep PROVE CountInv'
  <2>1. ASSUME NEW next \in Snapshots, Update(next) PROVE CountInv'
    BY <1>b, <2>1 DEF Update, countVars, handshakeVars
  <2>2. ASSUME NEW next \in Snapshots, UpdatePanic(next) PROVE CountInv'
    BY <1>a, <2>2 DEF UpdatePanic, countVars, handshakeVars
  <2>3. ASSUME NEW users \in SUBSET UserIDs, RevokeUsers(users) PROVE CountInv'
    BY <1>b, <2>3 DEF RevokeUsers, countVars, handshakeVars
  <2>4. CASE Close
    BY <1>b, <2>4 DEF Close, countVars, handshakeVars
  <2>5. ASSUME NEW id \in callbacks, RunCallback(id) PROVE CountInv'
    BY <1>a, <2>5 DEF RunCallback, countVars, handshakeVars
  <2> QED
    BY <1>3, <2>1, <2>2, <2>3, <2>4, <2>5 DEF MainStep
<1>4. CASE UNCHANGED vars
  BY <1>a, <1>4 DEF vars, countVars, handshakeVars
<1> QED
  BY <1>1, <1>2, <1>3, <1>4 DEF Next

(* The inductive invariant of the counters. *)
LEMMA CountInvariant == Spec => []CountInv
<1>1. Init => TypeOK /\ CountInv
  BY TypeInit, CountInit
<1>2. TypeOK /\ CountInv /\ [Next]_vars => (TypeOK /\ CountInv)'
  BY TypeStep, CountStep
<1> QED
  BY <1>1, <1>2, PTL DEF Spec

(* The counters of the registry count exactly the open sessions and pending *)
(* handshakes, for any number of them.                                       *)
THEOREM CountersAreExact == Spec => []CountersExact
<1>1. CountInv => CountersExact
  BY DEF CountInv
<1> QED
  BY <1>1, CountInvariant, PTL

(* No interleaving of goroutines opens more sessions or handshakes than the  *)
(* configured limits allow.                                                  *)
THEOREM SessionLimits == Spec => []LimitsRespected
<1>1. CountInv => LimitsRespected
  BY DEF CountInv, CountersExact, CountersBounded, LimitsRespected
<1> QED
  BY <1>1, CountInvariant, PTL

----------------------------------------------------------------------------
(* Interrupts.                                                              *)

(* After revokeLocked a session with a bound interrupt is in the callbacks   *)
(* collected, or was revoked before.                                         *)
LEMMA RevokeCollects ==
    ASSUME TypeOK, NoLostInterrupt, NEW ids \in SUBSET sessions, callbacks = {},
           revokeLocked(ids), UNCHANGED <<sessions, lateCallbacks, interrupted>>
    PROVE  NoLostInterrupt'
<1> SUFFICES ASSUME NEW id \in sessions, leases'[id].revoked, leases'[id].interrupt
             PROVE  id \in callbacks' \cup lateCallbacks \cup interrupted
  BY DEF NoLostInterrupt
<1>1. leases[id] \in Leases /\ id \in DOMAIN leases
  BY DEF TypeOK
<1>2. leases'[id] = [leases[id] EXCEPT !.revoked = @ \/ id \in ids]
  BY <1>1 DEF revokeLocked
<1>3. /\ leases'[id].revoked = (leases[id].revoked \/ id \in ids)
      /\ leases'[id].interrupt = leases[id].interrupt
  BY <1>1, <1>2 DEF Leases
<1>4. CASE id \in ids
  BY <1>3, <1>4 DEF revokeLocked
<1>5. CASE leases[id].revoked
  BY <1>3, <1>5 DEF NoLostInterrupt
<1> QED
  BY <1>3, <1>4, <1>5

(* Every operation keeps a bound interrupt of a revoked session on its way. *)
LEMMA InterruptStep == TypeOK /\ NoLostInterrupt /\ [Next]_vars => NoLostInterrupt'
<1> SUFFICES ASSUME TypeOK, NoLostInterrupt, [Next]_vars PROVE NoLostInterrupt'
  OBVIOUS
<1>a. ASSUME UNCHANGED <<leases, sessions, callbacks, lateCallbacks, interrupted>>
      PROVE  NoLostInterrupt'
  BY <1>a DEF NoLostInterrupt
<1>1. ASSUME NEW o \in Openers, OpenerStep(o) PROVE NoLostInterrupt'
  <2>1. CASE OpenAdmit(o)
    <3>1. sessions' = sessions \cup {nextID + 1}
          /\ ~leases'[nextID + 1].revoked
          /\ \A i \in sessions : leases'[i] = leases[i]
      BY <2>1 DEF OpenAdmit, NewLease, TypeOK
    <3> QED
      BY <2>1, <3>1 DEF OpenAdmit, callbackVars, NoLostInterrupt
  <2>2. CASE ~OpenAdmit(o)
    BY <1>1, <1>a, <2>2 DEF OpenerStep, AcquireHandshake, ReleaseHandshake,
                            AuthorizeTarget, OpenReject, callbackVars
  <2> QED
    BY <2>1, <2>2
<1>2. ASSUME NEW id \in DOMAIN leases, LeaseStep(id) PROVE NoLostInterrupt'
  <2>1. CASE BindInterrupt(id)
    <3>1. \A i \in DOMAIN leases :
             /\ leases'[i].revoked = leases[i].revoked
             /\ i # id => leases'[i] = leases[i]
      BY <2>1 DEF BindInterrupt, TypeOK, Leases
    <3>2. /\ lateCallbacks \subseteq lateCallbacks'
          /\ leases[id].revoked => id \in lateCallbacks'
          /\ UNCHANGED <<sessions, callbacks, interrupted>>
      BY <2>1 DEF BindInterrupt
    <3> QED
      BY <3>1, <3>2 DEF NoLostInterrupt, TypeOK
  <2>2. ASSUME NEW s \in SourceIPs, Rebind(id, s) PROVE NoLostInterrupt'
    <3>1. \A i \in DOMAIN leases :
             /\ leases'[i].revoked = leases[i].revoked
             /\ leases'[i].interrupt = leases[i].interrupt
      BY <2>2 DEF Rebind, TypeOK, Leases
    <3> QED
      BY <2>2, <3>1 DEF Rebind, callbackVars, NoLostInterrupt, TypeOK
  <2>3. CASE LeaseClose(id)
    <3>1. sessions' = sessions \ {id} /\ \A i \in sessions' : leases'[i] = leases[i]
      BY <2>3 DEF LeaseClose, Discard, TypeOK
    <3> QED
      BY <2>3, <3>1 DEF LeaseClose, NoLostInterrupt
  <2>4. CASE Forget(id)
    <3>1. \A i \in sessions : leases'[i] = leases[i]
      BY <2>4 DEF Forget, Discard, TypeOK
    <3> QED
      BY <2>4, <3>1 DEF Forget, callbackVars, NoLostInterrupt
  <2>5. CASE RunLateCallback(id)
    BY <2>5 DEF RunLateCallback, NoLostInterrupt
  <2> QED
    BY <1>2, <2>1, <2>2, <2>3, <2>4, <2>5 DEF LeaseStep
<1>3. ASSUME MainStep PROVE NoLostInterrupt'
  <2>1. ASSUME NEW next \in Snapshots, Update(next) PROVE NoLostInterrupt'
    <3>1. PolicyRevoked(next) \cup ConnectorRevoked(next) \in SUBSET sessions
      BY DEF PolicyRevoked, ConnectorRevoked
    <3> QED
      BY <2>1, <3>1, RevokeCollects DEF Update, MainLoopFree
  <2>2. ASSUME NEW next \in Snapshots, UpdatePanic(next) PROVE NoLostInterrupt'
    BY <1>a, <2>2 DEF UpdatePanic, callbackVars
  <2>3. ASSUME NEW users \in SUBSET UserIDs, RevokeUsers(users) PROVE NoLostInterrupt'
    BY <2>3, RevokeCollects DEF RevokeUsers, MainLoopFree
  <2>4. CASE Close
    BY <2>4, RevokeCollects DEF Close, MainLoopFree
  <2>5. ASSUME NEW id \in callbacks, RunCallback(id) PROVE NoLostInterrupt'
    BY <2>5 DEF RunCallback, NoLostInterrupt
  <2> QED
    BY <1>3, <2>1, <2>2, <2>3, <2>4, <2>5 DEF MainStep
<1>4. CASE UNCHANGED vars
  BY <1>a, <1>4 DEF vars, callbackVars
<1> QED
  BY <1>1, <1>2, <1>3, <1>4 DEF Next

(* BindInterrupt and revokeLocked never both leave the interrupt of a revoked *)
(* session to the other, in whatever order they get the mutex.               *)
THEOREM InterruptsNotLost == Spec => []NoLostInterrupt
<1>1. Init => TypeOK /\ NoLostInterrupt
  BY TypeInit DEF Init, NoLostInterrupt
<1>2. TypeOK /\ NoLostInterrupt /\ [Next]_vars => (TypeOK /\ NoLostInterrupt)'
  BY TypeStep, InterruptStep
<1> QED
  BY <1>1, <1>2, PTL DEF Spec
=============================================================================
