------------------------ MODULE AdmissionGateProofs ------------------------
(***************************************************************************)
(* The session registry implements the abstract admission gate, for every    *)
(* set of users, policies, snapshots and goroutines.                         *)
(***************************************************************************)
EXTENDS SessionRegistryProofs

(* Ids stay within the bound on leases. *)
IDsBounded == nextID <= MaxLeases

LEMMA IDsBoundedStep == TypeOK /\ IDsBounded /\ [Next]_vars => IDsBounded'
<1> SUFFICES ASSUME TypeOK, IDsBounded, [Next]_vars PROVE IDsBounded'
  OBVIOUS
<1>1. ASSUME NEW o \in Openers, OpenAdmit(o) PROVE IDsBounded'
  BY <1>1, BoundsAssumption DEF OpenAdmit, IDsBounded, TypeOK
<1>2. CASE nextID' = nextID
  BY <1>2 DEF IDsBounded
<1>3. nextID' = nextID \/ \E o \in Openers : OpenAdmit(o)
  BY DEF Next, OpenerStep, LeaseStep, MainStep, AcquireHandshake, ReleaseHandshake,
         AuthorizeTarget, OpenReject, BindInterrupt, Rebind, LeaseClose, Forget,
         RunLateCallback, Update, UpdatePanic, RevokeUsers, Close, RunCallback, vars
<1> QED  BY <1>1, <1>2, <1>3

GateInv == TypeOK /\ LivePolicyCurrent /\ IDsBounded

LEMMA GateInvariant == Spec => []GateInv
<1>1. Init => GateInv
  BY TypeInit, PolicyInit, BoundsAssumption DEF Init, IDsBounded, GateInv
<1>2. GateInv /\ [Next]_vars => GateInv'
  BY TypeStep, PolicyStep, IDsBoundedStep DEF GateInv
<1> QED  BY <1>1, <1>2, PTL DEF Spec

----------------------------------------------------------------------------
(* The sessions the gate sees.                                              *)

LiveIDs == {id \in sessions : ~leases[id].revoked}

LEMMA GateLiveIDs ==
    /\ DOMAIN GateLive = LiveIDs
    /\ \A id \in LiveIDs : GateLive[id] = GateSession(leases[id])
BY DEF GateLive, LiveIDs

LEMMA LiveIDsType ==
    ASSUME GateInv
    PROVE  /\ LiveIDs \subseteq 1..MaxLeases
           /\ \A id \in LiveIDs : id \in DOMAIN leases /\ leases[id] \in Leases
BY BoundsAssumption DEF GateInv, TypeOK, IDsBounded, LiveIDs

(* The permission of the gate is what LivePolicyCurrent says of a lease. *)
LEMMA CurrentPermits ==
    ASSUME NEW l, Current(l)
    PROVE  Gate!Permits(installed, GateSession(l))
BY DEF Current, TargetAllowed, GateSession, Gate!Permits

(* A step that only ends sessions, as far as the gate can see. *)
LEMMA GateKeep ==
    ASSUME GateInv, UNCHANGED <<installed, closed>>,
           \A id \in LiveIDs' : id \in LiveIDs
                                /\ GateSession(leases'[id]) = GateSession(leases[id])
    PROVE  Gate!GateNext
<1>1. GateLive' = [id \in LiveIDs' |-> GateSession(leases'[id])]
  BY DEF GateLive, LiveIDs
<1>2. LiveIDs' = LiveIDs \cap LiveIDs' /\ LiveIDs' \in SUBSET (1..MaxLeases)
  BY LiveIDsType
<1>3. Gate!Only(LiveIDs') = [id \in LiveIDs' |-> GateSession(leases[id])]
  BY <1>2, GateLiveIDs DEF Gate!Only
<1>4. GateLive' = Gate!Only(LiveIDs')
  BY <1>1, <1>3
<1>5. Gate!Keep(LiveIDs')
  BY <1>4 DEF Gate!Keep
<1> QED  BY <1>2, <1>5 DEF Gate!GateNext

(* Admission.  The gate admits under the snapshot of the second critical       *)
(* section of Open.                                                           *)
LEMMA GateAdmit ==
    ASSUME GateInv, NEW o \in Openers, OpenAdmit(o)
    PROVE  Gate!GateNext
<1> DEFINE req == pending[o]
           id == nextID + 1
           s == GateSession(NewLease(req))
<1>1. /\ req \in Requests /\ Admissible(req) /\ UNCHANGED <<installed, closed>>
      /\ id \notin DOMAIN leases /\ id \in 1..MaxLeases
  BY BoundsAssumption DEF GateInv, OpenAdmit, TypeOK, policyVars
<1>2. /\ sessions' = sessions \cup {id} /\ leases'[id] = NewLease(req)
      /\ \A i \in sessions : leases'[i] = leases[i] /\ i # id
  BY <1>1 DEF GateInv, OpenAdmit, TypeOK
<1>3. ~NewLease(req).revoked
  BY DEF NewLease
<1>4. LiveIDs' = LiveIDs \cup {id} /\ id \notin LiveIDs
  BY <1>2, <1>3 DEF LiveIDs
<1>5. s = [userID |-> req.userID, sourceIP |-> req.sourceIP, port |-> req.port, addrs |-> req.addrs]
  BY DEF GateSession, NewLease
<1>6. s \in [userID: UserIDs, sourceIP: SourceIPs, port: Ports, addrs: SUBSET Addresses \ {{}}]
  BY <1>1, <1>5 DEF Requests
<1>7. Gate!Permits(installed, s)
  BY <1>1, <1>5 DEF Admissible, TargetAllowed, Gate!Permits
<1>8. GateLive' = [i \in DOMAIN GateLive \cup {id} |-> IF i = id THEN s ELSE GateLive[i]]
  <2>1. GateLive' = [i \in LiveIDs \cup {id} |-> GateSession(leases'[i])]
    BY <1>4 DEF GateLive, LiveIDs
  <2>2. \A i \in LiveIDs : leases'[i] = leases[i] /\ i # id
    BY <1>2 DEF LiveIDs
  <2>3. \A i \in LiveIDs \cup {id} :
            GateSession(leases'[i]) = IF i = id THEN s ELSE GateLive[i]
    BY <1>2, <2>2, GateLiveIDs
  <2> HIDE DEF s, id
  <2> QED  BY <2>1, <2>3, GateLiveIDs
<1>9. Gate!Admit(id, s)
  BY <1>1, <1>4, <1>7, <1>8, GateLiveIDs DEF Gate!Admit, Admissible
<1> QED  BY <1>1, <1>6, <1>9 DEF Gate!GateNext

(* Rebind moves a session to a source the snapshot permits; a lease that has   *)
(* left the registry is invisible to the gate.                                 *)
LEMMA GateMove ==
    ASSUME GateInv, NEW id \in DOMAIN leases, NEW s \in SourceIPs, Rebind(id, s)
    PROVE  Gate!GateNext
<1> DEFINE l == leases[id]
<1>1. /\ UNCHANGED <<installed, closed, sessions>> /\ ~closed /\ ~l.revoked
      /\ leases' = [leases EXCEPT ![id].sourceIP = s]
      /\ s \notin installed.users[l.userID].disconnectIPs
  BY DEF Rebind, RebindAllowed, policyVars
<1>2. l \in Leases /\ \A i \in sessions : i \in DOMAIN leases /\ leases[i] \in Leases
  BY DEF GateInv, TypeOK
<1>3. leases'[id] = [l EXCEPT !.sourceIP = s] /\ \A i \in sessions \ {id} : leases'[i] = leases[i]
  BY <1>1, <1>2
<1>4. LiveIDs' = LiveIDs
  BY <1>1, <1>2, <1>3 DEF LiveIDs, Leases
<1>5. GateSession(leases'[id]) = [GateSession(l) EXCEPT !.sourceIP = s]
  BY <1>2, <1>3 DEF GateSession, Leases
<1>6. CASE id \notin sessions
  BY <1>1, <1>3, <1>4, <1>6, GateKeep DEF LiveIDs
<1>7. CASE id \in sessions
  <2>1. id \in LiveIDs /\ id \in 1..MaxLeases
    BY <1>1, <1>7, LiveIDsType DEF LiveIDs
  <2>2. Gate!Permits(installed, GateSession(leases'[id]))
    <3>1. Current(l)
      BY <1>1, <1>7 DEF GateInv, LivePolicyCurrent
    <3> QED
      BY <1>1, <1>5, <3>1 DEF Current, TargetAllowed, GateSession, Gate!Permits
  <2>3. GateLive' = [GateLive EXCEPT ![id].sourceIP = s]
    <3>1. GateLive' = [i \in LiveIDs |-> GateSession(leases'[i])]
      BY <1>4 DEF GateLive, LiveIDs
    <3>2. \A i \in LiveIDs : GateSession(leases'[i]) =
              IF i = id THEN [GateLive[i] EXCEPT !.sourceIP = s] ELSE GateLive[i]
      BY <1>3, <1>5, GateLiveIDs DEF LiveIDs
    <3>3. [GateLive EXCEPT ![id].sourceIP = s] =
              [i \in LiveIDs |-> IF i = id THEN [GateLive[i] EXCEPT !.sourceIP = s] ELSE GateLive[i]]
      BY <2>1, GateLiveIDs
    <3> QED  BY <3>1, <3>2, <3>3
  <2>4. Gate!Move(id, s)
    BY <1>1, <1>5, <2>1, <2>2, <2>3, GateLiveIDs DEF Gate!Move
  <2> QED  BY <2>1, <2>4 DEF Gate!GateNext
<1> QED  BY <1>6, <1>7

(* Update keeps only sessions the new snapshot permits and whose policy is the *)
(* same but for the disconnect list.                                           *)
LEMMA GateInstall ==
    ASSUME GateInv, GateInv', NEW next \in Snapshots, Update(next)
    PROVE  Gate!GateNext
<1> DEFINE ids == PolicyRevoked(next) \cup ConnectorRevoked(next)
<1>1. /\ ids \subseteq sessions /\ revokeLocked(ids)
      /\ UNCHANGED <<sessions, closed>> /\ ~closed /\ installed' = next
  BY DEF Update, installSnapshot, MainLoopFree, PolicyRevoked, ConnectorRevoked
<1>2. ASSUME NEW id \in LiveIDs'
      PROVE  id \in LiveIDs /\ id \notin ids /\ leases'[id] = leases[id]
  <2>1. id \in sessions /\ id \in DOMAIN leases /\ ~leases'[id].revoked
    BY <1>1 DEF LiveIDs, GateInv, TypeOK
  <2> HIDE DEF ids
  <2> QED  BY <1>1, <2>1, RevokeKeepsOthers DEF LiveIDs, GateInv
<1>3. ASSUME NEW id \in LiveIDs'
      PROVE  /\ Gate!Permits(next, GateSession(leases[id]))
             /\ Gate!SamePolicy(installed, next, GateSession(leases[id]))
  <2>1. Current(leases[id])' /\ Current(leases[id])
    BY <1>2 DEF GateInv, LivePolicyCurrent, LiveIDs
  <2>2. Gate!Permits(next, GateSession(leases[id]))
    BY <1>1, <1>2, <2>1 DEF Current, TargetAllowed, GateSession, Gate!Permits
  <2>3. leases[id].userID \in DOMAIN installed.users /\ leases[id].userID \notin WholeUsers(next)
    BY <1>2, <2>1 DEF Current, PolicyRevoked, LiveIDs
  <2>4. Gate!SamePolicy(installed, next, GateSession(leases[id]))
    BY <2>3 DEF WholeUsers, userPolicyWithoutDisconnectChanged, GateSession, Gate!SamePolicy
  <2> QED  BY <2>2, <2>4
<1>4. LiveIDs' \in SUBSET (1..MaxLeases) /\ LiveIDs' = LiveIDs \cap LiveIDs'
  BY <1>2, LiveIDsType
<1>5. GateLive' = Gate!Only(LiveIDs')
  <2>1. GateLive' = [id \in LiveIDs' |-> GateSession(leases'[id])]
    BY DEF GateLive, LiveIDs
  <2>2. Gate!Only(LiveIDs') = [id \in LiveIDs' |-> GateSession(leases[id])]
    BY <1>4, GateLiveIDs DEF Gate!Only
  <2> QED  BY <1>2, <2>1, <2>2
<1>6. Gate!Install(next, LiveIDs')
  BY <1>1, <1>3, <1>4, <1>5, GateLiveIDs DEF Gate!Install
<1> QED  BY <1>4, <1>6 DEF Gate!GateNext

(* A closed registry has no live session. *)
LEMMA GateShut ==
    ASSUME GateInv, GateInv', Close
    PROVE  Gate!GateNext
<1>1. closed' /\ installed' = installed
  BY DEF Close, policyVars
<1>2. LiveIDs' = {}
  BY <1>1 DEF GateInv, LivePolicyCurrent, Current, LiveIDs
<1>3. GateLive' = Gate!Only({})
  BY <1>2, GateLiveIDs DEF Gate!Only, GateLive, LiveIDs
<1>4. Gate!Shut
  BY <1>1, <1>3 DEF Close, Gate!Shut
<1> QED  BY <1>4 DEF Gate!GateNext

(* A session that stays as it was for the gate. *)
LEMMA GateOther ==
    ASSUME GateInv, [Next]_vars,
           ~\E o \in Openers : OpenAdmit(o),
           ~\E id \in DOMAIN leases, s \in SourceIPs : Rebind(id, s),
           ~\E next \in Snapshots : Update(next), ~Close
    PROVE  Gate!GateNext
<1>1. ASSUME UNCHANGED <<installed, closed, sessions, leases>> PROVE Gate!GateNext
  BY <1>1, GateKeep DEF LiveIDs
<1>2. ASSUME NEW o \in Openers, OpenerStep(o) PROVE Gate!GateNext
  BY <1>1, <1>2 DEF OpenerStep, AcquireHandshake, ReleaseHandshake, AuthorizeTarget, OpenReject,
       policyVars
<1>3. ASSUME NEW id \in DOMAIN leases, LeaseStep(id) PROVE Gate!GateNext
  <2>1. CASE BindInterrupt(id)
    <3>1. /\ UNCHANGED <<installed, closed, sessions>>
          /\ \A i \in sessions : /\ leases'[i].revoked = leases[i].revoked
                                /\ GateSession(leases'[i]) = GateSession(leases[i])
      BY <2>1 DEF BindInterrupt, policyVars, GateInv, TypeOK, Leases, GateSession
    <3> QED  BY <3>1, GateKeep DEF LiveIDs
  <2>2. CASE LeaseClose(id) \/ Forget(id)
    <3>1. /\ UNCHANGED <<installed, closed>> /\ sessions' \subseteq sessions
          /\ \A i \in sessions' : leases'[i] = leases[i]
      BY <2>2 DEF LeaseClose, Forget, Discard, policyVars, GateInv, TypeOK
    <3> QED  BY <3>1, GateKeep DEF LiveIDs
  <2>3. CASE RunLateCallback(id)
    BY <1>1, <2>3 DEF RunLateCallback, policyVars
  <2> QED  BY <1>3, <2>1, <2>2, <2>3 DEF LeaseStep
<1>4. ASSUME NEW users \in SUBSET UserIDs, RevokeUsers(users) PROVE Gate!GateNext
  <2> DEFINE ids == {i \in sessions : Live(i) /\ leases[i].userID \in users}
  <2>1. /\ ids \subseteq sessions /\ revokeLocked(ids)
        /\ UNCHANGED <<installed, closed, sessions>>
    BY <1>4 DEF RevokeUsers, policyVars
  <2>2. \A i \in LiveIDs' : i \in LiveIDs /\ leases'[i] = leases[i]
    <3>1. \A i \in LiveIDs' : i \in sessions /\ i \in DOMAIN leases /\ ~leases'[i].revoked
      BY <2>1 DEF LiveIDs, GateInv, TypeOK
    <3> HIDE DEF ids
    <3> QED  BY <2>1, <3>1, RevokeKeepsOthers DEF LiveIDs, GateInv
  <2> QED  BY <2>1, <2>2, GateKeep
<1>5. CASE MainStep
  BY <1>1, <1>4, <1>5 DEF MainStep, UpdatePanic, RunCallback, policyVars
<1>6. CASE UNCHANGED vars
  BY <1>1, <1>6 DEF vars, policyVars
<1> QED  BY <1>2, <1>3, <1>5, <1>6 DEF Next

(* The registry implements the abstract gate: with its mutex let go in the     *)
(* middle of Open and snapshots installed at any moment, every session that    *)
(* holds a permission was admitted by, moved under and kept by a snapshot that *)
(* permits it.                                                                 *)
THEOREM GateImplemented == Spec => ImplementsGate
<1>1. Init => Gate!GateInit
  BY DEF Init, GateLive, Gate!GateInit
<1>2. GateInv /\ GateInv' /\ [Next]_vars => [Gate!GateNext]_(Gate!gateVars)
  BY GateAdmit, GateMove, GateInstall, GateShut, GateOther
<1> QED  BY <1>1, <1>2, GateInvariant, PTL DEF Spec, ImplementsGate, Gate!GateSpec
=============================================================================
