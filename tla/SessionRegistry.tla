-------------------------- MODULE SessionRegistry --------------------------
(***************************************************************************)
(* The session registry of internal/session/registry.go: the policy        *)
(* authority of the data plane.  Xray goroutines ask it to open a logical   *)
(* session (Open), hang an interrupt on the lease they get (BindInterrupt), *)
(* move an XUDP lease to another source (Rebind) and give it back (Close),  *)
(* while the main loop installs authorization snapshots (Update) and        *)
(* finally closes the registry.                                             *)
(*                                                                          *)
(* Every critical section of Registry.mu is one action.  The places where   *)
(* the code lets go of the mutex in the middle of an operation are the      *)
(* ones that are modelled in two steps: Open drops it to resolve the        *)
(* target, and Update, RevokeUsers, Close and BindInterrupt run the         *)
(* interrupt callbacks after the unlock.                                    *)
(*                                                                          *)
(* Left out: the `rejected` tallies (telemetry that no decision reads), the *)
(* node ID inside the e-mail identity (one node per process), and Wait,     *)
(* which blocks a data copy but changes nothing in the registry; the        *)
(* limiters Wait uses are kept, by identity.                                *)
(***************************************************************************)
EXTENDS Integers, FiniteSets

CONSTANTS
    UserIDs,                \* panel users
    UUIDs,                  \* their VLESS credentials
    SourceIPs,              \* canonical client addresses
    Addresses,              \* canonical target addresses
    Ports,                  \* target ports
    RequestKinds,           \* the networks requests use, within Kinds
    Openers,                \* Xray goroutines that handshake and open sessions
    Snapshots,              \* the snapshots LoadSnapshot may produce
    TCPGlobal, TCPPerUser, XUDPGlobal, XUDPPerUser,
    ConcurrentHandshakes,   \* config.Limits
    MaxLeases,              \* bound: leases ever handed out
    MaxInstalls             \* bound: snapshots ever installed

Kinds == {"tcp", "xudp"}

\* model.User without its ID.  Rule lists are the sets they denote.
UserPolicy == [uuid: UUIDs, speed: Nat, connectors: Int,
               forbiddenIPs: SUBSET Addresses, forbiddenPorts: SUBSET Ports,
               disconnectIPs: SUBSET SourceIPs]

IsSnapshot(s) ==
    /\ s = [speed |-> s.speed, connectors |-> s.connectors, users |-> s.users]
    /\ s.speed \in Nat
    /\ s.connectors \in Int
    /\ DOMAIN s.users \subseteq UserIDs
    /\ s.users \in [DOMAIN s.users -> UserPolicy]

ASSUME SnapshotsAssumption == \A s \in Snapshots : IsSnapshot(s)
ASSUME FiniteAssumption == /\ IsFiniteSet(SourceIPs)
                           /\ IsFiniteSet(UserIDs)
                           /\ IsFiniteSet(Openers)
ASSUME BoundsAssumption == MaxLeases \in Nat /\ MaxInstalls \in Nat
ASSUME KindsAssumption == RequestKinds \subseteq Kinds
\* config.Validate accepts no other limits.
ASSUME LimitsAssumption ==
    /\ {TCPGlobal, TCPPerUser, XUDPGlobal, XUDPPerUser, ConcurrentHandshakes}
           \subseteq Nat \ {0}
    /\ TCPPerUser <= TCPGlobal
    /\ XUDPPerUser <= XUDPGlobal

\* sessioncontrol.Request after the identity, source and network were parsed,
\* with the addresses its target stands for (one literal, or all DNS answers).
Requests == [userID: UserIDs, sourceIP: SourceIPs, kind: RequestKinds,
             port: Ports, addrs: SUBSET Addresses \ {{}}]

\* A *rate.Limiter is its rate and the installation that created it.
Limiters == [rate: Nat, born: Nat]
NoLimiter == [rate |-> 0, born |-> 0]

\* The lease struct.  target is where its link goes (the code keeps it in the
\* dispatcher); interrupt says whether a callback is bound.
Leases == [userID: UserIDs, sourceIP: SourceIPs, kind: Kinds, target: Requests,
           userRate: Limiters, nodeRate: Limiters,
           interrupt: BOOLEAN, revoked: BOOLEAN]

VARIABLES
    installed,     \* nodeSpeed, nodeConnectors and users: one snapshot
    installs,      \* how many snapshots were installed
    nodeLimiter, userLimiters,
    leases,        \* the lease objects still referenced, by id
    sessions,      \* keys of Registry.sessions
    sources,       \* Registry.sources; 0 is an absent key
    total,         \* tcp and xudp
    perUser,       \* userTCP and userXUDP; 0 is an absent key
    handshakes,
    handshaking,   \* openers between AcquireHandshake and its release
    pending,       \* openers between the two critical sections of Open
    nextID,
    callbacks,     \* interrupts the main loop collected and has not run yet
    lateCallbacks, \* the same for goroutines inside BindInterrupt
    interrupted,   \* sessions whose interrupt ran
    closed,
    crashed        \* Update panicked; the process is gone

policyVars == <<installed, installs, nodeLimiter, userLimiters>>
countVars == <<sources, total, perUser>>
handshakeVars == <<handshakes, handshaking>>
callbackVars == <<callbacks, lateCallbacks, interrupted>>
vars == <<policyVars, leases, sessions, countVars, handshakeVars, pending,
          nextID, callbackVars, closed, crashed>>

----------------------------------------------------------------------------
(* Helpers of registry.go                                                   *)

newLimiter(mbps, now) ==
    IF mbps <= 0 THEN NoLimiter ELSE [rate |-> mbps, born |-> now]

effectiveLimit(user, node) ==
    CASE user <= 0                          -> node
      [] user > 0 /\ (node <= 0 \/ user < node) -> user
      [] OTHER                              -> node

\* The live entries of sources[u]; its cardinality is len(r.sources[u]).
SourceSet(u) == {s \in SourceIPs : sources[u][s] > 0}

\* Mutant: a counter that is zero already is decremented all the same.
DecrementUnfloored(n) == n - 1

Decrement(n) == IF n > 1 THEN n - 1 ELSE 0

\* Mutant: one closed session forgets its source for all the others.
removeSourceAltogether(u, s) == [sources EXCEPT ![u][s] = 0]

removeSource(u, s) == [sources EXCEPT ![u][s] = Decrement(@)]

Live(id) == id \in sessions /\ ~leases[id].revoked

ConnectorLimit(u) ==
    effectiveLimit(installed.users[u].connectors, installed.connectors)

userPolicyWithoutDisconnectChanged(left, right) ==
    [left EXCEPT !.disconnectIPs = {}] # [right EXCEPT !.disconnectIPs = {}]

----------------------------------------------------------------------------
(* New, and the part of installSnapshot that keeps or replaces limiters     *)

Init ==
    /\ installed \in Snapshots
    /\ installs = 1
    /\ nodeLimiter = newLimiter(installed.speed, 1)
    /\ userLimiters = [u \in DOMAIN installed.users |->
                           newLimiter(installed.users[u].speed, 1)]
    /\ leases = [id \in {} |-> NoLimiter]
    /\ sessions = {}
    /\ sources = [u \in UserIDs |-> [s \in SourceIPs |-> 0]]
    /\ total = [k \in Kinds |-> 0]
    /\ perUser = [k \in Kinds |-> [u \in UserIDs |-> 0]]
    /\ handshakes = 0
    /\ handshaking = {}
    /\ pending = [o \in {} |-> NoLimiter]
    /\ nextID = 0
    /\ callbacks = {}
    /\ lateCallbacks = {}
    /\ interrupted = {}
    /\ closed = FALSE
    /\ crashed = FALSE

installSnapshot(next) ==
    /\ installed' = next
    /\ installs' = installs + 1
    /\ nodeLimiter' = IF installed.speed # next.speed
                      THEN newLimiter(next.speed, installs + 1) ELSE nodeLimiter
    /\ userLimiters' =
           [u \in DOMAIN next.users |->
               IF /\ u \in DOMAIN installed.users
                  /\ installed.users[u].speed = next.users[u].speed
               THEN userLimiters[u]
               ELSE newLimiter(next.users[u].speed, installs + 1)]

----------------------------------------------------------------------------
(* Handshake slots.  The VLESS inbound gives its slot back before it         *)
(* dispatches the request: no goroutine is inside Open and holds one.        *)

AcquireHandshake(o) ==
    /\ o \notin handshaking
    /\ o \notin DOMAIN pending
    /\ ~closed
    /\ handshakes < ConcurrentHandshakes
    /\ handshakes' = handshakes + 1
    /\ handshaking' = handshaking \cup {o}
    /\ UNCHANGED <<policyVars, leases, sessions, countVars, pending, nextID,
                   callbackVars, closed, crashed>>

ReleaseHandshake(o) ==
    /\ o \in handshaking
    /\ handshakes' = IF handshakes > 0 THEN handshakes - 1 ELSE handshakes
    /\ handshaking' = handshaking \ {o}
    /\ UNCHANGED <<policyVars, leases, sessions, countVars, pending, nextID,
                   callbackVars, closed, crashed>>

----------------------------------------------------------------------------
(* Open                                                                     *)

TargetAllowed(user, req) ==
    /\ req.port \notin user.forbiddenPorts
    /\ req.addrs \cap user.forbiddenIPs = {}

\* Up to the end of authorizeTarget: the user is read under the mutex, the
\* target is resolved and checked against that copy without it.
AuthorizeTarget(o, req) ==
    /\ o \notin DOMAIN pending
    /\ o \notin handshaking
    /\ req.userID \in DOMAIN installed.users
    /\ TargetAllowed(installed.users[req.userID], req)
    /\ pending' = [p \in DOMAIN pending \cup {o} |->
                      IF p = o THEN req ELSE pending[p]]
    /\ UNCHANGED <<policyVars, leases, sessions, countVars, handshakeVars,
                   nextID, callbackVars, closed, crashed>>

GlobalLimit(k) == IF k = "tcp" THEN TCPGlobal ELSE XUDPGlobal
UserLimit(k) == IF k = "tcp" THEN TCPPerUser ELSE XUDPPerUser

\* Mutant: the session limits are off by one.
checkCapacityOffByOne(req) ==
    LET u == req.userID
        limit == ConnectorLimit(u)
    IN  /\ ~(/\ limit > 0
             /\ sources[u][req.sourceIP] = 0
             /\ Cardinality(SourceSet(u)) >= limit)
        /\ total[req.kind] <= GlobalLimit(req.kind)
        /\ perUser[req.kind][u] <= UserLimit(req.kind)

checkCapacityLocked(req) ==
    LET u == req.userID
        limit == ConnectorLimit(u)
    IN  /\ ~(/\ limit > 0
             /\ sources[u][req.sourceIP] = 0
             /\ Cardinality(SourceSet(u)) >= limit)
        /\ total[req.kind] < GlobalLimit(req.kind)
        /\ perUser[req.kind][u] < UserLimit(req.kind)

\* Mutant: the target is not checked against the snapshot of now.
AdmissibleWithoutRecheck(req) ==
    /\ ~closed
    /\ req.userID \in DOMAIN installed.users
    /\ req.sourceIP \notin installed.users[req.userID].disconnectIPs
    /\ checkCapacityLocked(req)

\* The second critical section decides again, on the snapshot of now.
Admissible(req) ==
    /\ ~closed
    /\ req.userID \in DOMAIN installed.users
    /\ req.sourceIP \notin installed.users[req.userID].disconnectIPs
    /\ TargetAllowed(installed.users[req.userID], req)
    /\ checkCapacityLocked(req)

NewLease(req) ==
    [userID |-> req.userID, sourceIP |-> req.sourceIP, kind |-> req.kind,
     target |-> req, userRate |-> userLimiters[req.userID],
     nodeRate |-> nodeLimiter, interrupt |-> FALSE, revoked |-> FALSE]

DropPending(o) == [p \in DOMAIN pending \ {o} |-> pending[p]]

OpenAdmit(o) ==
    /\ o \in DOMAIN pending
    /\ Admissible(pending[o])
    /\ nextID < MaxLeases
    /\ LET req == pending[o]
           id == nextID + 1
       IN  /\ nextID' = id
           /\ leases' = [i \in DOMAIN leases \cup {id} |->
                            IF i = id THEN NewLease(req) ELSE leases[i]]
           /\ sessions' = sessions \cup {id}
           /\ sources' = [sources EXCEPT ![req.userID][req.sourceIP] = @ + 1]
           /\ total' = [total EXCEPT ![req.kind] = @ + 1]
           /\ perUser' = [perUser EXCEPT ![req.kind][req.userID] = @ + 1]
    /\ pending' = DropPending(o)
    /\ UNCHANGED <<policyVars, handshakeVars, callbackVars, closed, crashed>>

OpenReject(o) ==
    /\ o \in DOMAIN pending
    /\ ~Admissible(pending[o])
    /\ pending' = DropPending(o)
    /\ UNCHANGED <<policyVars, leases, sessions, countVars, handshakeVars,
                   nextID, callbackVars, closed, crashed>>

----------------------------------------------------------------------------
(* Lease operations                                                         *)

\* Mutant: the revoked flag is not read back under the mutex.
BindInterruptUnchecked(id) ==
    /\ id \in DOMAIN leases
    /\ ~leases[id].interrupt
    /\ leases' = [leases EXCEPT ![id].interrupt = TRUE]
    /\ UNCHANGED <<policyVars, sessions, countVars, handshakeVars, pending,
                   nextID, callbackVars, closed, crashed>>

\* A lease revoked before its callback was bound is interrupted by the binder.
BindInterrupt(id) ==
    /\ id \in DOMAIN leases
    /\ ~leases[id].interrupt
    /\ leases' = [leases EXCEPT ![id].interrupt = TRUE]
    /\ lateCallbacks' = IF leases[id].revoked THEN lateCallbacks \cup {id}
                                              ELSE lateCallbacks
    /\ UNCHANGED <<policyVars, sessions, countVars, handshakeVars, pending,
                   nextID, callbacks, interrupted, closed, crashed>>

\* The checks of Rebind.  A refusal changes nothing; the caller (Mux) then
\* closes the lease.
RebindAllowed(l, s) ==
    LET u == l.userID
        limit == ConnectorLimit(u)
        afterDetach == Cardinality(SourceSet(u))
                           - (IF sources[u][l.sourceIP] = 1 THEN 1 ELSE 0)
    IN  /\ ~closed
        /\ ~l.revoked
        /\ u \in DOMAIN installed.users
        /\ s \notin installed.users[u].disconnectIPs
        /\ ~(limit > 0 /\ sources[u][s] = 0 /\ afterDetach >= limit)

\* Mux keeps a dropped XUDP session for a minute and rebinds its lease when the
\* client comes back from s.  Neither side asks whether the lease is still in
\* the registry, although the end of the carrier's context closes it.
Rebind(id, s) ==
    /\ id \in DOMAIN leases
    /\ leases[id].kind = "xudp"
    /\ leases[id].interrupt
    /\ s # leases[id].sourceIP
    /\ RebindAllowed(leases[id], s)
    /\ LET u == leases[id].userID
           detached == removeSource(u, leases[id].sourceIP)
       IN  sources' = [detached EXCEPT ![u][s] = @ + 1]
    /\ leases' = [leases EXCEPT ![id].sourceIP = s]
    /\ UNCHANGED <<policyVars, sessions, total, perUser, handshakeVars,
                   pending, nextID, callbackVars, closed, crashed>>

Discard(id) == [i \in DOMAIN leases \ {id} |-> leases[i]]

\* Mutant: the user's own counter keeps counting the closed lease.
LeaseCloseKeepsUserCount(id) ==
    /\ id \in sessions
    /\ total' = [total EXCEPT ![leases[id].kind] = Decrement(@)]
    /\ sources' = removeSource(leases[id].userID, leases[id].sourceIP)
    /\ leases' = Discard(id)
    /\ sessions' = sessions \ {id}
    /\ callbacks' = callbacks \ {id}
    /\ lateCallbacks' = lateCallbacks \ {id}
    /\ interrupted' = interrupted \ {id}
    /\ UNCHANGED <<policyVars, perUser, handshakeVars, pending, nextID, closed,
                   crashed>>

\* Mutant: Close takes a revoked lease for one that was released already.
LeaseCloseSkipsRevoked(id) ==
    /\ id \in sessions
    /\ ~leases[id].revoked
    /\ LET l == leases[id]
       IN  /\ total' = [total EXCEPT ![l.kind] = Decrement(@)]
           /\ perUser' = [perUser EXCEPT ![l.kind][l.userID] = Decrement(@)]
           /\ sources' = removeSource(l.userID, l.sourceIP)
           /\ leases' = IF l.kind = "xudp" THEN leases ELSE Discard(id)
    /\ sessions' = sessions \ {id}
    /\ UNCHANGED <<policyVars, handshakeVars, pending, nextID, callbackVars, closed,
                   crashed>>

\* lease.Close under its sync.Once.  Nobody uses a TCP lease afterwards; an XUDP
\* lease may still be in XUDPManager.Map, where Rebind refuses a revoked one.
LeaseClose(id) ==
    /\ id \in sessions
    /\ LET l == leases[id]
       IN  /\ total' = [total EXCEPT ![l.kind] = Decrement(@)]
           /\ perUser' = [perUser EXCEPT ![l.kind][l.userID] = Decrement(@)]
           /\ sources' = removeSource(l.userID, l.sourceIP)
           /\ leases' = IF l.kind = "xudp" /\ ~l.revoked THEN leases
                                                         ELSE Discard(id)
    /\ sessions' = sessions \ {id}
    /\ callbacks' = callbacks \ {id}
    /\ lateCallbacks' = lateCallbacks \ {id}
    /\ interrupted' = interrupted \ {id}
    /\ UNCHANGED <<policyVars, handshakeVars, pending, nextID, closed, crashed>>

\* XUDPManager drops a closed session: its minute is over, a rebind failed, or
\* the session never had a global ID.
Forget(id) ==
    /\ id \in DOMAIN leases \ sessions
    /\ leases' = Discard(id)
    /\ UNCHANGED <<policyVars, sessions, countVars, handshakeVars, pending,
                   nextID, callbackVars, closed, crashed>>

----------------------------------------------------------------------------
(* Revocation, by the main loop                                             *)

\* revokeLocked: ids are the sessions it selects.
revokeLocked(ids) ==
    /\ leases' = [id \in DOMAIN leases |->
                     [leases[id] EXCEPT !.revoked = @ \/ id \in ids]]
    /\ callbacks' = {id \in ids : leases[id].interrupt}

\* First half of Update: whole users, then sources that became disconnected.
WholeUsers(next) ==
    {u \in DOMAIN installed.users :
        \/ installed.speed # next.speed
        \/ u \notin DOMAIN next.users
        \/ userPolicyWithoutDisconnectChanged(installed.users[u], next.users[u])}

\* Mutant: only users that left the snapshot are revoked.
PolicyRevokedRemovedOnly(next) ==
    {id \in sessions : Live(id) /\ leases[id].userID \notin DOMAIN next.users}

PolicyRevoked(next) ==
    {id \in sessions :
        LET l == leases[id]
        IN  /\ ~l.revoked
            /\ \/ l.userID \in WholeUsers(next)
               \/ /\ l.userID \in DOMAIN installed.users
                  /\ l.sourceIP \in next.users[l.userID].disconnectIPs
                                       \ installed.users[l.userID].disconnectIPs}

\* Second half, enforceConnectorsLocked: of the sources that still have a live
\* session, all but the `limit` oldest ones are blocked.
StillLive(next, u) ==
    {id \in sessions \ PolicyRevoked(next) : Live(id) /\ leases[id].userID = u}

LiveSources(next, u) == {leases[id].sourceIP : id \in StillLive(next, u)}

OlderSources(next, u, s) ==
    {leases[id].sourceIP : id \in
        {i \in StillLive(next, u) :
            \A j \in StillLive(next, u) : leases[j].sourceIP = s => i < j}}

NextLimit(next, u) == effectiveLimit(next.users[u].connectors, next.connectors)

Overfull(next, u) ==
    /\ u \in DOMAIN next.users
    /\ NextLimit(next, u) > 0
    /\ Cardinality(SourceSet(u)) > NextLimit(next, u)

\* Mutant: the newest sources are kept instead of the oldest.
ConnectorRevokedOldest(next) ==
    {id \in sessions : \E u \in UserIDs :
        /\ id \in StillLive(next, u)
        /\ Overfull(next, u)
        /\ Cardinality(LiveSources(next, u)
               \ (OlderSources(next, u, leases[id].sourceIP)
                      \cup {leases[id].sourceIP})) >= NextLimit(next, u)}

ConnectorRevoked(next) ==
    {id \in sessions : \E u \in UserIDs :
        /\ id \in StillLive(next, u)
        /\ Overfull(next, u)
        /\ Cardinality(OlderSources(next, u, leases[id].sourceIP))
               >= NextLimit(next, u)}

\* ordered[limit:] with fewer than limit live sources is a runtime panic.
SlicePanics(next) ==
    \E u \in UserIDs : /\ Overfull(next, u)
                       /\ Cardinality(LiveSources(next, u)) < NextLimit(next, u)

\* The caller, Engine.Apply, runs on the main loop: it comes here with another
\* snapshot than the installed one, before Close, and its last callbacks done.
MainLoopFree == ~closed /\ callbacks = {}

Update(next) ==
    /\ MainLoopFree
    /\ installs < MaxInstalls
    /\ next # installed
    /\ ~SlicePanics(next)
    /\ installSnapshot(next)
    /\ revokeLocked(PolicyRevoked(next) \cup ConnectorRevoked(next))
    /\ UNCHANGED <<sessions, countVars, handshakeVars, pending, nextID,
                   lateCallbacks, interrupted, closed, crashed>>

UpdatePanic(next) ==
    /\ MainLoopFree
    /\ installs < MaxInstalls
    /\ next # installed
    /\ SlicePanics(next)
    /\ crashed' = TRUE
    /\ UNCHANGED <<policyVars, leases, sessions, countVars, handshakeVars,
                   pending, nextID, callbackVars, closed>>

\* Exported, and called by no code of the repository but tests.
RevokeUsers(ids) ==
    /\ MainLoopFree
    /\ revokeLocked({id \in sessions : Live(id) /\ leases[id].userID \in ids})
    /\ UNCHANGED <<policyVars, sessions, countVars, handshakeVars, pending,
                   nextID, lateCallbacks, interrupted, closed, crashed>>

Close ==
    /\ MainLoopFree
    /\ closed' = TRUE
    /\ revokeLocked({id \in sessions :
                        Live(id) /\ leases[id].userID \in DOMAIN installed.users})
    /\ UNCHANGED <<policyVars, sessions, countVars, handshakeVars, pending,
                   nextID, lateCallbacks, interrupted, crashed>>

\* The collected callbacks run after the unlock, by the goroutine that collected
\* them: the main loop, or the binder.
RunCallback(id) ==
    /\ id \in callbacks
    /\ callbacks' = callbacks \ {id}
    /\ interrupted' = interrupted \cup {id}
    /\ UNCHANGED <<policyVars, leases, sessions, countVars, handshakeVars,
                   pending, nextID, lateCallbacks, closed, crashed>>

RunLateCallback(id) ==
    /\ id \in lateCallbacks
    /\ lateCallbacks' = lateCallbacks \ {id}
    /\ interrupted' = interrupted \cup {id}
    /\ UNCHANGED <<policyVars, leases, sessions, countVars, handshakeVars,
                   pending, nextID, callbacks, closed, crashed>>

OpenerStep(o) ==
    \/ AcquireHandshake(o)
    \/ ReleaseHandshake(o)
    \/ \E req \in Requests : AuthorizeTarget(o, req)
    \/ OpenAdmit(o)
    \/ OpenReject(o)

LeaseStep(id) ==
    \/ BindInterrupt(id)
    \/ \E s \in SourceIPs : Rebind(id, s)
    \/ LeaseClose(id)
    \/ Forget(id)
    \/ RunLateCallback(id)

MainStep ==
    \/ \E next \in Snapshots : Update(next) \/ UpdatePanic(next)
    \/ \E ids \in SUBSET UserIDs : RevokeUsers(ids)
    \/ Close
    \/ \E id \in callbacks : RunCallback(id)

Next ==
    /\ ~crashed
    /\ \/ \E o \in Openers : OpenerStep(o)
       \/ \E id \in DOMAIN leases : LeaseStep(id)
       \/ MainStep

Spec == Init /\ [][Next]_vars

----------------------------------------------------------------------------
(* Fairness: the goroutine that opened a session goes straight on to bind   *)
(* its interrupt, collected callbacks are run by a plain loop, and the       *)
(* copies of an interrupted link return an error and close their lease.      *)

Running(A) == ~crashed /\ A
CloseInterrupted(id) == id \in interrupted /\ LeaseClose(id)

Fairness ==
    \A id \in 1..MaxLeases :
        /\ WF_vars(Running(BindInterrupt(id)))
        /\ WF_vars(Running(RunCallback(id)))
        /\ WF_vars(Running(RunLateCallback(id)))
        /\ WF_vars(Running(CloseInterrupted(id)))

FairSpec == Spec /\ Fairness

----------------------------------------------------------------------------
(* Properties                                                               *)

(* The types of the variables.  Ids are never reused, and a lease that is    *)
(* out of the registry but still referenced was not revoked.                 *)
TypeOK ==
    /\ installed \in Snapshots
    /\ installs \in Nat
    /\ nodeLimiter \in Limiters
    /\ userLimiters \in [DOMAIN installed.users -> Limiters]
    /\ nextID \in Nat
    /\ sessions \subseteq DOMAIN leases
    /\ DOMAIN leases \subseteq 1..nextID
    /\ leases \in [DOMAIN leases -> Leases]
    /\ \A id \in DOMAIN leases : leases[id].revoked => id \in sessions
    /\ sources \in [UserIDs -> [SourceIPs -> Nat]]
    /\ total \in [Kinds -> Nat]
    /\ perUser \in [Kinds -> [UserIDs -> Nat]]
    /\ handshakes \in Nat
    /\ handshaking \subseteq Openers
    /\ DOMAIN pending \subseteq Openers
    /\ pending \in [DOMAIN pending -> Requests]
    /\ callbacks \subseteq sessions
    /\ lateCallbacks \subseteq sessions
    /\ interrupted \subseteq sessions
    /\ closed \in BOOLEAN
    /\ crashed \in BOOLEAN

SessionsOf(k) == {id \in sessions : leases[id].kind = k}
UserSessionsOf(k, u) == {id \in SessionsOf(k) : leases[id].userID = u}

(* The counters Open decides on (tcp, xudp, userTCP, userXUDP, handshakes)  *)
(* count exactly the sessions and handshakes there are, whatever the order   *)
(* of opens, revocations and closes: a leaked or doubly released slot would  *)
(* shrink or widen the limits for good.                                      *)
CountersExact ==
    /\ \A k \in Kinds :
          /\ total[k] = Cardinality(SessionsOf(k))
          /\ \A u \in UserIDs : perUser[k][u] = Cardinality(UserSessionsOf(k, u))
    /\ handshakes = Cardinality(handshaking)

(* checkCapacityLocked and AcquireHandshake: goroutines that compete for the *)
(* last slot, each between the two critical sections of its Open, never pass *)
(* a session limit or the handshake limit.                                   *)
LimitsRespected ==
    /\ \A k \in Kinds :
          /\ Cardinality(SessionsOf(k)) <= GlobalLimit(k)
          /\ \A u \in UserIDs : Cardinality(UserSessionsOf(k, u)) <= UserLimit(k)
    /\ Cardinality(handshaking) <= ConcurrentHandshakes

\* What the registry's present state says about one lease.
Current(l) ==
    /\ ~closed
    /\ l.userID \in DOMAIN installed.users
    /\ l.sourceIP \notin installed.users[l.userID].disconnectIPs
    /\ TargetAllowed(installed.users[l.userID], l.target)
    /\ l.userRate = userLimiters[l.userID]
    /\ l.nodeRate = nodeLimiter

(* Open reads the policy, resolves the target without the mutex and is      *)
(* admitted later; Update may come in between or afterwards.  Still, a       *)
(* session that was not revoked is always authorized by the snapshot now     *)
(* installed: its user exists, its source is not disconnected, its target    *)
(* is not forbidden, it draws from the limiters now in use, and a closed     *)
(* registry has no such session.                                             *)
LivePolicyCurrent ==
    \A id \in sessions : ~leases[id].revoked => Current(leases[id])

(* BindInterrupt races revokeLocked: whichever comes second makes sure that *)
(* the interrupt of a revoked session ran or is about to.                    *)
NoLostInterrupt ==
    \A id \in sessions :
        leases[id].revoked /\ leases[id].interrupt =>
            id \in callbacks \cup lateCallbacks \cup interrupted

(* A revoked session is eventually closed and gives its slots back, unless  *)
(* the process crashes first.                                                *)
RevokedSessionsEnd ==
    \A id \in 1..MaxLeases :
        (id \in sessions /\ leases[id].revoked) ~> (crashed \/ id \notin sessions)

LiveSourcesOf(u) ==
    {leases[id].sourceIP : id \in {i \in sessions : Live(i) /\ leases[i].userID = u}}

KeptSources(u) ==
    {leases[id].sourceIP : id \in
        {i \in sessions : leases[i].userID = u /\ ~leases'[i].revoked}}

UpdateSparesOldest ==
    /\ \A u \in DOMAIN installed'.users :
          ConnectorLimit(u)' > 0 => Cardinality(KeptSources(u)) <= ConnectorLimit(u)'
    /\ \A id \in sessions :
          LET u == leases[id].userID
          IN  (/\ Live(id) /\ leases'[id].revoked
               /\ u \in DOMAIN installed'.users
               /\ installed.speed = installed'.speed
               /\ ~userPolicyWithoutDisconnectChanged(installed.users[u],
                                                      installed'.users[u])
               /\ leases[id].sourceIP \notin installed'.users[u].disconnectIPs)
              => /\ ConnectorLimit(u)' > 0
                 /\ Cardinality({s \in KeptSources(u) :
                       \E i \in sessions :
                          /\ Live(i) /\ leases[i].userID = u /\ leases[i].sourceIP = s
                          /\ i < id}) >= ConnectorLimit(u)'

(* Update leaves no user with more live sources than the new connector      *)
(* limit, and the sessions it takes although nothing else about their user   *)
(* changed come from sources younger than `limit` sources that stay.         *)
OldestSourcesKept == [][installs' # installs => UpdateSparesOldest]_vars

(* enforceConnectorsLocked never slices past the live sources it found.     *)
NoUpdatePanic == ~crashed

(* No user has live sessions from more sources than the connector limit.    *)
LiveSourcesWithinLimit ==
    \A u \in DOMAIN installed.users :
        ConnectorLimit(u) > 0 => Cardinality(LiveSourcesOf(u)) <= ConnectorLimit(u)

(* The source counters count the sessions of each source.                   *)
SourcesExact ==
    \A u \in UserIDs, s \in SourceIPs :
        sources[u][s] = Cardinality({id \in sessions :
                            leases[id].userID = u /\ leases[id].sourceIP = s})

\* The live sessions, as the abstract gate sees them.
GateSession(l) == [userID |-> l.userID, sourceIP |-> l.sourceIP,
                   port |-> l.target.port, addrs |-> l.target.addrs]
GateLive == [id \in {i \in sessions : ~leases[i].revoked} |-> GateSession(leases[id])]

Gate == INSTANCE AdmissionGate WITH
            SessionIDs <- 1..MaxLeases,
            Sessions <- [userID: UserIDs, sourceIP: SourceIPs, port: Ports,
                         addrs: SUBSET Addresses \ {{}}],
            policy <- installed, live <- GateLive, shut <- closed

(* The registry implements the abstract gate.                               *)
ImplementsGate == Gate!GateSpec
=============================================================================
