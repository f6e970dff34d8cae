-------------------------- MODULE ConnectorProofs --------------------------
(***************************************************************************)
(* Theorems about the source counters of the session registry and about the  *)
(* enforcement of connector limits, for every set of users, sources and      *)
(* snapshots.                                                                *)
(***************************************************************************)
EXTENDS SessionRegistryProofs

----------------------------------------------------------------------------
(* Sources ordered by their oldest session.  P is a set of session ids and f  *)
(* gives the source of each.                                                  *)

SourcesIn(P, f) == {f[i] : i \in P}

(* The sources with a session older than every session of s. *)
OlderThan(P, f, s) == {f[i] : i \in {k \in P : \A j \in P : f[j] = s => k < j}}

(* The sources with fewer than `limit` older ones. *)
OldestIn(P, f, limit) == {s \in SourcesIn(P, f) : Cardinality(OlderThan(P, f, s)) < limit}

LEMMA LeastNumber ==
    ASSUME NEW S \in SUBSET Nat, S # {}
    PROVE  \E m \in S : \A n \in S : m <= n
<1> DEFINE less == {pair \in Nat \X Nat : pair[1] < pair[2]}
<1>1. IsWellFoundedOn(less, Nat)
  BY NatLessThanWellFounded DEF OpToRel
<1>2. \E m \in S : \A n \in S : ~(<<n, m>> \in less)
  <2> HIDE DEF less
  <2> QED  BY <1>1, WFMin
<1>3. PICK m \in S : \A n \in S : ~(<<n, m>> \in less)
  BY <1>2
<1>4. ASSUME NEW n \in S PROVE m <= n
  <2>1. m \in Nat /\ n \in Nat
    OBVIOUS
  <2>2. n < m => <<n, m>> \in less
    BY <2>1
  <2>3. ~(<<n, m>> \in less)
    BY <1>3
  <2> HIDE DEF less
  <2> QED  BY <2>1, <2>2, <2>3
<1> QED  BY <1>4

LEMMA GreatestNumber ==
    ASSUME NEW N \in Nat, NEW S \in SUBSET (1..N), S # {}
    PROVE  \E m \in S : \A n \in S : n <= m
<1> DEFINE D == {d \in Nat : N - d \in S}
<1>1. D \in SUBSET Nat /\ D # {}
  <2>1. PICK n \in S : TRUE
    OBVIOUS
  <2>2. N - n \in Nat /\ N - (N - n) = n
    BY <2>1
  <2>3. N - n \in D
    BY <2>2
  <2> QED  BY <2>3
<1> HIDE DEF D
<1>2. PICK d \in D : \A e \in D : d <= e
  BY <1>1, LeastNumber
<1>3. d \in Nat /\ N - d \in S
  BY <1>2 DEF D
<1>4. ASSUME NEW n \in S PROVE n <= N - d
  <2>1. N - n \in Nat /\ N - (N - n) = n /\ n \in Nat
    OBVIOUS
  <2>2. N - n \in D
    BY <2>1 DEF D
  <2>3. d <= N - n
    BY <1>2, <2>2
  <2> QED  BY <1>3, <2>1, <2>3
<1> QED  BY <1>3, <1>4

(* "Older" is a strict total order of the sources. *)
LEMMA OlderOrder ==
    ASSUME NEW P \in SUBSET Nat, NEW f
    PROVE  /\ \A s \in SourcesIn(P, f) : s \notin OlderThan(P, f, s)
           /\ \A s, t \in SourcesIn(P, f) :
                 s \in OlderThan(P, f, t) => t \notin OlderThan(P, f, s)
           /\ \A s, t \in SourcesIn(P, f) :
                 s \in OlderThan(P, f, t) => OlderThan(P, f, s) \subseteq OlderThan(P, f, t)
<1>1. \A s, t : s \in OlderThan(P, f, t) <=>
          \E i \in P : f[i] = s /\ \A j \in P : f[j] = t => i < j
  BY DEF OlderThan
<1>2. ASSUME NEW s \in SourcesIn(P, f), s \in OlderThan(P, f, s) PROVE FALSE
  <2>1. PICK i \in P : f[i] = s /\ \A j \in P : f[j] = s => i < j
    BY <1>1, <1>2
  <2> QED  BY <2>1
<1>3. ASSUME NEW s \in SourcesIn(P, f), NEW t \in SourcesIn(P, f),
             s \in OlderThan(P, f, t), t \in OlderThan(P, f, s)
      PROVE  FALSE
  <2>1. PICK i \in P : f[i] = s /\ \A j \in P : f[j] = t => i < j
    BY <1>1, <1>3
  <2>2. PICK k \in P : f[k] = t /\ \A j \in P : f[j] = s => k < j
    BY <1>1, <1>3
  <2>3. i < k /\ k < i
    BY <2>1, <2>2
  <2> QED  BY <2>3
<1>4. ASSUME NEW s \in SourcesIn(P, f), NEW t \in SourcesIn(P, f),
             s \in OlderThan(P, f, t), NEW r \in OlderThan(P, f, s)
      PROVE  r \in OlderThan(P, f, t)
  <2>1. PICK i \in P : f[i] = s /\ \A j \in P : f[j] = t => i < j
    BY <1>1, <1>4
  <2>2. PICK k \in P : f[k] = r /\ \A j \in P : f[j] = s => k < j
    BY <1>1, <1>4
  <2>3. \A j \in P : f[j] = t => k < j
    BY <2>1, <2>2
  <2> QED  BY <1>1, <2>2, <2>3
<1> QED  BY <1>2, <1>3, <1>4

(* Some sources have an oldest one among them ... *)
LEMMA OldestSource ==
    ASSUME NEW P \in SUBSET Nat, NEW f, NEW T \in SUBSET SourcesIn(P, f), T # {}
    PROVE  \E s \in T : \A t \in T \ {s} : s \in OlderThan(P, f, t)
<1> DEFINE I == {i \in P : f[i] \in T}
<1>1. I \in SUBSET Nat /\ I # {}
  BY DEF SourcesIn
<1>2. PICK m \in I : \A i \in I : m <= i
  <2> HIDE DEF I
  <2> QED  BY <1>1, LeastNumber
<1>3. ASSUME NEW t \in T \ {f[m]} PROVE f[m] \in OlderThan(P, f, t)
  <2>1. \A j \in P : f[j] = t => m < j
    BY <1>2, <1>3
  <2> QED  BY <1>2, <2>1 DEF OlderThan
<1> QED  BY <1>2, <1>3

(* ... and a youngest one. *)
LEMMA YoungestSource ==
    ASSUME NEW N \in Nat, NEW P \in SUBSET (1..N), NEW f,
           NEW T \in SUBSET SourcesIn(P, f), T # {}
    PROVE  \E s \in T : \A t \in T \ {s} : t \in OlderThan(P, f, s)
<1> DEFINE FirstOf(t, i) == i \in P /\ f[i] = t /\ \A j \in P : f[j] = t => i <= j
           I == {i \in P : f[i] \in T /\ FirstOf(f[i], i)}
<1>1. ASSUME NEW t \in T PROVE \E i \in P : FirstOf(t, i)
  <2> DEFINE J == {j \in P : f[j] = t}
  <2>0. PICK k \in P : f[k] = t
    BY DEF SourcesIn
  <2>a. P \in SUBSET Nat
    OBVIOUS
  <2>1. J \in SUBSET Nat /\ J # {}
    BY <2>0, <2>a, Zenon
  <2>2. PICK m \in J : \A j \in J : m <= j
    <3> HIDE DEF J
    <3> QED  BY <2>1, LeastNumber
  <2> QED  BY <2>2
<1>2. I \in SUBSET (1..N) /\ I # {}
  BY <1>1
<1>3. PICK m \in I : \A i \in I : i <= m
  <2> HIDE DEF I
  <2> QED  BY <1>2, GreatestNumber
<1>4. ASSUME NEW t \in T \ {f[m]} PROVE t \in OlderThan(P, f, f[m])
  <2>1. PICK i \in P : FirstOf(t, i)
    BY <1>1
  <2>2. i <= m /\ i # m
    BY <1>3, <1>4, <2>1
  <2>3. \A j \in P : f[j] = f[m] => i < j
    BY <1>2, <1>3, <2>2
  <2> QED  BY <2>1, <2>3 DEF OlderThan
<1> QED  BY <1>3, <1>4

LEMMA OlderFinite ==
    ASSUME NEW P, NEW f, NEW X, IsFiniteSet(X), \A i \in P : f[i] \in X
    PROVE  /\ IsFiniteSet(SourcesIn(P, f)) /\ \A s : IsFiniteSet(OlderThan(P, f, s))
           /\ \A s : OlderThan(P, f, s) \subseteq SourcesIn(P, f)
<1>1. SourcesIn(P, f) \in SUBSET X /\ \A s : OlderThan(P, f, s) \in SUBSET X
  BY DEF SourcesIn, OlderThan
<1>2. IsFiniteSet(SourcesIn(P, f)) /\ \A s : IsFiniteSet(OlderThan(P, f, s))
  BY <1>1, FS_Subset
<1> QED  BY <1>2 DEF SourcesIn, OlderThan

(* No more than `limit` sources have fewer than `limit` older ones. *)
LEMMA OldestAtMost ==
    ASSUME NEW N \in Nat, NEW P \in SUBSET (1..N), NEW f, NEW X, IsFiniteSet(X),
           \A i \in P : f[i] \in X, NEW limit \in Int, limit > 0
    PROVE  Cardinality(OldestIn(P, f, limit)) <= limit
<1> DEFINE K == OldestIn(P, f, limit)
<1>1. K \in SUBSET SourcesIn(P, f) /\ IsFiniteSet(K)
  BY OlderFinite, FS_Subset DEF OldestIn
<1>2. CASE K = {}
  BY <1>2, FS_EmptySet
<1>3. CASE K # {}
  <2>1. PICK s \in K : \A t \in K \ {s} : t \in OlderThan(P, f, s)
    <3> HIDE DEF K
    <3> QED  BY <1>1, <1>3, YoungestSource
  <2>2. IsFiniteSet(OlderThan(P, f, s)) /\ Cardinality(OlderThan(P, f, s)) < limit
    BY <2>1, OlderFinite DEF OldestIn
  <2>3. Cardinality(K \ {s}) <= Cardinality(OlderThan(P, f, s))
    BY <2>1, <2>2, FS_Subset
  <2>4. Cardinality(K \ {s}) = Cardinality(K) - 1
    BY <1>1, <2>1, FS_RemoveElement
  <2>5. Cardinality(K) \in Nat /\ Cardinality(OlderThan(P, f, s)) \in Nat
    BY <1>1, <2>2, FS_CardinalityType
  <2> QED  BY <2>2, <2>3, <2>4, <2>5
<1> QED  BY <1>2, <1>3

(* A source with `limit` older ones has `limit` of the oldest before it. *)
LEMMA OldestAtLeast ==
    ASSUME NEW P \in SUBSET Nat, NEW f, NEW X, IsFiniteSet(X), \A i \in P : f[i] \in X,
           NEW limit \in Int, NEW s \in SourcesIn(P, f),
           Cardinality(OlderThan(P, f, s)) >= limit
    PROVE  Cardinality(OldestIn(P, f, limit) \cap OlderThan(P, f, s)) >= limit
<1> DEFINE K == OldestIn(P, f, limit)
           T == SourcesIn(P, f) \ K
<1>0. \A t : Cardinality(OlderThan(P, f, t)) \in Nat
  BY OlderFinite, FS_CardinalityType
<1>1. s \in T /\ T \in SUBSET SourcesIn(P, f)
  BY <1>0 DEF OldestIn
<1>2. PICK t \in T : \A r \in T \ {t} : t \in OlderThan(P, f, r)
  <2> HIDE DEF T
  <2> QED  BY <1>1, OldestSource
<1>3. t \in SourcesIn(P, f) /\ Cardinality(OlderThan(P, f, t)) >= limit
  BY <1>0, <1>2 DEF OldestIn
<1>4. OlderThan(P, f, t) \subseteq K
  <2> SUFFICES ASSUME NEW x \in OlderThan(P, f, t), x \notin K PROVE FALSE
    OBVIOUS
  <2>1. x \in SourcesIn(P, f)
    BY OlderFinite
  <2>2. x \in T
    BY <2>1
  <2> HIDE DEF T, K
  <2>3. x = t \/ t \in OlderThan(P, f, x)
    BY <1>2, <2>2
  <2> QED  BY <1>3, <2>1, <2>3, OlderOrder
<1>5. OlderThan(P, f, t) \subseteq OlderThan(P, f, s)
  <2> HIDE DEF T
  <2>1. s = t \/ t \in OlderThan(P, f, s)
    BY <1>1, <1>2
  <2> QED  BY <1>3, <2>1, OlderOrder
<1>6. /\ OlderThan(P, f, t) \in SUBSET (K \cap OlderThan(P, f, s))
      /\ IsFiniteSet(K \cap OlderThan(P, f, s))
  BY <1>4, <1>5, OlderFinite, FS_Intersection
<1>7. Cardinality(OlderThan(P, f, t)) <= Cardinality(K \cap OlderThan(P, f, s))
  <2> HIDE DEF K
  <2> QED  BY <1>6, FS_Subset
<1>8. Cardinality(K \cap OlderThan(P, f, s)) \in Nat
  BY <1>6, FS_CardinalityType
<1> QED  BY <1>0, <1>3, <1>7, <1>8

----------------------------------------------------------------------------
(* The source counters.  LeaseClose and Rebind both give back the source of   *)
(* a lease; only a Rebind of a lease that was closed before gives it back a   *)
(* second time.                                                               *)

\* A Rebind of a lease that is out of the registry.
StrayRebind == \E id \in DOMAIN leases \ sessions, s \in SourceIPs : Rebind(id, s)

SessionsFrom(u, s) ==
    {id \in sessions : leases[id].userID = u /\ leases[id].sourceIP = s}

LEMMA SessionsFinite ==
    ASSUME TypeOK
    PROVE  /\ IsFiniteSet(sessions)
           /\ \A u, s : IsFiniteSet(SessionsFrom(u, s))
<1>0. nextID \in Int /\ 1 \in Int
  BY DEF TypeOK
<1>1. IsFiniteSet(1..nextID)
  BY <1>0, FS_Interval, Zenon
<1>2. sessions \subseteq 1..nextID
  BY DEF TypeOK
<1>3. \A S : S \subseteq sessions => IsFiniteSet(S)
  BY <1>1, <1>2, FS_Subset
<1> QED  BY <1>3 DEF SessionsFrom

(* A step that leaves counters, sessions, users and sources alone. *)
LEMMA SourcesSame ==
    ASSUME SourcesExact, UNCHANGED <<sources, sessions>>,
           \A id \in sessions : /\ leases'[id].userID = leases[id].userID
                               /\ leases'[id].sourceIP = leases[id].sourceIP
    PROVE  SourcesExact'
<1>1. \A u \in UserIDs, s \in SourceIPs : SessionsFrom(u, s)' = SessionsFrom(u, s)
  BY DEF SessionsFrom
<1> QED  BY <1>1 DEF SourcesExact, SessionsFrom

(* revokeLocked changes flags only. *)
LEMMA RevokeKeepsSource ==
    ASSUME TypeOK, NEW ids, revokeLocked(ids), NEW id \in sessions
    PROVE  /\ leases'[id].userID = leases[id].userID
           /\ leases'[id].sourceIP = leases[id].sourceIP
BY DEF TypeOK, revokeLocked, Leases

(* Open counts the new session at its source. *)
LEMMA SourcesOpen ==
    ASSUME TypeOK, SourcesExact, NEW o \in Openers, OpenAdmit(o)
    PROVE  SourcesExact'
<1> DEFINE req == pending[o]
           id == nextID + 1
<1>1. req.userID \in UserIDs /\ req.sourceIP \in SourceIPs
  BY DEF OpenAdmit, TypeOK, Requests
<1>2. id \notin sessions /\ id \notin DOMAIN leases
  BY DEF TypeOK
<1>3. sessions' = sessions \cup {id} /\ leases'[id] = NewLease(req)
      /\ \A i \in sessions : leases'[i] = leases[i]
  BY <1>2 DEF OpenAdmit, TypeOK
<1>4. leases'[id].sourceIP = req.sourceIP /\ leases'[id].userID = req.userID
  BY <1>3 DEF NewLease
<1>5. sources' = [sources EXCEPT ![req.userID][req.sourceIP] = @ + 1]
  BY DEF OpenAdmit
<1> HIDE DEF req, id
<1>6. ASSUME NEW u \in UserIDs, NEW s \in SourceIPs
      PROVE  sources'[u][s] = Cardinality(SessionsFrom(u, s)')
  <2>0. sources[u][s] = Cardinality(SessionsFrom(u, s))
    BY DEF SourcesExact, SessionsFrom
  <2>1. CASE u = req.userID /\ s = req.sourceIP
    <3>1. SessionsFrom(u, s)' = SessionsFrom(u, s) \cup {id} /\ id \notin SessionsFrom(u, s)
      BY <1>2, <1>3, <1>4, <2>1 DEF SessionsFrom
    <3>2. Cardinality(SessionsFrom(u, s)') = Cardinality(SessionsFrom(u, s)) + 1
      BY <3>1, SessionsFinite, CountUp
    <3> QED  BY <1>1, <1>5, <2>0, <2>1, <3>2 DEF TypeOK
  <2>2. CASE ~(u = req.userID /\ s = req.sourceIP)
    <3>1. SessionsFrom(u, s)' = SessionsFrom(u, s)
      BY <1>2, <1>3, <1>4, <2>2 DEF SessionsFrom
    <3> QED  BY <1>1, <1>5, <2>0, <2>2, <3>1 DEF TypeOK
  <2> QED  BY <2>1, <2>2
<1> QED  BY <1>6 DEF SourcesExact, SessionsFrom

(* lease.Close takes its session out of the count of its source. *)
LEMMA SourcesClose ==
    ASSUME TypeOK, SourcesExact, NEW id \in DOMAIN leases, LeaseClose(id)
    PROVE  SourcesExact'
<1> DEFINE l == leases[id]
<1>1. id \in sessions /\ l.userID \in UserIDs /\ l.sourceIP \in SourceIPs
  BY DEF LeaseClose, TypeOK, Leases
<1>2. sessions' = sessions \ {id} /\ \A i \in sessions' : leases'[i] = leases[i]
  BY DEF LeaseClose, Discard, TypeOK
<1>3. sources' = [sources EXCEPT ![l.userID][l.sourceIP] = Decrement(@)]
  BY DEF LeaseClose, removeSource
<1>4. ASSUME NEW u \in UserIDs, NEW s \in SourceIPs
      PROVE  sources'[u][s] = Cardinality(SessionsFrom(u, s)')
  <2>0. sources[u][s] = Cardinality(SessionsFrom(u, s))
    BY DEF SourcesExact, SessionsFrom
  <2>1. CASE u = l.userID /\ s = l.sourceIP
    <3>1. SessionsFrom(u, s)' = SessionsFrom(u, s) \ {id} /\ id \in SessionsFrom(u, s)
      BY <1>1, <1>2, <2>1 DEF SessionsFrom
    <3>2. Cardinality(SessionsFrom(u, s)') = Decrement(Cardinality(SessionsFrom(u, s)))
      BY <3>1, SessionsFinite, CountDown
    <3> QED  BY <1>1, <1>3, <2>0, <2>1, <3>2 DEF TypeOK
  <2>2. CASE ~(u = l.userID /\ s = l.sourceIP)
    <3>1. SessionsFrom(u, s)' = SessionsFrom(u, s)
      BY <1>1, <1>2, <2>2 DEF SessionsFrom
    <3> QED  BY <1>1, <1>3, <2>0, <2>2, <3>1 DEF TypeOK
  <2> QED  BY <2>1, <2>2
<1> QED  BY <1>4 DEF SourcesExact, SessionsFrom

(* Rebind of an open session moves it from one count to another. *)
LEMMA SourcesRebind ==
    ASSUME TypeOK, SourcesExact, NEW id \in sessions, NEW to \in SourceIPs, Rebind(id, to)
    PROVE  SourcesExact'
<1> DEFINE l == leases[id]
           detached == [sources EXCEPT ![l.userID][l.sourceIP] = Decrement(@)]
<1>1. id \in DOMAIN leases /\ l \in Leases /\ l.userID \in UserIDs /\ l.sourceIP \in SourceIPs
      /\ to # l.sourceIP
  BY DEF Rebind, TypeOK, Leases
<1>2. sessions' = sessions /\ leases' = [leases EXCEPT ![id].sourceIP = to]
  BY DEF Rebind
<1>3. /\ leases'[id].userID = l.userID /\ leases'[id].sourceIP = to
      /\ \A i \in sessions \ {id} : leases'[i] = leases[i]
  BY <1>1, <1>2 DEF TypeOK, Leases
<1>4. sources' = [detached EXCEPT ![l.userID][to] = @ + 1]
  BY DEF Rebind, removeSource
<1>5. detached \in [UserIDs -> [SourceIPs -> Nat]]
  BY <1>1 DEF TypeOK, Decrement
<1>6. ASSUME NEW u \in UserIDs, NEW s \in SourceIPs
      PROVE  sources'[u][s] = IF u = l.userID /\ s = to THEN detached[u][s] + 1
                                                       ELSE detached[u][s]
  BY <1>1, <1>4, <1>5
<1>7. ASSUME NEW u \in UserIDs, NEW s \in SourceIPs
      PROVE  detached[u][s] = IF u = l.userID /\ s = l.sourceIP
                              THEN Decrement(sources[u][s]) ELSE sources[u][s]
  BY <1>1 DEF TypeOK
<1> HIDE DEF detached
<1>8. ASSUME NEW u \in UserIDs, NEW s \in SourceIPs
      PROVE  sources'[u][s] = Cardinality(SessionsFrom(u, s)')
  <2>0. sources[u][s] = Cardinality(SessionsFrom(u, s))
    BY DEF SourcesExact, SessionsFrom
  <2>1. CASE u = l.userID /\ s = l.sourceIP
    <3>1. SessionsFrom(u, s)' = SessionsFrom(u, s) \ {id} /\ id \in SessionsFrom(u, s)
      BY <1>1, <1>2, <1>3, <2>1 DEF SessionsFrom
    <3>2. Cardinality(SessionsFrom(u, s)') = Decrement(Cardinality(SessionsFrom(u, s)))
      BY <3>1, SessionsFinite, CountDown
    <3> QED  BY <1>1, <1>6, <1>7, <2>0, <2>1, <3>2
  <2>2. CASE u = l.userID /\ s = to
    <3>1. SessionsFrom(u, s)' = SessionsFrom(u, s) \cup {id} /\ id \notin SessionsFrom(u, s)
      BY <1>1, <1>2, <1>3, <2>2 DEF SessionsFrom
    <3>2. Cardinality(SessionsFrom(u, s)') = Cardinality(SessionsFrom(u, s)) + 1
      BY <3>1, SessionsFinite, CountUp
    <3> QED  BY <1>1, <1>6, <1>7, <2>0, <2>2, <3>2
  <2>3. CASE ~(u = l.userID /\ s = l.sourceIP) /\ ~(u = l.userID /\ s = to)
    <3>1. SessionsFrom(u, s)' = SessionsFrom(u, s)
      BY <1>1, <1>2, <1>3, <2>3 DEF SessionsFrom
    <3> QED  BY <1>6, <1>7, <2>0, <2>3, <3>1
  <2> QED  BY <2>1, <2>2, <2>3
<1> QED  BY <1>8 DEF SourcesExact, SessionsFrom

LEMMA SourcesInit == Init => SourcesExact
<1> SUFFICES ASSUME Init PROVE SourcesExact
  OBVIOUS
<1>1. \A u \in UserIDs, s \in SourceIPs : SessionsFrom(u, s) = {} /\ sources[u][s] = 0
  BY DEF Init, SessionsFrom
<1> QED  BY <1>1, FS_EmptySet DEF SourcesExact, SessionsFrom

(* Every other step keeps the source counters exact. *)
LEMMA SourcesStep ==
    TypeOK /\ SourcesExact /\ [Next]_vars /\ [~StrayRebind]_vars => SourcesExact'
<1> SUFFICES ASSUME TypeOK, SourcesExact, [Next]_vars, [~StrayRebind]_vars
             PROVE  SourcesExact'
  OBVIOUS
<1>a. ASSUME UNCHANGED <<sources, sessions, leases>> PROVE SourcesExact'
  BY <1>a, SourcesSame
<1>b. ASSUME NEW ids, revokeLocked(ids), UNCHANGED <<sources, sessions>>
      PROVE  SourcesExact'
  BY <1>b, RevokeKeepsSource, SourcesSame
<1>1. ASSUME NEW o \in Openers, OpenerStep(o) PROVE SourcesExact'
  <2>1. CASE OpenAdmit(o)
    BY <2>1, SourcesOpen
  <2>2. CASE ~OpenAdmit(o)
    BY <1>1, <1>a, <2>2 DEF OpenerStep, AcquireHandshake, ReleaseHandshake,
                            AuthorizeTarget, OpenReject, countVars
  <2> QED  BY <2>1, <2>2
<1>2. ASSUME NEW id \in DOMAIN leases, LeaseStep(id) PROVE SourcesExact'
  <2>1. CASE BindInterrupt(id)
    <3>1. \A i \in sessions : /\ leases'[i].userID = leases[i].userID
                             /\ leases'[i].sourceIP = leases[i].sourceIP
      BY <2>1 DEF BindInterrupt, TypeOK, Leases
    <3> QED  BY <2>1, <3>1, SourcesSame DEF BindInterrupt, countVars
  <2>2. ASSUME NEW s \in SourceIPs, Rebind(id, s) PROVE SourcesExact'
    <3>1. CASE UNCHANGED vars
      BY <1>a, <3>1 DEF vars, countVars
    <3>2. CASE ~StrayRebind
      <4>1. id \in sessions
        BY <2>2, <3>2 DEF StrayRebind
      <4> QED  BY <2>2, <4>1, SourcesRebind
    <3> QED  BY <3>1, <3>2
  <2>3. CASE LeaseClose(id)
    BY <2>3, SourcesClose
  <2>4. CASE Forget(id)
    <3>1. \A i \in sessions : leases'[i] = leases[i]
      BY <2>4 DEF Forget, Discard, TypeOK
    <3> QED  BY <2>4, <3>1, SourcesSame DEF Forget, countVars
  <2>5. CASE RunLateCallback(id)
    BY <1>a, <2>5 DEF RunLateCallback, countVars
  <2> QED  BY <1>2, <2>1, <2>2, <2>3, <2>4, <2>5 DEF LeaseStep
<1>3. ASSUME MainStep PROVE SourcesExact'
  <2>1. ASSUME NEW next \in Snapshots, Update(next) PROVE SourcesExact'
    BY <1>b, <2>1 DEF Update, countVars
  <2>2. ASSUME NEW next \in Snapshots, UpdatePanic(next) PROVE SourcesExact'
    BY <1>a, <2>2 DEF UpdatePanic, countVars
  <2>3. ASSUME NEW users \in SUBSET UserIDs, RevokeUsers(users) PROVE SourcesExact'
    BY <1>b, <2>3 DEF RevokeUsers, countVars
  <2>4. CASE Close
    BY <1>b, <2>4 DEF Close, countVars
  <2>5. ASSUME NEW id \in callbacks, RunCallback(id) PROVE SourcesExact'
    BY <1>a, <2>5 DEF RunCallback, countVars
  <2> QED  BY <1>3, <2>1, <2>2, <2>3, <2>4, <2>5 DEF MainStep
<1>4. CASE UNCHANGED vars
  BY <1>a, <1>4 DEF vars, countVars
<1> QED  BY <1>1, <1>2, <1>3, <1>4 DEF Next

(* Unless a lease is rebound after it was closed, the counters that decide on *)
(* connector limits count exactly the sessions of each source, whatever the   *)
(* order of Open, Rebind, revocation and Close.  (The registry does not       *)
(* exclude that Rebind: run registry_rebind shows what becomes of the         *)
(* counters then.)                                                            *)
THEOREM SourcesExactUnlessStray == Spec /\ [][~StrayRebind]_vars => []SourcesExact
<1>1. Init => TypeOK /\ SourcesExact
  BY TypeInit, SourcesInit
<1>2. TypeOK /\ SourcesExact /\ [Next]_vars /\ [~StrayRebind]_vars
          => (TypeOK /\ SourcesExact)'
  BY TypeStep, SourcesStep
<1> QED  BY <1>1, <1>2, PTL DEF Spec

(* Without XUDP requests there is no XUDP lease ... *)
NoXUDPLease == \A id \in DOMAIN leases : leases[id].kind # "xudp"

LEMMA NoXUDPStep ==
    ASSUME "xudp" \notin RequestKinds, TypeOK, NoXUDPLease, [Next]_vars
    PROVE  NoXUDPLease'
<1>1. ASSUME NEW id \in DOMAIN leases' PROVE leases'[id].kind # "xudp"
  <2>1. ASSUME id \in DOMAIN leases, leases'[id].kind = leases[id].kind
        PROVE  leases'[id].kind # "xudp"
    BY <2>1 DEF NoXUDPLease
  <2>2. ASSUME leases' = leases PROVE leases'[id].kind # "xudp"
    BY <2>2 DEF NoXUDPLease
  <2>3. ASSUME NEW ids, revokeLocked(ids) PROVE leases'[id].kind # "xudp"
    <3>1. id \in DOMAIN leases /\ leases'[id].kind = leases[id].kind
      BY <2>3 DEF revokeLocked, TypeOK, Leases
    <3> QED  BY <2>1, <3>1
  <2>4. ASSUME NEW o \in Openers, OpenerStep(o) PROVE leases'[id].kind # "xudp"
    <3>1. CASE OpenAdmit(o)
      <4>1. pending[o].kind # "xudp"
        BY <3>1 DEF OpenAdmit, TypeOK, Requests
      <4>2. CASE id = nextID + 1
        BY <3>1, <4>1, <4>2 DEF OpenAdmit, NewLease
      <4>3. CASE id # nextID + 1
        BY <2>1, <3>1, <4>3 DEF OpenAdmit
      <4> QED  BY <4>2, <4>3
    <3>2. CASE ~OpenAdmit(o)
      BY <2>2, <2>4, <3>2 DEF OpenerStep, AcquireHandshake, ReleaseHandshake,
                              AuthorizeTarget, OpenReject
    <3> QED  BY <3>1, <3>2
  <2>5. ASSUME NEW i \in DOMAIN leases, LeaseStep(i) PROVE leases'[id].kind # "xudp"
    <3>1. ASSUME NEW s \in SourceIPs, Rebind(i, s) PROVE FALSE
      BY <3>1 DEF Rebind, NoXUDPLease
    <3>2. CASE BindInterrupt(i)
      <4>1. id \in DOMAIN leases /\ leases'[id].kind = leases[id].kind
        BY <3>2 DEF BindInterrupt, TypeOK, Leases
      <4> QED  BY <2>1, <4>1
    <3>3. CASE LeaseClose(i)
      <4>1. id \in DOMAIN leases /\ leases'[id] = leases[id]
        BY <3>3 DEF LeaseClose, Discard
      <4> QED  BY <2>1, <4>1
    <3>4. CASE Forget(i)
      <4>1. id \in DOMAIN leases /\ leases'[id] = leases[id]
        BY <3>4 DEF Forget, Discard
      <4> QED  BY <2>1, <4>1
    <3>5. CASE RunLateCallback(i)
      BY <2>2, <3>5 DEF RunLateCallback
    <3> QED  BY <2>5, <3>1, <3>2, <3>3, <3>4, <3>5 DEF LeaseStep
  <2>6. ASSUME MainStep PROVE leases'[id].kind # "xudp"
    BY <2>2, <2>3, <2>6 DEF MainStep, Update, UpdatePanic, RevokeUsers, Close, RunCallback
  <2> QED  BY <2>2, <2>4, <2>5, <2>6 DEF Next, vars
<1> QED  BY <1>1 DEF NoXUDPLease

(* ... hence nothing to rebind. *)
LEMMA NoStrayWithoutXUDP ==
    ASSUME "xudp" \notin RequestKinds
    PROVE  Spec => [][~StrayRebind]_vars
<1>1. Init => TypeOK /\ NoXUDPLease
  BY TypeInit DEF Init, NoXUDPLease
<1>2. TypeOK /\ NoXUDPLease /\ [Next]_vars => (TypeOK /\ NoXUDPLease)'
  BY TypeStep, NoXUDPStep
<1>3. NoXUDPLease => ~StrayRebind
  BY DEF NoXUDPLease, StrayRebind, Rebind
<1> QED  BY <1>1, <1>2, <1>3, PTL DEF Spec

(* A node without XUDP traffic has exact source counters whatever happens:    *)
(* what the run registry_connectors checks on its instance.                   *)
THEOREM SourcesExactWithoutXUDP ==
    ASSUME "xudp" \notin RequestKinds
    PROVE  Spec => []SourcesExact
BY NoStrayWithoutXUDP, SourcesExactUnlessStray, PTL

----------------------------------------------------------------------------
(* enforceConnectorsLocked.                                                   *)

\* The source of each session that Update has not revoked for its policy.
SourceOf(next, u) == [id \in StillLive(next, u) |-> leases[id].sourceIP]

(* The sources of the model, in the terms of the lemmas above. *)
LEMMA ConnectorTerms ==
    ASSUME TypeOK, NEW next, NEW u
    PROVE  /\ StillLive(next, u) \in SUBSET (1..nextID)
           /\ \A i \in StillLive(next, u) : SourceOf(next, u)[i] = leases[i].sourceIP
           /\ \A i \in StillLive(next, u) : SourceOf(next, u)[i] \in SourceIPs
           /\ \A i \in StillLive(next, u) :
                 SourceOf(next, u)[i] \in SourcesIn(StillLive(next, u), SourceOf(next, u))
           /\ \A s : OlderThan(StillLive(next, u), SourceOf(next, u), s)
                        = OlderSources(next, u, s)
<1> DEFINE P == StillLive(next, u)
           f == SourceOf(next, u)
<1>1. P \in SUBSET (1..nextID) /\ P \subseteq sessions
  BY DEF StillLive, TypeOK
<1>2. \A i \in P : f[i] = leases[i].sourceIP
  BY DEF SourceOf
<1>3. \A i \in P : leases[i].sourceIP \in SourceIPs
  BY <1>1 DEF TypeOK, Leases
<1>4. \A i \in P : f[i] \in SourcesIn(P, f)
  BY DEF SourcesIn
<1>5. ASSUME NEW s PROVE OlderThan(P, f, s) = OlderSources(next, u, s)
  <2> HIDE DEF f, P
  <2>1. \A i \in P : (\A j \in P : f[j] = s => i < j)
                        <=> (\A j \in P : leases[j].sourceIP = s => i < j)
    BY <1>2
  <2>2. OlderThan(P, f, s) = {leases[i].sourceIP : i \in
                {k \in P : \A j \in P : leases[j].sourceIP = s => k < j}}
    BY <1>2, <2>1 DEF OlderThan
  <2> QED  BY <2>2 DEF OlderSources, P
<1> QED  BY <1>1, <1>2, <1>3, <1>4, <1>5

(* What a revocation leaves: the sessions with neither flag nor selection. *)
LEMMA RevokedAfter ==
    ASSUME TypeOK, NEW ids \in SUBSET sessions, revokeLocked(ids), NEW id \in sessions
    PROVE  leases'[id].revoked <=> (leases[id].revoked \/ id \in ids)
<1>1. leases[id] \in Leases /\ id \in DOMAIN leases
  BY DEF TypeOK
<1>2. leases'[id] = [leases[id] EXCEPT !.revoked = @ \/ id \in ids]
  BY <1>1 DEF revokeLocked
<1> QED  BY <1>1, <1>2 DEF Leases

LEMMA LimitType ==
    ASSUME NEW next \in Snapshots, NEW u \in DOMAIN next.users
    PROVE  NextLimit(next, u) \in Int
<1>1. next.connectors \in Int /\ next.users[u].connectors \in Int
  BY SnapshotType DEF UserPolicy
<1> QED  BY <1>1 DEF NextLimit, effectiveLimit

(* An exact counter knows the source of every session. *)
LEMMA CountedSource ==
    ASSUME TypeOK, SourcesExact, NEW i \in sessions, NEW u \in UserIDs, leases[i].userID = u
    PROVE  leases[i].sourceIP \in SourceSet(u)
<1> DEFINE s == leases[i].sourceIP
<1>1. s \in SourceIPs
  BY DEF TypeOK, Leases
<1>2. i \in SessionsFrom(u, s)
  BY DEF SessionsFrom
<1>3. IsFiniteSet(SessionsFrom(u, s))
  BY SessionsFinite
<1>4. Cardinality(SessionsFrom(u, s)) \in Nat /\ Cardinality(SessionsFrom(u, s)) # 0
  BY <1>2, <1>3, FS_CardinalityType, FS_EmptySet
<1>5. sources[u][s] = Cardinality(SessionsFrom(u, s))
  BY <1>1 DEF SourcesExact, SessionsFrom
<1> QED  BY <1>1, <1>4, <1>5 DEF SourceSet

(* Update keeps no more than `limit` sources of a user, because the counters  *)
(* it looks at know every source there is. *)
LEMMA UpdateKeepsFew ==
    ASSUME TypeOK, SourcesExact, NEW next \in Snapshots, Update(next),
           NEW u \in DOMAIN next.users, NextLimit(next, u) > 0
    PROVE  Cardinality(KeptSources(u)) <= NextLimit(next, u)
<1> DEFINE P == StillLive(next, u)
           f == SourceOf(next, u)
           limit == NextLimit(next, u)
           ids == PolicyRevoked(next) \cup ConnectorRevoked(next)
<1>1. u \in UserIDs /\ limit \in Int
  BY SnapshotType, LimitType
<1>2. ids \in SUBSET sessions /\ revokeLocked(ids)
  BY DEF Update, PolicyRevoked, ConnectorRevoked
<1>3. ASSUME NEW i \in sessions, leases[i].userID = u, ~leases'[i].revoked
      PROVE  i \in P /\ i \notin ConnectorRevoked(next)
  <2>1. ~leases[i].revoked /\ i \notin ids
    <3> HIDE DEF ids
    <3> QED  BY <1>2, <1>3, RevokedAfter
  <2> QED  BY <1>3, <2>1 DEF StillLive, Live
<1>4. CASE Overfull(next, u)
  <2> HIDE DEF ids
  <2>1. \A s : Cardinality(OlderThan(P, f, s)) \in Nat /\ IsFiniteSet(SourcesIn(P, f))
    BY ConnectorTerms, FiniteAssumption, OlderFinite, FS_CardinalityType
  <2>2. ASSUME NEW i \in sessions, leases[i].userID = u, ~leases'[i].revoked
        PROVE  leases[i].sourceIP \in OldestIn(P, f, limit)
    <3>1. i \in P /\ i \notin ConnectorRevoked(next)
      BY <1>3, <2>2
    <3>2. ~(Cardinality(OlderSources(next, u, leases[i].sourceIP)) >= limit)
      BY <1>1, <1>4, <3>1 DEF ConnectorRevoked
    <3>3. ~(Cardinality(OlderThan(P, f, leases[i].sourceIP)) >= limit)
      BY <3>2, ConnectorTerms
    <3>4. Cardinality(OlderThan(P, f, leases[i].sourceIP)) < limit
      <4> HIDE DEF P, f, limit
      <4> QED  BY <1>1, <2>1, <3>3
    <3>5. leases[i].sourceIP \in SourcesIn(P, f)
      BY <3>1, ConnectorTerms
    <3> QED  BY <3>4, <3>5 DEF OldestIn
  <2>3. KeptSources(u) \subseteq OldestIn(P, f, limit)
    BY <2>2 DEF KeptSources
  <2>4. IsFiniteSet(OldestIn(P, f, limit))
    BY <2>1, FS_Subset DEF OldestIn
  <2>5. Cardinality(OldestIn(P, f, limit)) <= limit
    <3>1. nextID \in Nat /\ limit > 0
      BY DEF TypeOK
    <3>2. P \in SUBSET (1..nextID) /\ \A i \in P : f[i] \in SourceIPs
      BY ConnectorTerms
    <3> HIDE DEF P, f, limit
    <3> QED  BY <1>1, <3>1, <3>2, FiniteAssumption, OldestAtMost
  <2>6. /\ IsFiniteSet(KeptSources(u))
        /\ Cardinality(KeptSources(u)) <= Cardinality(OldestIn(P, f, limit))
    <3> HIDE DEF P, f, limit
    <3> QED  BY <2>3, <2>4, FS_Subset
  <2>7. Cardinality(KeptSources(u)) \in Nat /\ Cardinality(OldestIn(P, f, limit)) \in Nat
    BY <2>4, <2>6, FS_CardinalityType
  <2> HIDE DEF P, f, limit
  <2> QED  BY <1>1, <2>5, <2>6, <2>7 DEF limit
<1>5. CASE ~Overfull(next, u)
  <2>1. IsFiniteSet(SourceSet(u)) /\ Cardinality(SourceSet(u)) \in Nat
    BY FiniteAssumption, FS_Subset, FS_CardinalityType DEF SourceSet
  <2>2. Cardinality(SourceSet(u)) <= limit
    <3>1. ~(Cardinality(SourceSet(u)) > limit)
      BY <1>5 DEF Overfull
    <3> HIDE DEF limit
    <3> QED  BY <1>1, <2>1, <3>1
  <2>3. \A i \in sessions : leases[i].userID = u => leases[i].sourceIP \in SourceSet(u)
    BY <1>1, CountedSource
  <2>4. KeptSources(u) \subseteq SourceSet(u)
    BY <2>3 DEF KeptSources
  <2>5. /\ IsFiniteSet(KeptSources(u))
        /\ Cardinality(KeptSources(u)) <= Cardinality(SourceSet(u))
    BY <2>1, <2>4, FS_Subset
  <2>6. Cardinality(KeptSources(u)) \in Nat
    BY <2>5, FS_CardinalityType
  <2> HIDE DEF limit
  <2> QED  BY <1>1, <2>1, <2>2, <2>5, <2>6 DEF limit
<1> QED  BY <1>4, <1>5

(* The oldest sources of a user are not touched by enforceConnectorsLocked. *)
LEMMA OldestAreKept ==
    ASSUME TypeOK, NEW next \in Snapshots, Update(next), NEW u \in UserIDs,
           NEW i \in StillLive(next, u),
           leases[i].sourceIP \in OldestIn(StillLive(next, u), SourceOf(next, u),
                                           NextLimit(next, u)),
           NextLimit(next, u) \in Int
    PROVE  leases[i].sourceIP \in KeptSources(u)
<1> DEFINE P == StillLive(next, u)
           f == SourceOf(next, u)
           limit == NextLimit(next, u)
           ids == PolicyRevoked(next) \cup ConnectorRevoked(next)
<1>1. i \in sessions /\ ~leases[i].revoked /\ leases[i].userID = u /\ i \notin PolicyRevoked(next)
  BY DEF StillLive, Live
<1>2. ids \in SUBSET sessions /\ revokeLocked(ids)
  BY DEF Update, PolicyRevoked, ConnectorRevoked
<1>3. Cardinality(OlderSources(next, u, leases[i].sourceIP)) < limit
  <2>1. Cardinality(OlderThan(P, f, leases[i].sourceIP)) < limit
    BY DEF OldestIn
  <2> QED  BY <2>1, ConnectorTerms
<1>4. Cardinality(OlderSources(next, u, leases[i].sourceIP)) \in Nat
  BY ConnectorTerms, FiniteAssumption, OlderFinite, FS_CardinalityType
<1>5. ~(Cardinality(OlderSources(next, u, leases[i].sourceIP)) >= limit)
  <2> HIDE DEF limit
  <2> QED  BY <1>3, <1>4 DEF limit
<1>6. i \notin ConnectorRevoked(next)
  <2> SUFFICES ASSUME i \in ConnectorRevoked(next) PROVE FALSE
    OBVIOUS
  <2>1. PICK v \in UserIDs :
           /\ i \in StillLive(next, v)
           /\ Cardinality(OlderSources(next, v, leases[i].sourceIP)) >= NextLimit(next, v)
    BY DEF ConnectorRevoked
  <2>2. v = u
    BY <1>1, <2>1 DEF StillLive
  <2> QED  BY <1>5, <2>1, <2>2
<1>7. i \notin ids
  BY <1>1, <1>6
<1>8. ~leases'[i].revoked
  <2> HIDE DEF ids
  <2> QED  BY <1>1, <1>2, <1>7, RevokedAfter
<1> QED  BY <1>1, <1>8 DEF KeptSources

(* A session that Update takes for its connector only has `limit` kept        *)
(* sources before it.                                                         *)
LEMMA UpdateTakesYoung ==
    ASSUME TypeOK, NEW next \in Snapshots, Update(next),
           NEW id \in ConnectorRevoked(next)
    PROVE  LET u == leases[id].userID
           IN  /\ NextLimit(next, u) > 0
               /\ Cardinality({s \in KeptSources(u) :
                     \E i \in sessions :
                        /\ Live(i) /\ leases[i].userID = u /\ leases[i].sourceIP = s
                        /\ i < id}) >= NextLimit(next, u)
<1>1. PICK u \in UserIDs :
         /\ id \in StillLive(next, u)
         /\ Overfull(next, u)
         /\ Cardinality(OlderSources(next, u, leases[id].sourceIP)) >= NextLimit(next, u)
  BY DEF ConnectorRevoked
<1> DEFINE P == StillLive(next, u)
           f == SourceOf(next, u)
           limit == NextLimit(next, u)
           s == leases[id].sourceIP
           Before == {x \in KeptSources(u) :
                        \E i \in sessions :
                           /\ Live(i) /\ leases[i].userID = u /\ leases[i].sourceIP = x
                           /\ i < id}
<1>2. u = leases[id].userID /\ limit > 0 /\ limit \in Int
  BY <1>1, LimitType DEF StillLive, Overfull
<1>3. /\ P \in SUBSET Nat /\ s \in SourcesIn(P, f) /\ f[id] = s
      /\ \A i \in P : f[i] \in SourceIPs /\ f[i] = leases[i].sourceIP
      /\ Cardinality(OlderThan(P, f, s)) >= limit
  <2>1. P \in SUBSET (1..nextID) /\ nextID \in Nat
    BY ConnectorTerms DEF TypeOK
  <2>2. P \in SUBSET Nat
    <3> HIDE DEF P
    <3> QED  BY <2>1
  <2> QED  BY <1>1, <2>2, ConnectorTerms
<1>4. Cardinality(OldestIn(P, f, limit) \cap OlderThan(P, f, s)) >= limit
  <2> HIDE DEF P, f, limit, s
  <2> QED  BY <1>2, <1>3, FiniteAssumption, OldestAtLeast
<1>5. ASSUME NEW x \in OldestIn(P, f, limit) \cap OlderThan(P, f, s)
      PROVE  x \in Before
  <2>1. PICK k \in P : f[k] = x /\ \A j \in P : f[j] = s => k < j
    <3> HIDE DEF P, f, limit, s
    <3> QED  BY <1>5 DEF OlderThan
  <2>2. k < id /\ leases[k].sourceIP = x
    <3>1. id \in P
      BY <1>1
    <3> HIDE DEF P, f, limit, s
    <3> QED  BY <1>3, <2>1, <3>1
  <2>3. x \in KeptSources(u)
    BY <1>2, <1>5, <2>1, <2>2, OldestAreKept
  <2>4. k \in sessions /\ Live(k) /\ leases[k].userID = u
    BY <2>1 DEF StillLive, Live
  <2> QED  BY <2>2, <2>3, <2>4
<1>6. IsFiniteSet(Before)
  <2>1. \A i \in sessions : leases[i].sourceIP \in SourceIPs
    BY DEF TypeOK, Leases
  <2>2. Before \subseteq SourceIPs
    BY <2>1
  <2> HIDE DEF Before
  <2> QED  BY <2>2, FiniteAssumption, FS_Subset
<1>7. Cardinality(Before) >= limit
  <2> DEFINE Some == OldestIn(P, f, limit) \cap OlderThan(P, f, s)
  <2>1. Some \subseteq Before
    BY <1>5
  <2>2. Cardinality(Some) >= limit
    BY <1>4
  <2> HIDE DEF Some, Before, limit
  <2>3. IsFiniteSet(Some) /\ Cardinality(Some) <= Cardinality(Before)
    BY <1>6, <2>1, FS_Subset
  <2>4. Cardinality(Some) \in Nat /\ Cardinality(Before) \in Nat
    BY <1>6, <2>3, FS_CardinalityType
  <2> QED  BY <1>2, <2>2, <2>3, <2>4
<1> QED  BY <1>2, <1>7

(* Update as a whole. *)
LEMMA SparesOldest ==
    ASSUME TypeOK, SourcesExact, NEW next \in Snapshots, Update(next)
    PROVE  UpdateSparesOldest
<1> DEFINE ids == PolicyRevoked(next) \cup ConnectorRevoked(next)
<1>1. installed' = next /\ ids \in SUBSET sessions /\ revokeLocked(ids)
  BY DEF Update, installSnapshot, PolicyRevoked, ConnectorRevoked
<1>2. \A u : ConnectorLimit(u)' = NextLimit(next, u)
  BY <1>1 DEF ConnectorLimit, NextLimit
<1>3. ASSUME NEW u \in DOMAIN installed'.users, ConnectorLimit(u)' > 0
      PROVE  Cardinality(KeptSources(u)) <= ConnectorLimit(u)'
  BY <1>1, <1>2, <1>3, UpdateKeepsFew
<1>4. ASSUME NEW id \in sessions, Live(id), leases'[id].revoked,
             leases[id].userID \in DOMAIN next.users,
             installed.speed = next.speed,
             ~userPolicyWithoutDisconnectChanged(installed.users[leases[id].userID],
                                                 next.users[leases[id].userID]),
             leases[id].sourceIP \notin next.users[leases[id].userID].disconnectIPs
      PROVE  id \in ConnectorRevoked(next)
  <2>1. id \in ids
    <3> HIDE DEF ids
    <3> QED  BY <1>1, <1>4, RevokedAfter DEF Live
  <2>2. id \notin PolicyRevoked(next)
    BY <1>4 DEF PolicyRevoked, WholeUsers
  <2> QED  BY <2>1, <2>2
<1>5. ASSUME NEW id \in ConnectorRevoked(next)
      PROVE  LET u == leases[id].userID
             IN  /\ ConnectorLimit(u)' > 0
                 /\ Cardinality({s \in KeptSources(u) :
                       \E i \in sessions :
                          /\ Live(i) /\ leases[i].userID = u /\ leases[i].sourceIP = s
                          /\ i < id}) >= ConnectorLimit(u)'
  <2>1. id \in sessions
    BY <1>5 DEF ConnectorRevoked
  <2>2. leases'[id].userID = leases[id].userID
    <3> HIDE DEF ids
    <3> QED  BY <1>1, <2>1, RevokeKeepsSource
  <2>3. ConnectorLimit(leases[id].userID)' = NextLimit(next, leases[id].userID)
    BY <1>1, <2>2 DEF ConnectorLimit, NextLimit
  <2> QED  BY <1>5, <2>3, UpdateTakesYoung
<1> QED  BY <1>1, <1>3, <1>4, <1>5 DEF UpdateSparesOldest

(* Only Update installs a snapshot. *)
LEMMA OldestStep ==
    TypeOK /\ SourcesExact /\ [Next]_vars
        => [installs' # installs => UpdateSparesOldest]_vars
<1> SUFFICES ASSUME TypeOK, SourcesExact, Next, installs' # installs
             PROVE  UpdateSparesOldest
  OBVIOUS
<1>1. ASSUME NEW o \in Openers, OpenerStep(o) PROVE FALSE
  BY <1>1 DEF OpenerStep, AcquireHandshake, ReleaseHandshake, AuthorizeTarget, OpenAdmit,
              OpenReject, policyVars
<1>2. ASSUME NEW id \in DOMAIN leases, LeaseStep(id) PROVE FALSE
  BY <1>2 DEF LeaseStep, BindInterrupt, Rebind, LeaseClose, Forget, RunLateCallback, policyVars
<1>3. ASSUME MainStep PROVE \E next \in Snapshots : Update(next)
  BY <1>3 DEF MainStep, UpdatePanic, RevokeUsers, Close, RunCallback, policyVars
<1>4. PICK next \in Snapshots : Update(next)
  BY <1>1, <1>2, <1>3 DEF Next
<1> QED  BY <1>4, SparesOldest

(* Unless a lease is rebound after it was closed, Update leaves no user with  *)
(* more live sources than the new connector limit, and the sessions           *)
(* enforceConnectorsLocked takes are from sources younger than `limit` sources *)
(* that stay.  The first half rests on the exactness of the counters: a user  *)
(* whose counter misses a source is not looked at.                            *)
THEOREM OldestKeptUnlessStray == Spec /\ [][~StrayRebind]_vars => OldestSourcesKept
<1>1. TypeOK /\ SourcesExact /\ [Next]_vars
          => [installs' # installs => UpdateSparesOldest]_vars
  BY OldestStep
<1> QED  BY <1>1, TypeCorrect, SourcesExactUnlessStray, PTL DEF Spec, OldestSourcesKept

(* A node without XUDP traffic keeps the oldest sources whatever happens.     *)
THEOREM OldestKeptWithoutXUDP ==
    ASSUME "xudp" \notin RequestKinds
    PROVE  Spec => OldestSourcesKept
BY NoStrayWithoutXUDP, OldestKeptUnlessStray, PTL

----------------------------------------------------------------------------
(* What the refuted promises of the registry do hold for.                     *)

(* A counter above the limit with fewer live sources than the limit is the    *)
(* mark of a session that is revoked and still counted.                       *)
LEMMA PanicNeedsRevoked ==
    ASSUME TypeOK, SourcesExact, NEW next \in Snapshots, SlicePanics(next)
    PROVE  \E id \in sessions :
              /\ Overfull(next, leases[id].userID)
              /\ leases[id].revoked \/ id \in PolicyRevoked(next)
<1>1. PICK u \in UserIDs : /\ Overfull(next, u)
                           /\ Cardinality(LiveSources(next, u)) < NextLimit(next, u)
  BY DEF SlicePanics
<1>2. SUFFICES ASSUME \A id \in sessions : leases[id].userID = u =>
                         ~leases[id].revoked /\ id \notin PolicyRevoked(next)
               PROVE  FALSE
  BY <1>1
<1>3. NextLimit(next, u) \in Int /\ Cardinality(SourceSet(u)) > NextLimit(next, u)
  BY <1>1, LimitType DEF Overfull
<1>4. ASSUME NEW s \in SourceSet(u) PROVE s \in LiveSources(next, u)
  <2>1. s \in SourceIPs /\ sources[u][s] > 0
    BY <1>4 DEF SourceSet
  <2>2. sources[u][s] = Cardinality(SessionsFrom(u, s))
    BY <2>1 DEF SourcesExact, SessionsFrom
  <2>3. SessionsFrom(u, s) # {}
    BY <2>1, <2>2, FS_EmptySet
  <2>4. PICK id \in sessions : leases[id].userID = u /\ leases[id].sourceIP = s
    BY <2>3 DEF SessionsFrom
  <2>5. id \in StillLive(next, u)
    BY <1>2, <2>4 DEF StillLive, Live
  <2> QED  BY <2>4, <2>5 DEF LiveSources
<1>5. LiveSources(next, u) \subseteq SourceIPs
  BY DEF LiveSources, StillLive, TypeOK, Leases
<1>6. IsFiniteSet(LiveSources(next, u))
  BY <1>5, FiniteAssumption, FS_Subset
<1>7. /\ IsFiniteSet(SourceSet(u))
      /\ Cardinality(SourceSet(u)) <= Cardinality(LiveSources(next, u))
  <2>1. SourceSet(u) \subseteq LiveSources(next, u)
    BY <1>4
  <2> QED  BY <1>6, <2>1, FS_Subset
<1>8. Cardinality(SourceSet(u)) \in Nat /\ Cardinality(LiveSources(next, u)) \in Nat
  BY <1>6, <1>7, FS_CardinalityType
<1> QED  BY <1>1, <1>3, <1>7, <1>8

(* The slice of enforceConnectorsLocked (run registry_panic) goes wrong only  *)
(* when a user above the limit has a session that was revoked, by an earlier   *)
(* Update and not closed yet, or by the first half of this one; unless a lease *)
(* is rebound after its close.                                                 *)
THEOREM PanicOnlyAfterRevocation ==
    Spec /\ [][~StrayRebind]_vars
        => [][\A next \in Snapshots : UpdatePanic(next) =>
                 \E id \in sessions :
                    /\ Overfull(next, leases[id].userID)
                    /\ leases[id].revoked \/ id \in PolicyRevoked(next)]_vars
<1>1. TypeOK /\ SourcesExact =>
         \A next \in Snapshots : UpdatePanic(next) =>
            \E id \in sessions :
               /\ Overfull(next, leases[id].userID)
               /\ leases[id].revoked \/ id \in PolicyRevoked(next)
  BY PanicNeedsRevoked DEF UpdatePanic
<1> QED  BY <1>1, TypeCorrect, SourcesExactUnlessStray, PTL DEF Spec

\* A source that only sessions in the course of closing hold.
OnlyClosing(u, s) == sources[u][s] > 0 /\ s \notin LiveSourcesOf(u)

\* A session is opened from, or moved to, such a source.
JoinsClosing ==
    \/ \E o \in Openers :
          OpenAdmit(o) /\ OnlyClosing(pending[o].userID, pending[o].sourceIP)
    \/ \E id \in DOMAIN leases, s \in SourceIPs :
          Rebind(id, s) /\ OnlyClosing(leases[id].userID, s)

LEMMA LiveCounted ==
    ASSUME TypeOK, SourcesExact, NEW u \in UserIDs
    PROVE  LiveSourcesOf(u) \subseteq SourceSet(u)
BY CountedSource DEF LiveSourcesOf

LEMMA SourceSetFinite ==
    ASSUME NEW u
    PROVE  IsFiniteSet(SourceSet(u)) /\ Cardinality(SourceSet(u)) \in Nat
BY FiniteAssumption, FS_Subset, FS_CardinalityType DEF SourceSet

LEMMA InstalledLimitType ==
    ASSUME TypeOK, NEW u \in DOMAIN installed.users
    PROVE  u \in UserIDs /\ ConnectorLimit(u) \in Int
<1>1. installed \in Snapshots
  BY DEF TypeOK
<1>2. u \in UserIDs /\ installed.connectors \in Int /\ installed.users[u].connectors \in Int
  BY <1>1, SnapshotType DEF UserPolicy
<1> QED  BY <1>2 DEF ConnectorLimit, effectiveLimit

(* A smaller set does not pass a limit. *)
LEMMA FewerWithin ==
    ASSUME NEW S, NEW T, IsFiniteSet(S), T \subseteq S, NEW n \in Int, Cardinality(S) <= n
    PROVE  Cardinality(T) <= n
<1>1. IsFiniteSet(T) /\ Cardinality(T) <= Cardinality(S)
  BY FS_Subset
<1>2. Cardinality(T) \in Nat /\ Cardinality(S) \in Nat
  BY <1>1, FS_CardinalityType
<1> QED  BY <1>1, <1>2

(* One source more than a set below the limit. *)
LEMMA OneMoreWithin ==
    ASSUME NEW S, NEW T, NEW s, IsFiniteSet(S), T \subseteq S \cup {s}, NEW n \in Int,
           Cardinality(S) < n
    PROVE  Cardinality(T) <= n
<1>1. IsFiniteSet(S \cup {s}) /\ Cardinality(S \cup {s}) <= Cardinality(S) + 1
  <2>1. CASE s \in S
    <3>1. S \cup {s} = S /\ Cardinality(S) \in Nat
      BY <2>1, FS_CardinalityType
    <3> QED  BY <3>1
  <2>2. CASE s \notin S
    <3>1. IsFiniteSet(S \cup {s}) /\ Cardinality(S \cup {s}) = Cardinality(S) + 1
      BY <2>2, FS_AddElement
    <3> QED  BY <3>1, FS_CardinalityType
  <2> QED  BY <2>1, <2>2
<1>2. Cardinality(S \cup {s}) \in Nat /\ Cardinality(S) \in Nat
  BY <1>1, FS_CardinalityType
<1>3. Cardinality(S \cup {s}) <= n
  BY <1>1, <1>2
<1> QED  BY <1>1, <1>3, FewerWithin

(* Open: a source that is not live yet is not counted, and was let in below    *)
(* the limit.                                                                  *)
LEMMA WithinOpen ==
    ASSUME TypeOK, SourcesExact, LiveSourcesWithinLimit, ~JoinsClosing,
           NEW o \in Openers, OpenAdmit(o),
           NEW u \in DOMAIN installed.users, ConnectorLimit(u) > 0
    PROVE  Cardinality(LiveSourcesOf(u)') <= ConnectorLimit(u)
<1> DEFINE req == pending[o]
           id == nextID + 1
           s == req.sourceIP
<1>0. u \in UserIDs /\ ConnectorLimit(u) \in Int
  BY InstalledLimitType
<1>1. req \in Requests /\ s \in SourceIPs
  BY DEF OpenAdmit, TypeOK, Requests
<1>2. id \notin sessions /\ id \notin DOMAIN leases
  BY DEF TypeOK
<1>3. sessions' = sessions \cup {id} /\ leases'[id] = NewLease(req)
      /\ \A i \in sessions : leases'[i] = leases[i]
  BY <1>2 DEF OpenAdmit, TypeOK
<1>4. leases'[id].sourceIP = s /\ leases'[id].userID = req.userID
  BY <1>3 DEF NewLease
<1>5. /\ LiveSourcesOf(u)' \subseteq LiveSourcesOf(u) \cup {s}
      /\ u # req.userID => LiveSourcesOf(u)' \subseteq LiveSourcesOf(u)
  BY <1>3, <1>4 DEF LiveSourcesOf, Live
<1>6. IsFiniteSet(LiveSourcesOf(u)) /\ LiveSourcesOf(u) \subseteq SourceSet(u)
  BY <1>0, LiveCounted, SourceSetFinite, FS_Subset
<1>7. CASE LiveSourcesOf(u)' \subseteq LiveSourcesOf(u)
  <2>1. Cardinality(LiveSourcesOf(u)) <= ConnectorLimit(u)
    BY DEF LiveSourcesWithinLimit
  <2> QED  BY <1>0, <1>6, <1>7, <2>1, FewerWithin
<1>8. CASE u = req.userID /\ s \notin LiveSourcesOf(u)
  <2>1. sources[u][s] = 0
    <3>1. ~(sources[u][s] > 0)
      BY <1>8 DEF JoinsClosing, OnlyClosing
    <3>2. sources[u][s] \in Nat
      BY <1>0, <1>1 DEF TypeOK
    <3> QED  BY <3>1, <3>2
  <2>2. ~(Cardinality(SourceSet(u)) >= ConnectorLimit(u))
    BY <1>8, <2>1 DEF OpenAdmit, Admissible, checkCapacityLocked
  <2>3. Cardinality(SourceSet(u)) < ConnectorLimit(u)
    BY <1>0, <2>2, SourceSetFinite
  <2>4. LiveSourcesOf(u)' \subseteq SourceSet(u) \cup {s}
    BY <1>5, <1>6
  <2> HIDE DEF s
  <2> QED  BY <1>0, <2>3, <2>4, SourceSetFinite, OneMoreWithin
<1> QED  BY <1>5, <1>7, <1>8

(* Rebind: the source the session leaves makes room for the one it moves to,   *)
(* but only when nobody else holds it.                                         *)
LEMMA WithinRebind ==
    ASSUME TypeOK, SourcesExact, SourcesExact', TypeOK', LiveSourcesWithinLimit, ~JoinsClosing,
           NEW id \in DOMAIN leases, NEW s \in SourceIPs, Rebind(id, s),
           NEW u \in DOMAIN installed.users, ConnectorLimit(u) > 0
    PROVE  Cardinality(LiveSourcesOf(u)') <= ConnectorLimit(u)
<1> DEFINE l == leases[id]
<1>a. PICK a : a = l.sourceIP
  OBVIOUS
<1>0. u \in UserIDs /\ ConnectorLimit(u) \in Int
  BY InstalledLimitType
<1>1. l \in Leases /\ a \in SourceIPs /\ s # a /\ l.userID \in UserIDs
  BY <1>a DEF Rebind, TypeOK, Leases
<1>2. /\ sessions' = sessions /\ leases'[id].userID = l.userID /\ leases'[id].sourceIP = s
      /\ leases'[id].revoked = l.revoked
      /\ \A i \in sessions \ {id} : leases'[i] = leases[i]
  <2>1. sessions' = sessions /\ leases' = [leases EXCEPT ![id].sourceIP = s]
    BY DEF Rebind
  <2>2. /\ leases'[id] = [l EXCEPT !.sourceIP = s]
        /\ \A i \in DOMAIN leases \ {id} : leases'[i] = leases[i]
    BY <2>1 DEF TypeOK
  <2>3. /\ leases'[id].userID = l.userID /\ leases'[id].sourceIP = s
        /\ leases'[id].revoked = l.revoked
    BY <1>1, <2>2 DEF Leases
  <2> QED  BY <2>1, <2>2, <2>3 DEF TypeOK
<1>5. /\ LiveSourcesOf(u)' \subseteq LiveSourcesOf(u) \cup {s}
      /\ u # l.userID => LiveSourcesOf(u)' \subseteq LiveSourcesOf(u)
  BY <1>2 DEF LiveSourcesOf, Live
<1>6. IsFiniteSet(LiveSourcesOf(u)) /\ LiveSourcesOf(u) \subseteq SourceSet(u)
  BY <1>0, LiveCounted, SourceSetFinite, FS_Subset
<1>7. CASE LiveSourcesOf(u)' \subseteq LiveSourcesOf(u)
  <2>1. Cardinality(LiveSourcesOf(u)) <= ConnectorLimit(u)
    BY DEF LiveSourcesWithinLimit
  <2> QED  BY <1>0, <1>6, <1>7, <2>1, FewerWithin
<1>8. CASE u = l.userID /\ s \notin LiveSourcesOf(u)
  <2>1. sources[u][s] = 0
    <3>1. ~(sources[u][s] > 0)
      BY <1>8 DEF JoinsClosing, OnlyClosing
    <3>2. sources[u][s] \in Nat
      BY <1>0 DEF TypeOK
    <3> QED  BY <3>1, <3>2
  <2>2. ~(Cardinality(SourceSet(u)) - (IF sources[u][a] = 1 THEN 1 ELSE 0)
             >= ConnectorLimit(u))
    BY <1>8, <1>a, <2>1 DEF Rebind, RebindAllowed
  <2>3. CASE sources[u][a] # 1
    <3>1. Cardinality(SourceSet(u)) < ConnectorLimit(u)
      BY <1>0, <2>2, <2>3, SourceSetFinite
    <3>2. LiveSourcesOf(u)' \subseteq SourceSet(u) \cup {s}
      BY <1>5, <1>6
    <3> QED  BY <1>0, <3>1, <3>2, SourceSetFinite, OneMoreWithin
  <2>4. CASE sources[u][a] = 1
    <3>1. a \in SourceSet(u)
      BY <1>1, <2>4 DEF SourceSet
    <3>2. /\ IsFiniteSet(SourceSet(u) \ {a})
          /\ Cardinality(SourceSet(u) \ {a}) = Cardinality(SourceSet(u)) - 1
      BY <3>1, SourceSetFinite, FS_RemoveElement
    <3>3. Cardinality(SourceSet(u) \ {a}) < ConnectorLimit(u)
      BY <1>0, <2>2, <2>4, <3>2, SourceSetFinite
    <3>4. a \notin LiveSourcesOf(u)'
      <4>1. sources'[u][a] = 0
        BY <1>0, <1>1, <1>8, <1>a, <2>4 DEF Rebind, removeSource, Decrement, TypeOK
      <4>2. SessionsFrom(u, a)' = {}
        <5>1. sources'[u][a] = Cardinality(SessionsFrom(u, a)')
          BY <1>0, <1>1 DEF SourcesExact, SessionsFrom
        <5>2. IsFiniteSet(SessionsFrom(u, a)')
          <6>1. SessionsFrom(u, a)' \subseteq sessions
            BY <1>2 DEF SessionsFrom
          <6> QED  BY <6>1, SessionsFinite, FS_Subset
        <5> QED  BY <4>1, <5>1, <5>2, FS_EmptySet
      <4> QED  BY <4>2 DEF SessionsFrom, LiveSourcesOf, Live
    <3>5. LiveSourcesOf(u)' \subseteq (SourceSet(u) \ {a}) \cup {s}
      BY <1>5, <1>6, <3>4
    <3> QED  BY <1>0, <3>2, <3>3, <3>5, OneMoreWithin
  <2> QED  BY <2>3, <2>4
<1> QED  BY <1>5, <1>7, <1>8

(* Closing and revoking take live sources away. *)
LEMMA LiveFewer ==
    ASSUME sessions' \subseteq sessions,
           \A i \in sessions' : ~leases'[i].revoked =>
              /\ ~leases[i].revoked
              /\ leases'[i].userID = leases[i].userID
              /\ leases'[i].sourceIP = leases[i].sourceIP
    PROVE  \A u : LiveSourcesOf(u)' \subseteq LiveSourcesOf(u)
BY DEF LiveSourcesOf, Live

LEMMA WithinStep ==
    TypeOK /\ TypeOK' /\ SourcesExact /\ SourcesExact' /\ LiveSourcesWithinLimit
        /\ [Next]_vars /\ [~JoinsClosing]_vars => LiveSourcesWithinLimit'
<1> SUFFICES ASSUME TypeOK, TypeOK', SourcesExact, SourcesExact', LiveSourcesWithinLimit,
                    [Next]_vars, [~JoinsClosing]_vars,
                    NEW u \in DOMAIN installed'.users, ConnectorLimit(u)' > 0
             PROVE  Cardinality(LiveSourcesOf(u)') <= ConnectorLimit(u)'
  BY DEF LiveSourcesWithinLimit
<1> DEFINE Goal == Cardinality(LiveSourcesOf(u)') <= ConnectorLimit(u)'
<1>a. ASSUME installed' = installed
      PROVE  u \in DOMAIN installed.users /\ ConnectorLimit(u)' = ConnectorLimit(u)
  BY <1>a DEF ConnectorLimit
<1>b. ASSUME installed' = installed, LiveSourcesOf(u)' \subseteq LiveSourcesOf(u) PROVE Goal
  <2>1. u \in UserIDs /\ ConnectorLimit(u) \in Int /\ ConnectorLimit(u)' = ConnectorLimit(u)
    BY <1>a, <1>b, InstalledLimitType
  <2>2. Cardinality(LiveSourcesOf(u)) <= ConnectorLimit(u)
    BY <1>a, <1>b DEF LiveSourcesWithinLimit
  <2>3. IsFiniteSet(LiveSourcesOf(u))
    BY <2>1, LiveCounted, SourceSetFinite, FS_Subset
  <2>4. Cardinality(LiveSourcesOf(u)') <= ConnectorLimit(u)
    BY <1>b, <2>1, <2>2, <2>3, FewerWithin
  <2> QED  BY <2>1, <2>4
<1>c. ASSUME UNCHANGED <<installed, sessions, leases>> PROVE Goal
  <2>1. LiveSourcesOf(u)' = LiveSourcesOf(u)
    BY <1>c DEF LiveSourcesOf, Live
  <2> QED  BY <1>b, <1>c, <2>1
<1>d. ASSUME NEW ids \in SUBSET sessions, revokeLocked(ids), UNCHANGED <<installed, sessions>>
      PROVE  Goal
  <2>1. \A i \in sessions' : ~leases'[i].revoked => ~leases[i].revoked /\ leases'[i] = leases[i]
    BY <1>d, RevokeKeepsOthers DEF TypeOK
  <2>2. LiveSourcesOf(u)' \subseteq LiveSourcesOf(u)
    BY <1>d, <2>1, LiveFewer
  <2> QED  BY <1>b, <1>d, <2>2
<1>1. ASSUME NEW o \in Openers, OpenerStep(o) PROVE Goal
  <2>1. CASE OpenAdmit(o)
    <3>1. installed' = installed
      BY <2>1 DEF OpenAdmit, policyVars
    <3>2. ~JoinsClosing
      <4>1. vars' # vars
        BY <2>1 DEF OpenAdmit, TypeOK, vars
      <4> QED  BY <4>1
    <3>3. u \in DOMAIN installed.users /\ ConnectorLimit(u) > 0
      BY <1>a, <3>1
    <3>4. Cardinality(LiveSourcesOf(u)') <= ConnectorLimit(u)
      BY <2>1, <3>2, <3>3, WithinOpen
    <3> QED  BY <1>a, <3>1, <3>4
  <2>2. CASE ~OpenAdmit(o)
    BY <1>1, <1>c, <2>2 DEF OpenerStep, AcquireHandshake, ReleaseHandshake,
                            AuthorizeTarget, OpenReject, policyVars
  <2> QED  BY <2>1, <2>2
<1>2. ASSUME NEW id \in DOMAIN leases, LeaseStep(id) PROVE Goal
  <2>1. CASE BindInterrupt(id)
    <3>1. \A i \in sessions : /\ leases'[i].revoked = leases[i].revoked
                             /\ leases'[i].userID = leases[i].userID
                             /\ leases'[i].sourceIP = leases[i].sourceIP
      BY <2>1 DEF BindInterrupt, TypeOK, Leases
    <3>2. sessions' = sessions /\ installed' = installed
      BY <2>1 DEF BindInterrupt, policyVars
    <3>3. LiveSourcesOf(u)' \subseteq LiveSourcesOf(u)
      BY <3>1, <3>2, LiveFewer
    <3> QED  BY <1>b, <3>2, <3>3
  <2>2. ASSUME NEW s \in SourceIPs, Rebind(id, s) PROVE Goal
    <3>1. installed' = installed
      BY <2>2 DEF Rebind, policyVars
    <3>2. ~JoinsClosing
      <4>1. leases'[id].sourceIP # leases[id].sourceIP
        BY <2>2 DEF Rebind, TypeOK, Leases
      <4>2. vars' # vars
        BY <4>1 DEF vars
      <4> QED  BY <4>2
    <3>3. u \in DOMAIN installed.users /\ ConnectorLimit(u) > 0
      BY <1>a, <3>1
    <3>4. Cardinality(LiveSourcesOf(u)') <= ConnectorLimit(u)
      BY <2>2, <3>2, <3>3, WithinRebind
    <3> QED  BY <1>a, <3>1, <3>4
  <2>3. CASE LeaseClose(id) \/ Forget(id)
    <3>1. /\ sessions' \subseteq sessions /\ installed' = installed
          /\ \A i \in sessions' : leases'[i] = leases[i]
      BY <2>3 DEF LeaseClose, Forget, Discard, TypeOK, policyVars
    <3>2. LiveSourcesOf(u)' \subseteq LiveSourcesOf(u)
      BY <3>1, LiveFewer
    <3> QED  BY <1>b, <3>1, <3>2
  <2>4. CASE RunLateCallback(id)
    BY <1>c, <2>4 DEF RunLateCallback, policyVars
  <2> QED  BY <1>2, <2>1, <2>2, <2>3, <2>4 DEF LeaseStep
<1>3. ASSUME MainStep PROVE Goal
  <2>1. ASSUME NEW next \in Snapshots, Update(next) PROVE Goal
    <3>1. installed' = next /\ sessions' = sessions
      BY <2>1 DEF Update, installSnapshot
    <3>2. ConnectorLimit(u)' = NextLimit(next, u)
      BY <3>1 DEF ConnectorLimit, NextLimit
    <3>3. Cardinality(KeptSources(u)) <= NextLimit(next, u)
      BY <2>1, <3>1, <3>2, UpdateKeepsFew
    <3>4. \A i \in sessions : /\ leases'[i].userID = leases[i].userID
                             /\ leases'[i].sourceIP = leases[i].sourceIP
      BY <2>1, RevokeKeepsSource DEF Update
    <3>5. LiveSourcesOf(u)' = KeptSources(u)
      BY <3>1, <3>4 DEF LiveSourcesOf, KeptSources, Live
    <3> QED  BY <3>2, <3>3, <3>5
  <2>2. ASSUME NEW next \in Snapshots, UpdatePanic(next) PROVE Goal
    BY <1>c, <2>2 DEF UpdatePanic, policyVars
  <2>3. ASSUME NEW users \in SUBSET UserIDs, RevokeUsers(users) PROVE Goal
    <3> HIDE DEF Goal
    <3> QED  BY <1>d, <2>3 DEF RevokeUsers, policyVars
  <2>4. CASE Close
    <3> HIDE DEF Goal
    <3> QED  BY <1>d, <2>4 DEF Close, policyVars
  <2>5. ASSUME NEW id \in callbacks, RunCallback(id) PROVE Goal
    BY <1>c, <2>5 DEF RunCallback, policyVars
  <2> QED  BY <1>3, <2>1, <2>2, <2>3, <2>4, <2>5 DEF MainStep
<1>4. CASE UNCHANGED vars
  BY <1>c, <1>4 DEF vars, policyVars
<1> QED  BY <1>1, <1>2, <1>3, <1>4 DEF Next

LEMMA WithinInit == Init => LiveSourcesWithinLimit
<1> SUFFICES ASSUME Init, NEW u \in DOMAIN installed.users, ConnectorLimit(u) > 0
             PROVE  Cardinality(LiveSourcesOf(u)) <= ConnectorLimit(u)
  BY DEF LiveSourcesWithinLimit
<1>1. LiveSourcesOf(u) = {}
  BY DEF Init, LiveSourcesOf
<1>2. ConnectorLimit(u) \in Int
  BY TypeInit, InstalledLimitType
<1> QED  BY <1>1, <1>2, FS_EmptySet

(* Run registry_live_sources refutes the connector limit for live sessions.    *)
(* This is all that is wrong: unless Open or Rebind joins a source that only   *)
(* closing sessions hold, or a lease is rebound after its close, no user has    *)
(* live sessions from more sources than the limit, through any sequence of      *)
(* Open, Rebind, Update and Close.                                             *)
THEOREM LiveSourcesLimited ==
    Spec /\ [][~StrayRebind]_vars /\ [][~JoinsClosing]_vars => []LiveSourcesWithinLimit
<1>1. TypeOK /\ TypeOK' /\ SourcesExact /\ SourcesExact' /\ LiveSourcesWithinLimit
          /\ [Next]_vars /\ [~JoinsClosing]_vars => LiveSourcesWithinLimit'
  BY WithinStep
<1> QED  BY <1>1, WithinInit, TypeCorrect, SourcesExactUnlessStray, PTL DEF Spec
=============================================================================
