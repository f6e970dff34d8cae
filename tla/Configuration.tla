--------------------------- MODULE Configuration ---------------------------
(***************************************************************************)
(* The numbers of internal/config/config.go: Load fills in defaults for what *)
(* the file leaves out (or gives as 0) and then validates.  The other        *)
(* modules take their limits and intervals from a configuration that passed. *)
(* Reading the file, the texts in it and their syntax are one flag.          *)
(***************************************************************************)
EXTENDS Integers, TLAPS

Limits == [TCPPerUser: Int, TCPGlobal: Int, ConcurrentHandshakes: Int,
           XUDPPerUser: Int, XUDPGlobal: Int, DNSResolveTimeoutSeconds: Int]
Intervals == [AuthRefreshSeconds: Int, ReportSeconds: Int, AuthStaleSeconds: Int,
              ShutdownSeconds: Int]
Pool == [MaxOpen: Int, MaxIdle: Int]

Config == [NodeID: Int, Limits: Limits, Intervals: Intervals, Pool: Pool,
           OutboxMaxBytes: Int,
           wellFormed: BOOLEAN]   \* strict JSON, paths, listen, database texts, log level

MiB == 1024 * 1024

Or(value, default) == IF value = 0 THEN default ELSE value

defaults(c) ==
    [NodeID |-> c.NodeID,
     Limits |->
        [TCPPerUser |-> Or(c.Limits.TCPPerUser, 800),
         TCPGlobal |-> Or(c.Limits.TCPGlobal, 3000),
         ConcurrentHandshakes |-> Or(c.Limits.ConcurrentHandshakes, 1024),
         XUDPPerUser |-> Or(c.Limits.XUDPPerUser, 128),
         XUDPGlobal |-> Or(c.Limits.XUDPGlobal, 2048),
         DNSResolveTimeoutSeconds |-> Or(c.Limits.DNSResolveTimeoutSeconds, 10)],
     Intervals |->
        [AuthRefreshSeconds |-> Or(c.Intervals.AuthRefreshSeconds, 60),
         ReportSeconds |-> Or(c.Intervals.ReportSeconds, 60),
         AuthStaleSeconds |-> Or(c.Intervals.AuthStaleSeconds, 3600),
         ShutdownSeconds |-> Or(c.Intervals.ShutdownSeconds, 120)],
     Pool |-> [MaxOpen |-> Or(c.Pool.MaxOpen, 4), MaxIdle |-> Or(c.Pool.MaxIdle, 2)],
     OutboxMaxBytes |-> Or(c.OutboxMaxBytes, 1024 * MiB),
     wellFormed |-> c.wellFormed]

validLimits(l) ==
    /\ l.TCPPerUser >= 1 /\ l.TCPGlobal >= l.TCPPerUser
    /\ l.ConcurrentHandshakes >= 1
    /\ l.XUDPPerUser >= 1 /\ l.XUDPGlobal >= l.XUDPPerUser
    /\ l.DNSResolveTimeoutSeconds >= 1 /\ l.DNSResolveTimeoutSeconds <= 60
    /\ l.TCPGlobal <= 1000000 /\ l.ConcurrentHandshakes <= 1000000
    /\ l.XUDPGlobal <= 1000000

validIntervals(i) ==
    /\ i.AuthRefreshSeconds >= 5 /\ i.ReportSeconds >= 5
    /\ i.AuthStaleSeconds >= i.AuthRefreshSeconds
    /\ i.ShutdownSeconds >= 1

validPool(p) ==
    /\ p.MaxOpen >= 1 /\ p.MaxOpen <= 64
    /\ p.MaxIdle >= 0 /\ p.MaxIdle <= p.MaxOpen

Validate(c) ==
    /\ c.NodeID > 0
    /\ c.wellFormed
    /\ validPool(c.Pool)
    /\ validIntervals(c.Intervals)
    /\ c.OutboxMaxBytes >= MiB
    /\ validLimits(c.Limits)

\* Load succeeds on a file with these contents.
Loads(c) == Validate(defaults(c))

----------------------------------------------------------------------------
(* What the modules assume of their constants: SessionRegistry of the limits *)
(* of sessions and handshakes, AuthRefresh of the age of a snapshot, Outbox  *)
(* of its capacity.                                                          *)
RegistryAssumes(l) ==
    /\ {l.TCPGlobal, l.TCPPerUser, l.XUDPGlobal, l.XUDPPerUser, l.ConcurrentHandshakes}
           \subseteq Nat \ {0}
    /\ l.TCPPerUser <= l.TCPGlobal
    /\ l.XUDPPerUser <= l.XUDPGlobal

(* Load: whatever a file contains, a configuration that passes meets the      *)
(* assumptions of the models: no limit is zero, no user limit is above the    *)
(* global one, a snapshot lives for at least one refresh, and the outbox has  *)
(* room.                                                                      *)
THEOREM LoadedMeetsAssumptions ==
    ASSUME NEW c \in Config, Loads(c)
    PROVE  /\ RegistryAssumes(defaults(c).Limits)
           /\ defaults(c).Intervals.AuthRefreshSeconds \in Nat \ {0}
           /\ defaults(c).Intervals.AuthRefreshSeconds
                  <= defaults(c).Intervals.AuthStaleSeconds
           /\ defaults(c).OutboxMaxBytes \in Nat \ {0}
<1> DEFINE d == defaults(c)
<1>1. d.Limits \in Limits /\ d.Intervals \in Intervals /\ d.OutboxMaxBytes \in Int
  BY DEF Config, Limits, Intervals, Pool, defaults, Or, MiB
<1> HIDE DEF d
<1>2. validLimits(d.Limits) /\ validIntervals(d.Intervals) /\ d.OutboxMaxBytes >= MiB
  BY DEF Loads, Validate, d
<1>3. RegistryAssumes(d.Limits)
  BY <1>1, <1>2 DEF validLimits, RegistryAssumes, Limits
<1>4. /\ d.Intervals.AuthRefreshSeconds \in Nat \ {0}
      /\ d.Intervals.AuthRefreshSeconds <= d.Intervals.AuthStaleSeconds
      /\ d.OutboxMaxBytes \in Nat \ {0}
  BY <1>1, <1>2 DEF validIntervals, Intervals, MiB
<1> QED  BY <1>3, <1>4 DEF d

(* Load: the defaults agree with the validation and with each other, so a     *)
(* file that leaves out all numbers is accepted.                              *)
THEOREM DefaultsAreValid ==
    ASSUME NEW c \in Config, c.NodeID > 0, c.wellFormed,
           \A f \in DOMAIN c.Limits : c.Limits[f] = 0,
           \A f \in DOMAIN c.Intervals : c.Intervals[f] = 0,
           \A f \in DOMAIN c.Pool : c.Pool[f] = 0,
           c.OutboxMaxBytes = 0
    PROVE  Loads(c)
<1>1. c.Limits \in Limits /\ c.Intervals \in Intervals /\ c.Pool \in Pool
  BY DEF Config
<1>2. validLimits(defaults(c).Limits)
  BY <1>1 DEF Limits, defaults, Or, validLimits
<1>3. validIntervals(defaults(c).Intervals) /\ validPool(defaults(c).Pool)
  BY <1>1 DEF Intervals, Pool, defaults, Or, validIntervals, validPool
<1>4. /\ defaults(c).NodeID > 0 /\ defaults(c).wellFormed
      /\ defaults(c).OutboxMaxBytes >= MiB
  BY DEF defaults, Or, MiB
<1> QED  BY <1>2, <1>3, <1>4 DEF Loads, Validate
=============================================================================
