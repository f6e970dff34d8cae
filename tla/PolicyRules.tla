---------------------------- MODULE PolicyRules ----------------------------
(***************************************************************************)
(* The rules of internal/policy/policy.go: how the forbidden ports, the      *)
(* forbidden networks and the disconnected sources of a user are normalised  *)
(* when a snapshot is loaded, and how the registry matches them.             *)
(*                                                                          *)
(* A list is the set of its fields; sorting and the text of a rule are left  *)
(* out.  A port rule is the sequence of its bounds, where text that is no    *)
(* number counts as 0, which port refuses as well.  An address is its family *)
(* and its bits, leading bit first; package netip is external.               *)
(***************************************************************************)
EXTENDS Integers, Sequences

----------------------------------------------------------------------------
(* Ports                                                                    *)

port(n) == n \in 1..65535

\* What ParsePorts accepts; any other rule isolates the user.
PortRuleAccepted(r) ==
    /\ Len(r) \in {1, 2}
    /\ \A i \in 1..Len(r) : port(r[i])
    /\ r[1] <= r[Len(r)]

NormalPorts(r) == IF r[1] = r[Len(r)] THEN <<r[1]>> ELSE <<r[1], r[Len(r)]>>

ParsePorts(rules) == {NormalPorts(r) : r \in rules}

PortBlocked(normal, value) == \E r \in normal : r[1] <= value /\ value <= r[Len(r)]

----------------------------------------------------------------------------
(* Addresses                                                                *)

Bit == {0, 1}
V4 == [family: {4}, bits: [1..32 -> Bit]]
V6 == [family: {6}, bits: [1..128 -> Bit]]
Addresses == V4 \cup V6

\* What ParseAddr does not understand.
NoAddress == [family |-> 0, bits |-> << >>]

Width(a) == IF a.family = 4 THEN 32 ELSE 128

\* The leading bits of ::ffff:0:0/96.
MappedBit(i) == IF i <= 80 THEN 0 ELSE 1

Is4In6(a) == a.family = 6 /\ \A i \in 1..96 : a.bits[i] = MappedBit(i)

Unmap(a) ==
    IF Is4In6(a) THEN [family |-> 4, bits |-> [i \in 1..32 |-> a.bits[i + 96]]] ELSE a

----------------------------------------------------------------------------
(* Networks                                                                 *)

\* What ParsePrefix accepts; a single address is the prefix of its full width.
Prefixes == {p \in [addr: Addresses, len: 0..128] : p.len <= Width(p.addr)}

Masked(p) ==
    [addr |-> [family |-> p.addr.family,
               bits |-> [i \in 1..Width(p.addr) |-> IF i <= p.len THEN p.addr.bits[i] ELSE 0]],
     len |-> p.len]

\* The length may become negative: an invalid Prefix, which is kept.
NormalPrefix(p) ==
    Masked([addr |-> Unmap(p.addr),
            len |-> IF Is4In6(p.addr) THEN p.len - 96 ELSE p.len])

ParseIPRules(rules) == {NormalPrefix(p) : p \in rules}

Contains(p, a) ==
    /\ p.addr.family = a.family
    /\ \A i \in 1..p.len : p.addr.bits[i] = a.bits[i]

\* The text of an invalid Prefix is no rule; a target that is no address is
\* blocked.
IPBlocked(normal, value) ==
    \/ value = NoAddress
    \/ \E p \in normal : p.len >= 0 /\ Contains(p, Unmap(value))

----------------------------------------------------------------------------
(* Sources                                                                  *)

CanonicalIP(a) == Unmap(a)

ParseSourceIPs(list) == {Unmap(a) : a \in list}

SourceDisconnected(list, source) == CanonicalIP(source) \in ParseSourceIPs(list)

----------------------------------------------------------------------------
(* What a rule says, written without normalisation: IPv4 is the network     *)
(* ::ffff:0:0/96 of IPv6.                                                    *)

DenotedPorts(rules) == UNION {r[1]..r[Len(r)] : r \in rules}

Embed(a) ==
    IF a.family = 4
    THEN [i \in 1..128 |-> IF i <= 96 THEN MappedBit(i) ELSE a.bits[i - 96]]
    ELSE a.bits

Denotes(p, a) ==
    \A i \in 1..(IF p.addr.family = 4 THEN p.len + 96 ELSE p.len) :
        Embed(p.addr)[i] = Embed(a)[i]

\* An IPv6 network that contains all of IPv4 and more.
CoversMapped(p) ==
    p.addr.family = 6 /\ p.len < 96 /\ \A i \in 1..p.len : p.addr.bits[i] = MappedBit(i)
=============================================================================
