------------------------- MODULE PolicyRulesProofs -------------------------
(***************************************************************************)
(* The normalised rules of PolicyRules match exactly what was written, with *)
(* one exception, for every list of rules, every port and every address.    *)
(***************************************************************************)
EXTENDS PolicyRules, TLAPS

(* ParsePorts and PortBlocked: a port is blocked when it lies in one of the *)
(* accepted rules and only then; collapsing n-n to n loses nothing.          *)
THEOREM PortRulesExact ==
    ASSUME NEW rules \in SUBSET Seq(Int), \A r \in rules : PortRuleAccepted(r),
           NEW value \in Int
    PROVE  PortBlocked(ParsePorts(rules), value) <=> value \in DenotedPorts(rules)
<1>1. ASSUME NEW r \in rules
      PROVE  /\ NormalPorts(r)[1] = r[1]
             /\ NormalPorts(r)[Len(NormalPorts(r))] = r[Len(r)]
             /\ r[1] \in Int /\ r[Len(r)] \in Int
  <2>1. r \in Seq(Int) /\ Len(r) \in {1, 2}
    BY DEF PortRuleAccepted
  <2>4. 1 \in 1..Len(r) /\ Len(r) \in 1..Len(r)
    BY <2>1
  <2>5. r[1] \in Int /\ r[Len(r)] \in Int
    BY <2>1, <2>4
  <2>2. CASE r[1] = r[Len(r)]
    BY <2>5, <2>2 DEF NormalPorts
  <2>3. CASE r[1] # r[Len(r)]
    BY <2>5, <2>3 DEF NormalPorts
  <2> QED  BY <2>2, <2>3, <2>5
<1>2. PortBlocked(ParsePorts(rules), value)
        <=> \E r \in rules : r[1] <= value /\ value <= r[Len(r)]
  BY <1>1 DEF PortBlocked, ParsePorts
<1> QED  BY <1>1, <1>2 DEF DenotedPorts

(* Unmap yields an address, and one that is not a mapped one.               *)
LEMMA UnmapType ==
    ASSUME NEW a \in Addresses
    PROVE  /\ Unmap(a) \in Addresses
           /\ Unmap(a).family = 6 => a.family = 6 /\ ~Is4In6(a)
           /\ Unmap(a).family = 4 => a.family = 4 \/ Is4In6(a)
BY DEF Addresses, V4, V6, Unmap, Is4In6

(* An address keeps its place in IPv6 when it is unmapped.                  *)
LEMMA UnmapEmbed ==
    ASSUME NEW a \in Addresses
    PROVE  Embed(Unmap(a)) = Embed(a) /\ Embed(a) \in [1..128 -> Bit]
<1>1. CASE Is4In6(a)
  <2>1. a.family = 6 /\ a.bits \in [1..128 -> Bit] /\ Embed(a) = a.bits
    BY <1>1 DEF Addresses, V4, V6, Is4In6, Embed
  <2>2. Embed(Unmap(a)) = [i \in 1..128 |-> IF i <= 96 THEN MappedBit(i) ELSE a.bits[i]]
    BY <1>1, <2>1 DEF Unmap, Embed
  <2>3. \A i \in 1..128 : Embed(Unmap(a))[i] = a.bits[i]
    BY <1>1, <2>1, <2>2 DEF Is4In6
  <2> QED  BY <2>1, <2>2, <2>3
<1>2. CASE ~Is4In6(a)
  <2>1. Unmap(a) = a
    BY <1>2 DEF Unmap
  <2>2. Embed(a) \in [1..128 -> Bit]
    BY DEF Addresses, V4, V6, Embed, Bit, MappedBit
  <2> QED  BY <2>1, <2>2
<1> QED  BY <1>1, <1>2

\* The bits of an address, read through its place in IPv6.
EmbedFacts(a) ==
    /\ a.family = 6 => \A i \in 1..128 : Embed(a)[i] = a.bits[i]
    /\ a.family = 4 => /\ \A i \in 1..96 : Embed(a)[i] = MappedBit(i)
                       /\ \A i \in 1..32 : Embed(a)[i + 96] = a.bits[i]

(* Embed places the bits of an address. *)
LEMMA EmbedBits ==
    ASSUME NEW a \in Addresses
    PROVE  EmbedFacts(a)
BY DEF EmbedFacts, Addresses, V4, V6, Embed

(* What normalisation does to a rule that was accepted.                     *)
LEMMA NormalPrefixFacts ==
    ASSUME NEW p \in Prefixes
    PROVE  /\ NormalPrefix(p).addr.family = Unmap(p.addr).family
           /\ NormalPrefix(p).len = IF Is4In6(p.addr) THEN p.len - 96 ELSE p.len
           /\ \A i \in 1..NormalPrefix(p).len :
                 NormalPrefix(p).addr.bits[i] = Unmap(p.addr).bits[i]
           /\ NormalPrefix(p).len <= Width(Unmap(p.addr))
<1>1. p.addr \in Addresses /\ p.len \in 0..128 /\ p.len <= Width(p.addr)
  BY DEF Prefixes
<1>2. Unmap(p.addr) \in Addresses
  BY <1>1, UnmapType
<1>3. NormalPrefix(p).len = IF Is4In6(p.addr) THEN p.len - 96 ELSE p.len
  BY DEF NormalPrefix, Masked
<1>4. NormalPrefix(p).len <= Width(Unmap(p.addr))
  <2>1. CASE Is4In6(p.addr)
    <3>1. Width(Unmap(p.addr)) = 32 /\ NormalPrefix(p).len = p.len - 96
      BY <1>3, <2>1 DEF Width, Unmap
    <3> QED  BY <1>1, <3>1
  <2>2. CASE ~Is4In6(p.addr)
    <3>1. Unmap(p.addr) = p.addr /\ NormalPrefix(p).len = p.len
      BY <1>3, <2>2 DEF Unmap
    <3> QED  BY <1>1, <3>1
  <2> QED  BY <2>1, <2>2
<1>5. NormalPrefix(p).addr.family = Unmap(p.addr).family
  BY DEF NormalPrefix, Masked
<1>6. NormalPrefix(p).addr.bits =
        [i \in 1..Width(Unmap(p.addr)) |->
            IF i <= NormalPrefix(p).len THEN Unmap(p.addr).bits[i] ELSE 0]
  BY DEF NormalPrefix, Masked
<1>7. NormalPrefix(p).len \in Int /\ Width(Unmap(p.addr)) \in Int
  BY <1>1, <1>3 DEF Width
<1>8. \A i \in 1..NormalPrefix(p).len : i \in 1..Width(Unmap(p.addr)) /\ i <= NormalPrefix(p).len
  BY <1>4, <1>7
<1>9. \A i \in 1..NormalPrefix(p).len :
        NormalPrefix(p).addr.bits[i] = Unmap(p.addr).bits[i]
  BY <1>6, <1>8
<1> QED  BY <1>3, <1>4, <1>5, <1>9

\* The length of a rule in IPv6.
DenotedLen(p) == IF p.addr.family = 4 THEN p.len + 96 ELSE p.len

(* The two families a normalised rule may have, and its length in IPv6.      *)
LEMMA NormalCases ==
    ASSUME NEW p \in Prefixes
    PROVE  /\ Unmap(p.addr) \in Addresses
           /\ NormalPrefix(p).len \in Int /\ DenotedLen(p) \in 0..128
           /\ \/ /\ Unmap(p.addr).family = 4
                 /\ DenotedLen(p) = NormalPrefix(p).len + 96
                 /\ NormalPrefix(p).len < 0 => CoversMapped(p)
              \/ /\ Unmap(p.addr).family = 6
                 /\ p.addr.family = 6
                 /\ Unmap(p.addr) = p.addr
                 /\ ~Is4In6(p.addr)
                 /\ DenotedLen(p) = NormalPrefix(p).len
                 /\ NormalPrefix(p).len >= 0
<1>1. p.addr \in Addresses /\ p.len \in 0..128 /\ p.len <= Width(p.addr)
  BY DEF Prefixes
<1>2. NormalPrefix(p).len = IF Is4In6(p.addr) THEN p.len - 96 ELSE p.len
  BY NormalPrefixFacts
<1>3. Unmap(p.addr) \in Addresses
  BY <1>1, UnmapType
<1>4. CASE p.addr.family = 4
  <2>1. ~Is4In6(p.addr) /\ Unmap(p.addr) = p.addr
    BY <1>4 DEF Is4In6, Unmap
  <2>2. p.len <= 32 /\ DenotedLen(p) = p.len + 96
    BY <1>1, <1>4 DEF Width, DenotedLen
  <2> QED  BY <1>1, <1>2, <1>3, <1>4, <2>1, <2>2
<1>5. CASE Is4In6(p.addr)
  <2>1. p.addr.family = 6 /\ Unmap(p.addr).family = 4 /\ DenotedLen(p) = p.len
    BY <1>5 DEF Is4In6, Unmap, DenotedLen
  <2>2. \A i \in 1..96 : p.addr.bits[i] = MappedBit(i)
    BY <1>5 DEF Is4In6
  <2>3. p.len < 96 => CoversMapped(p)
    BY <1>1, <2>1, <2>2 DEF CoversMapped
  <2> QED  BY <1>1, <1>2, <1>3, <1>5, <2>1, <2>3
<1>6. CASE p.addr.family = 6 /\ ~Is4In6(p.addr)
  <2>1. Unmap(p.addr) = p.addr /\ DenotedLen(p) = p.len
    BY <1>6 DEF Unmap, DenotedLen
  <2> QED  BY <1>1, <1>2, <1>3, <1>6, <2>1
<1>7. p.addr.family \in {4, 6}
  BY <1>1 DEF Addresses, V4, V6
<1> QED  BY <1>4, <1>5, <1>6, <1>7

\* The normalised rule matches.
Matches(p, a) == NormalPrefix(p).len >= 0 /\ Contains(NormalPrefix(p), Unmap(a))

(* Matching, read bit by bit in IPv6.                                        *)
LEMMA MatchesBits ==
    ASSUME NEW p \in Prefixes, NEW a \in Addresses
    PROVE  Matches(p, a) <=>
              /\ NormalPrefix(p).len >= 0
              /\ Unmap(p.addr).family = Unmap(a).family
              /\ \A i \in 1..NormalPrefix(p).len : Unmap(p.addr).bits[i] = Unmap(a).bits[i]
BY NormalPrefixFacts DEF Matches, Contains

LEMMA DenotesBits ==
    ASSUME NEW p \in Prefixes, NEW a \in Addresses
    PROVE  Denotes(p, a) <=>
              \A i \in 1..DenotedLen(p) : Embed(Unmap(p.addr))[i] = Embed(Unmap(a))[i]
<1>1. p.addr \in Addresses
  BY DEF Prefixes
<1> QED  BY <1>1, UnmapEmbed DEF Denotes, DenotedLen

(* A rule never matches more than it says.                                   *)
LEMMA RuleSound ==
    ASSUME NEW p \in Prefixes, NEW a \in Addresses, Matches(p, a)
    PROVE  Denotes(p, a)
<1> DEFINE q == Unmap(p.addr)
           b == Unmap(a)
           n == NormalPrefix(p).len
<1> HIDE DEF q, b, n
<1>1. q \in Addresses /\ b \in Addresses /\ n \in Int
  BY NormalCases, UnmapType DEF q, b, n
<1>7. EmbedFacts(q) /\ EmbedFacts(b)
  BY <1>1, EmbedBits
<1>2. n >= 0 /\ q.family = b.family /\ \A i \in 1..n : q.bits[i] = b.bits[i]
  BY MatchesBits DEF q, b, n
<1>3. \/ q.family = 4 /\ DenotedLen(p) = n + 96
      \/ q.family = 6 /\ DenotedLen(p) = n /\ n <= 128
  BY NormalCases DEF q, n
<1>4. CASE q.family = 4 /\ DenotedLen(p) = n + 96
  <2>1. n <= 32
    BY <1>1, <1>4, NormalCases DEF n
  <2>2. \A i \in 1..96 : Embed(q)[i] = Embed(b)[i]
    BY <1>1, <1>2, <1>4, <1>7 DEF EmbedFacts
  <2>3. \A j \in 1..n : Embed(q)[j + 96] = Embed(b)[j + 96]
    BY <1>1, <1>2, <1>4, <2>1, <1>7 DEF EmbedFacts
  <2>4. ASSUME NEW i \in 1..DenotedLen(p)
        PROVE  Embed(q)[i] = Embed(b)[i]
    <3>1. CASE i <= 96
      BY <2>2, <3>1
    <3>2. CASE i > 96
      <4>1. i - 96 \in 1..n /\ (i - 96) + 96 = i
        BY <1>1, <1>4, <3>2
      <4> QED  BY <2>3, <4>1
    <3> QED  BY <3>1, <3>2
  <2> QED  BY <2>4, DenotesBits DEF q, b
<1>5. CASE q.family = 6 /\ DenotedLen(p) = n /\ n <= 128
  <2>1. \A i \in 1..n : Embed(q)[i] = Embed(b)[i]
    BY <1>1, <1>2, <1>5, <1>7 DEF EmbedFacts
  <2> QED  BY <1>5, <2>1, DenotesBits DEF q, b
<1> QED  BY <1>3, <1>4, <1>5

(* A rule that does not take in IPv4 together with a part of IPv6 matches   *)
(* all that it says.                                                         *)
LEMMA RuleComplete ==
    ASSUME NEW p \in Prefixes, NEW a \in Addresses, ~CoversMapped(p), Denotes(p, a)
    PROVE  Matches(p, a)
<1> DEFINE q == Unmap(p.addr)
           b == Unmap(a)
           n == NormalPrefix(p).len
<1> HIDE DEF q, b, n
<1>1. q \in Addresses /\ b \in Addresses /\ n \in Int
  BY NormalCases, UnmapType DEF q, b, n
<1>7. EmbedFacts(q) /\ EmbedFacts(b)
  BY <1>1, EmbedBits
<1>2. \A i \in 1..DenotedLen(p) : Embed(q)[i] = Embed(b)[i]
  BY DenotesBits DEF q, b
<1>3. b.family \in {4, 6} /\ (b.family = 6 => b = a /\ ~Is4In6(b))
  BY <1>1, UnmapType DEF b, Addresses, V4, V6, Unmap
<1>4. CASE q.family = 4
  <2>1. DenotedLen(p) = n + 96 /\ n >= 0
    BY <1>1, <1>4, NormalCases DEF q, n
  <2>2. b.family = 4
    <3>1. SUFFICES ASSUME b.family = 6 PROVE FALSE
      BY <1>3
    <3>2. \A i \in 1..96 : b.bits[i] = MappedBit(i)
      BY <1>1, <1>2, <1>4, <2>1, <3>1, <1>7 DEF EmbedFacts
    <3> QED  BY <1>3, <3>1, <3>2 DEF Is4In6
  <2>3. n <= 32
    BY <1>1, <2>1, NormalCases
  <2>4. ASSUME NEW i \in 1..n
        PROVE  q.bits[i] = b.bits[i]
    <3>1. i + 96 \in 1..DenotedLen(p) /\ i \in 1..32
      BY <1>1, <2>1, <2>3
    <3>2. Embed(q)[i + 96] = q.bits[i] /\ Embed(b)[i + 96] = b.bits[i]
      BY <1>4, <1>7, <2>2, <3>1 DEF EmbedFacts
    <3> QED  BY <1>2, <3>1, <3>2
  <2> QED  BY <1>4, <2>1, <2>2, <2>4, MatchesBits DEF q, b, n
<1>5. CASE q.family = 6
  <2>1. /\ DenotedLen(p) = n /\ n >= 0 /\ n <= 128
        /\ q = p.addr /\ ~Is4In6(q) /\ n = p.len
    BY <1>1, <1>5, NormalCases, NormalPrefixFacts DEF q, n
  <2>2. b.family = 6
    <3>1. SUFFICES ASSUME b.family = 4 PROVE FALSE
      BY <1>3
    <3>2. ASSUME NEW i \in 1..n, i <= 96 PROVE q.bits[i] = MappedBit(i)
      <4>1. i \in 1..96 /\ i \in 1..128 /\ i \in 1..DenotedLen(p)
        BY <1>1, <2>1, <3>2
      <4>2. Embed(q)[i] = q.bits[i]
        BY <1>5, <1>7, <4>1 DEF EmbedFacts
      <4>3. Embed(b)[i] = MappedBit(i)
        BY <1>7, <3>1, <4>1 DEF EmbedFacts
      <4> QED  BY <1>2, <4>1, <4>2, <4>3
    <3>3. CASE n < 96
      BY <1>1, <1>5, <2>1, <3>2, <3>3 DEF CoversMapped
    <3>4. CASE n >= 96
      <4>1. \A i \in 1..96 : q.bits[i] = MappedBit(i)
        BY <1>1, <3>2, <3>4
      <4> QED  BY <1>5, <2>1, <4>1 DEF Is4In6
    <3> QED  BY <1>1, <3>3, <3>4
  <2>3. ASSUME NEW i \in 1..n
        PROVE  q.bits[i] = b.bits[i]
    <3>1. i \in 1..128 /\ i \in 1..DenotedLen(p)
      BY <1>1, <2>1
    <3>2. Embed(q)[i] = q.bits[i] /\ Embed(b)[i] = b.bits[i]
      BY <1>5, <1>7, <2>2, <3>1 DEF EmbedFacts
    <3> QED  BY <1>2, <3>1, <3>2
  <2> QED  BY <1>5, <2>1, <2>2, <2>3, MatchesBits DEF q, b, n
<1>6. q.family \in {4, 6}
  BY <1>1 DEF Addresses, V4, V6
<1> QED  BY <1>4, <1>5, <1>6

(* IPBlocked over what ParseIPRules returns, rule by rule.                   *)
LEMMA BlockedByRule ==
    ASSUME NEW rules \in SUBSET Prefixes, NEW a \in Addresses
    PROVE  IPBlocked(ParseIPRules(rules), a) <=> \E p \in rules : Matches(p, a)
<1>1. a # NoAddress
  <2>1. a.family \in {4, 6} /\ NoAddress.family = 0
    BY DEF Addresses, V4, V6, NoAddress
  <2> QED  BY <2>1
<1> QED  BY <1>1 DEF IPBlocked, ParseIPRules, Matches

(* ParseIPRules and IPBlocked, whatever the rules are: an address is only    *)
(* refused when a rule that was written contains it.                         *)
THEOREM IPRulesNeverTooWide ==
    ASSUME NEW rules \in SUBSET Prefixes, NEW a \in Addresses,
           IPBlocked(ParseIPRules(rules), a)
    PROVE  \E p \in rules : Denotes(p, a)
BY BlockedByRule, RuleSound

(* ParseIPRules and IPBlocked: without networks that contain all of IPv4 and *)
(* more, an address is refused exactly when a rule contains it, whether rule *)
(* and address are written as IPv4 or as mapped IPv6.                        *)
THEOREM IPRulesExact ==
    ASSUME NEW rules \in SUBSET Prefixes, NEW a \in Addresses,
           \A p \in rules : ~CoversMapped(p)
    PROVE  IPBlocked(ParseIPRules(rules), a) <=> \E p \in rules : Denotes(p, a)
BY BlockedByRule, RuleSound, RuleComplete

(* The exception is real: ParseIPRules accepts a mapped prefix shorter than  *)
(* 96 bits, makes an invalid Prefix of it, and IPBlocked never matches it.   *)
THEOREM ShortMappedPrefixIgnored ==
    ASSUME NEW p \in Prefixes, Is4In6(p.addr), p.len < 96, NEW a \in Addresses
    PROVE  ~IPBlocked(ParseIPRules({p}), a)
<1>1. NormalPrefix(p).len = p.len - 96 /\ p.len \in Int
  BY NormalPrefixFacts DEF Prefixes
<1>2. ~Matches(p, a)
  BY <1>1 DEF Matches
<1> QED  BY <1>2, BlockedByRule

(* Two addresses have the same canonical form when they are the same         *)
(* address, mapped or not.                                                   *)
LEMMA CanonicalInjective ==
    ASSUME NEW a \in Addresses, NEW b \in Addresses
    PROVE  Unmap(a) = Unmap(b) <=> Embed(a) = Embed(b)
<1> DEFINE x == Unmap(a)
           y == Unmap(b)
<1> HIDE DEF x, y
<1>1. x \in Addresses /\ y \in Addresses /\ Embed(x) = Embed(a) /\ Embed(y) = Embed(b)
  BY UnmapType, UnmapEmbed DEF x, y
<1>7. EmbedFacts(x) /\ EmbedFacts(y)
  BY <1>1, EmbedBits
<1>2. (x.family = 6 => ~Is4In6(x)) /\ (y.family = 6 => ~Is4In6(y))
  BY UnmapType DEF x, y, Unmap
<1>3. ASSUME Embed(x) = Embed(y), x.family = 4
      PROVE  x = y
  <2>1. \A i \in 1..96 : Embed(y)[i] = MappedBit(i)
    BY <1>1, <1>3, <1>7 DEF EmbedFacts
  <2>2. y.family = 4
    BY <1>1, <1>2, <2>1, <1>7 DEF Is4In6, Addresses, V4, V6, EmbedFacts
  <2>3. \A i \in 1..32 : x.bits[i] = y.bits[i]
    BY <1>1, <1>3, <2>2, <1>7 DEF EmbedFacts
  <2> QED  BY <1>1, <1>3, <2>2, <2>3 DEF Addresses, V4, V6
<1>4. ASSUME Embed(x) = Embed(y), x.family = 6
      PROVE  x = y
  <2>1. y.family = 6
    <3>1. SUFFICES ASSUME y.family = 4 PROVE FALSE
      BY <1>1 DEF Addresses, V4, V6
    <3>2. \A i \in 1..96 : x.bits[i] = MappedBit(i)
      BY <1>1, <1>4, <3>1, <1>7 DEF EmbedFacts
    <3> QED  BY <1>2, <1>4, <3>2 DEF Is4In6
  <2> QED  BY <1>1, <1>4, <2>1 DEF Addresses, V4, V6, Embed
<1>5. x.family \in {4, 6}
  BY <1>1 DEF Addresses, V4, V6
<1> QED  BY <1>1, <1>3, <1>4, <1>5 DEF x, y

(* ParseSourceIPs and CanonicalIP: a source is disconnected exactly when the *)
(* list names that address, in either notation.                              *)
THEOREM DisconnectExact ==
    ASSUME NEW list \in SUBSET Addresses, NEW source \in Addresses
    PROVE  SourceDisconnected(list, source) <=> \E a \in list : Embed(a) = Embed(source)
BY CanonicalInjective DEF SourceDisconnected, CanonicalIP, ParseSourceIPs
=============================================================================
