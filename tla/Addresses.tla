------------------------------ MODULE Addresses ------------------------------
(***************************************************************************)
(* What an object, or a part of a request, stands for: addresses on one    *)
(* line with a band for IPv4 and one for IPv6, and names of domains.       *)
(***************************************************************************)
EXTENDS Integers, FiniteSets

CONSTANTS
    V4Max,     \* the last address of the IPv4 band, which starts at 0
    V6Base,    \* where the IPv6 band starts
    V6Max,     \* how far it goes on
    Bits,      \* width of a wildcard mask
    Fqdns,     \* names of domains
    Parent,    \* the domain a name is directly below, or None
    None

\* The bands never touch.
ASSUME BandsAssumption == V4Max \in Nat /\ V6Base \in Nat /\ V6Max \in Nat /\ V4Max + 1 < V6Base
ASSUME FqdnsAssumption == Parent \in [Fqdns -> Fqdns \cup {None}]

Line == (0..V4Max) \cup (V6Base..(V6Base + V6Max))
AnyIp == {<<0, V4Max>>, <<V6Base, V6Base + V6Max>>}

AddressesOf(iv) == UNION {i[1]..i[2] : i \in iv}

Bit(m, i) == (m \div 2^i) % 2

WildcardMeans(addr, mask) ==
    {x \in 0..(2^Bits - 1) : \A i \in 0..(Bits - 1) : Bit(mask, i) = 0 => Bit(x, i) = Bit(addr, i)}

\* What an object is known to reach; iv are the intervals of a host, a network, a range (both bands
\* for a dual-stack one), the main address of a gateway, the addresses a feed shows.
Reach(o) ==
    CASE o.is = "any"      -> Line
      [] o.is = "wildcard" -> WildcardMeans(o.addr, o.mask)
      [] o.is \in {"address", "infra", "feed"} -> AddressesOf(o.iv)

\* The name of a domain object starts with a dot whether or not it holds the sub-domains; "sub" tells.
Above == [f \in Fqdns |-> {g \in Fqdns : g = Parent[f] \/ (Parent[f] # None /\ g = Parent[Parent[f]])}]

\* The names a domain, of an object or of a request, stands for.
Covering(d) == {f \in Fqdns : f = d.base \/ (d.sub /\ d.base \in Above[f])}

=============================================================================
