------------------------------- MODULE Routes -------------------------------
(***************************************************************************)
(* IPv4 networks and the range arithmetic that the topology validator, the *)
(* configuration parser and the client's preflight each do on them.        *)
(***************************************************************************)
EXTENDS Naturals

CONSTANT Width   \* bits of an address: 32 in the code

ASSUME WidthAssumption == Width \in Nat \ {0}

Addresses == 0 .. 2^Width - 1

\* A network as it is written: an address, with or without host bits, and a
\* prefix length.
Ipv4Net == [addr: Addresses, len: 0 .. Width]

HostNet(x) == [addr |-> x, len |-> Width]

Network(n) == n.addr - (n.addr % 2^(Width - n.len))

Broadcast(n) == Network(n) + 2^(Width - n.len) - 1

Canonical(n) == n.addr = Network(n)

net_range(n) == <<Network(n), Broadcast(n)>>

ranges_overlap(a, b) == a[1] <= b[2] /\ b[1] <= a[2]

Within(x, range) == range[1] <= x /\ x <= range[2]

\* Mutant: only a route inside the candidate's network counts.
nets_overlap_inside(a, b) == Within(Network(b), net_range(a))

nets_overlap(a, b) == ranges_overlap(net_range(a), net_range(b))
=============================================================================
