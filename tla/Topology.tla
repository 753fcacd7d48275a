------------------------------ MODULE Topology ------------------------------
(***************************************************************************)
(* The topology that an operator writes: its validation and the edges      *)
(* between its nodes.  An optional field is a set of at most one element.  *)
(* The rules of validate are conjuncts: which rule is reported first is    *)
(* left out.                                                               *)
(*                                                                         *)
(* Abstracted: a hostname is a number, so that hostnames are ordered, and  *)
(* ValidHostnames are those hostname::validate accepts; an endpoint is     *)
(* what its syntax check looks at.                                         *)
(***************************************************************************)
EXTENDS Routes, SequencesExt

CONSTANTS ValidHostnames, MaxNodes, MinMtu, MaxHostLength

ASSUME TopologyAssumption == MaxNodes \in Nat

MaxPort == 65535

Ports == 1 .. MaxPort

\* A field that may be absent.
Option(o) == \A v, w \in o : v = w

\* What the types of the fields say of a topology that was read.
NodeConfig(n) ==
  /\ n.hostname \in Nat
  /\ n.tunnel_address \in Ipv4Net
  /\ n.listen_port \in 0 .. MaxPort
  /\ Option(n.endpoint) /\ Option(n.dns)
  /\ Option(n.mtu) /\ Option(n.persistent_keepalive)
  /\ n.extra_allowed_ips \in Seq(Ipv4Net)

TopologyConfig(config) ==
  /\ Len(config.nodes) \in Nat
  /\ DOMAIN config.nodes = 1 .. Len(config.nodes)
  /\ \A i \in DOMAIN config.nodes : NodeConfig(config.nodes[i])

(***************************************************************************)
(* Fields.                                                                 *)
(***************************************************************************)
validate_r2_endpoint(url) ==
  /\ url.parses
  /\ url.scheme \in {"http", "https"}
  /\ url.host # {}
  /\ ~url.userinfo /\ ~url.query /\ ~url.fragment

\* A credential is blank or not; a session token may be absent.
validate_r2_credentials(r2) ==
  /\ r2.access_key_id # "blank"
  /\ r2.secret_access_key # "blank"
  /\ "blank" \notin r2.session_token

\* "host:port", or an IPv6 literal in brackets and its port.
validate_endpoint_syntax(ep) ==
  /\ ep.form \in {"host", "bracketed"}
  /\ ep.length \in 1 .. MaxHostLength
  /\ ep.clean
  /\ ep.port \in Ports

\* The checks on one node's own fields.
NodeOK(n) ==
  /\ Canonical(n.tunnel_address) /\ n.tunnel_address.len = Width
  /\ n.listen_port # 0
  /\ \A ep \in n.endpoint : validate_endpoint_syntax(ep)
  /\ \A d \in n.dns : d.family \in {"v4", "v6"}
  /\ \A m \in n.mtu : m >= MinMtu
  /\ \A r \in ToSet(n.extra_allowed_ips) : Canonical(r) /\ r.len # 0

(***************************************************************************)
(* The whole topology.                                                     *)
(***************************************************************************)
Hostnames(config) == {config.nodes[i].hostname : i \in DOMAIN config.nodes}

Masters(config) == ToSet(config.master)

NodeOf(config, h) ==
  config.nodes[CHOOSE i \in DOMAIN config.nodes : config.nodes[i].hostname = h]

canonical_pair(a, b) == IF a <= b THEN <<a, b>> ELSE <<b, a>>

\* Masters mesh with each other and reach every spoke.
compute_edges(hosts, masters) ==
  LET hubs == hosts \cap masters
  IN  {canonical_pair(p[1], p[2]) : p \in {q \in hubs \X hubs : q[1] < q[2]}}
        \cup {canonical_pair(p[1], p[2]) : p \in hubs \X (hosts \ hubs)}

Edges(config) == compute_edges(Hostnames(config), Masters(config))

NamesOK(config) ==
  /\ Len(config.nodes) \in 1 .. MaxNodes
  /\ Hostnames(config) \subseteq ValidHostnames
  /\ \A i, j \in DOMAIN config.nodes :
       config.nodes[i].hostname = config.nodes[j].hostname => i = j
  /\ Masters(config) \subseteq Hostnames(config)
  /\ IsInjective(config.master)

AddressesUnique(config) ==
  \A i, j \in DOMAIN config.nodes :
    config.nodes[i].tunnel_address.addr = config.nodes[j].tunnel_address.addr
      => i = j

\* Mutant: a route is held only against the nodes listed before its own.
RoutesSpareEarlierNodes(config) ==
  \A i, k \in DOMAIN config.nodes :
    \A r \in ToSet(config.nodes[i].extra_allowed_ips) :
      k < i => ~Within(config.nodes[k].tunnel_address.addr, net_range(r))

RoutesSpareNodes(config) ==
  \A i, k \in DOMAIN config.nodes :
    \A r \in ToSet(config.nodes[i].extra_allowed_ips) :
      ~Within(config.nodes[k].tunnel_address.addr, net_range(r))

\* No two routes overlap, of different nodes or of one.
RoutesDisjoint(config) ==
  \A i, j \in DOMAIN config.nodes :
    LET a == config.nodes[i].extra_allowed_ips
        b == config.nodes[j].extra_allowed_ips
    IN  \A x \in DOMAIN a, y \in DOMAIN b :
          (i < j \/ (i = j /\ x < y))
            => ~ranges_overlap(net_range(a[x]), net_range(b[y]))

EdgesReachable(config) ==
  \A e \in Edges(config) :
    NodeOf(config, e[1]).endpoint # {} \/ NodeOf(config, e[2]).endpoint # {}

validate(config) ==
  /\ validate_r2_endpoint(config.r2_config.endpoint)
  /\ validate_r2_credentials(config.r2_config)
  /\ NamesOK(config)
  /\ \A i \in DOMAIN config.nodes : NodeOK(config.nodes[i])
  /\ AddressesUnique(config)
  /\ RoutesSpareNodes(config)
  /\ RoutesDisjoint(config)
  /\ EdgesReachable(config)
=============================================================================
