----------------------------- MODULE Preflight -----------------------------
(***************************************************************************)
(* The client's route preflight: before the running interface is torn      *)
(* down, the routes of the candidate configuration are held against the    *)
(* addresses the node needs to recover and against the routing table.      *)
(*                                                                         *)
(* A host resolves to a set of IPv4 addresses, or fails to resolve; the    *)
(* kernel's table is a set of routes, each with a network, at most one     *)
(* outgoing interface (a multipath route has none), a table and a metric.  *)
(***************************************************************************)
EXTENDS Render

\* The host whose IPv4 addresses an endpoint stands for.
host_part(ep) == IF ep.form = "bracketed" THEN {} ELSE {ep.host}

\* resolver[host] is the set of its addresses, in a set; empty on failure.
Hosts(cfg, storage_endpoint_host) ==
  {storage_endpoint_host}
    \cup UNION {host_part(ep) : ep \in UNION {p.endpoint : p \in ToSet(cfg.peers)}}

resolve_ipv4(resolver, hosts) == UNION UNION {resolver[h] : h \in hosts}

Protected(cfg, resolver, storage_endpoint_host) ==
  resolve_ipv4(resolver, Hosts(cfg, storage_endpoint_host))
    \cup {d.addr : d \in {x \in cfg.interface.dns : x.family = "v4"}}

candidate_routes(cfg) == UNION {ToSet(p.allowed_ips) : p \in ToSet(cfg.peers)}

\* Networks and interfaces of the unicast routes of the main table.
list_ipv4_routes(routes) ==
  UNION {{<<r.net, i>> : i \in r.oif} : r \in {x \in routes : x.table = "main"}}

check(cfg, resolver, storage_endpoint_host, routes, managed) ==
  /\ \A h \in Hosts(cfg, storage_endpoint_host) : resolver[h] # {}
  /\ \A r \in candidate_routes(cfg) :
       \A x \in Protected(cfg, resolver, storage_endpoint_host) :
         ~Within(x, net_range(r))
  /\ \A existing \in list_ipv4_routes(routes) :
       \/ existing[1].len = 0
       \/ existing[2] = managed
       \/ \A r \in candidate_routes(cfg) : ~nets_overlap(r, existing[1])

-----------------------------------------------------------------------------
(***************************************************************************)
(* What the kernel does with the table.                                    *)
(***************************************************************************)
\* The routes of the longest prefix that matches an address and, among them, of
\* the lowest metric; and the interfaces through which a packet for it leaves.
Best(routes, x) ==
  LET matching == {r \in routes : r.table = "main" /\ Within(x, net_range(r.net))}
  IN  {m \in matching : \A o \in matching :
         o.net.len < m.net.len \/ (o.net.len = m.net.len /\ m.metric <= o.metric)}

Leaves(routes, x) == UNION {r.oif : r \in Best(routes, x)}

\* The table once the interface has been torn down and brought up: its routes
\* went with the device, and a route is added, without a metric, unless another
\* one without a metric has its network: add_route takes "already exists" for
\* success.
Installed(cfg, routes, managed) ==
  LET kept  == {r \in routes : r.oif # {managed}}
      taken == {r.net : r \in {x \in kept : x.table = "main" /\ x.metric = 0}}
  IN  kept \cup {[net |-> n, oif |-> {managed}, table |-> "main", metric |-> 0] :
                  n \in candidate_routes(cfg) \ taken}
=============================================================================
