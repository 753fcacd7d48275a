------------------------------- MODULE Render -------------------------------
(***************************************************************************)
(* The wg-quick file of a node, as the server renders it, and the strict   *)
(* parser through which the server passes what it rendered and what it     *)
(* finds published, and the client what it downloads.  A file is the       *)
(* sequence of its sections and a section the sequence of its directives,  *)
(* each a pair of a name and a value.                                      *)
(*                                                                         *)
(* Abstracted: lines, blanks and comments, and the written form of values; *)
(* the size of a file is the number of its lines.  A key is a tuple, and a *)
(* private key determines its public key.                                  *)
(***************************************************************************)
EXTENDS Topology

CONSTANTS MaxRenderedLines, DefaultKeepalive

ASSUME RenderAssumption == MaxRenderedLines \in Nat

ZeroKey == <<"zero">>

ValidKey(k) == k # ZeroKey

Public(private) == <<"public", private>>

\* The members of a finite set of numbers in their order.
Ascending(S) == CHOOSE s \in [1 .. Cardinality(S) -> S] :
                  \A i, j \in DOMAIN s : i < j => s[i] < s[j]

(***************************************************************************)
(* Rendering.                                                              *)
(***************************************************************************)
\* The directive for an optional value.
Directive(name, option) == [i \in 1 .. Cardinality(option) |->
                              <<name, CHOOSE v \in option : TRUE>>]

resolve_local_keepalive(node) ==
  IF node.persistent_keepalive # {} THEN node.persistent_keepalive \ {0}
  ELSE IF node.endpoint = {} THEN {DefaultKeepalive} ELSE {}

\* The order of sort_by_key on networks.
Before(a, b) == \/ Network(a) < Network(b)
                \/ Network(a) = Network(b) /\ a.len < b.len

sorted_allowed_ips(node) ==
  LET routes == node.extra_allowed_ips
      order  == CHOOSE p \in [DOMAIN routes -> DOMAIN routes] :
                  /\ IsInjective(p)
                  /\ \A i, j \in DOMAIN p : i < j => ~Before(routes[p[j]], routes[p[i]])
  IN  <<HostNet(node.tunnel_address.addr)>> \o [i \in DOMAIN routes |-> routes[order[i]]]

InterfaceSection(config, keys, h) ==
  LET node == NodeOf(config, h)
  IN  [name   |-> "Interface",
       fields |-> << <<"PrivateKey", keys.node_keys[h]>>,
                     <<"Address", HostNet(node.tunnel_address.addr)>>,
                     <<"ListenPort", node.listen_port>> >>
                  \o Directive("DNS", node.dns)
                  \o Directive("MTU", node.mtu)]

PeerSection(config, keys, h, peer_host) ==
  LET peer == NodeOf(config, peer_host)
  IN  [name   |-> "Peer",
       fields |-> << <<"PublicKey", Public(keys.node_keys[peer_host])>>,
                     <<"PresharedKey",
                       keys.edge_psks[canonical_pair(h, peer_host)]>>,
                     <<"AllowedIPs", sorted_allowed_ips(peer)>> >>
                  \o Directive("Endpoint", peer.endpoint)
                  \o Directive("PersistentKeepalive",
                               resolve_local_keepalive(NodeOf(config, h)))]

PeerHosts(config, h) ==
  {p \in Hostnames(config) : p # h /\ canonical_pair(h, p) \in Edges(config)}

RenderedFile(config, keys, h) ==
  LET peers == Ascending(PeerHosts(config, h))
  IN  <<InterfaceSection(config, keys, h)>>
        \o [i \in DOMAIN peers |-> PeerSection(config, keys, h, peers[i])]

Lines(file) ==
  LET lines[i \in 0 .. Len(file)] ==
        IF i = 0 THEN 0 ELSE lines[i - 1] + 1 + Len(file[i].fields)
  IN  lines[Len(file)]

(***************************************************************************)
(* Parsing: the parsed value as a set, empty when it is refused.           *)
(***************************************************************************)
Values(fields, name) == {fields[i][2] : i \in {j \in DOMAIN fields : fields[j][1] = name}}

\* Every directive is one of those allowed and none is repeated.
DirectivesOK(fields, allowed) ==
  LET names == [i \in DOMAIN fields |-> fields[i][1]]
  IN  ToSet(names) \subseteq allowed /\ IsInjective(names)

parse_interface_fields(fields) ==
  {[private_key |-> k, address |-> a.addr, listen_port |-> p,
    dns |-> Values(fields, "DNS"), mtu |-> Values(fields, "MTU")] :
     k \in {x \in Values(fields, "PrivateKey") :
              /\ DirectivesOK(fields, {"PrivateKey", "Address", "ListenPort",
                                       "DNS", "MTU"})
              /\ \A d \in Values(fields, "DNS") : d.family \in {"v4", "v6"}
              /\ \A m \in Values(fields, "MTU") : m >= MinMtu
              /\ ValidKey(x)},
     a \in {x \in Values(fields, "Address") : x.len = Width},
     p \in Values(fields, "ListenPort") \cap Ports}

parse_peer_fields(fields) ==
  {[public_key |-> k, preshared_key |-> psk, allowed_ips |-> nets,
    endpoint |-> Values(fields, "Endpoint"),
    persistent_keepalive |-> Values(fields, "PersistentKeepalive")] :
     k \in {x \in Values(fields, "PublicKey") :
              /\ DirectivesOK(fields, {"PublicKey", "PresharedKey", "AllowedIPs",
                                       "Endpoint", "PersistentKeepalive"})
              /\ \A ep \in Values(fields, "Endpoint") : validate_endpoint_syntax(ep)
              /\ ValidKey(x)},
     psk \in {x \in Values(fields, "PresharedKey") : ValidKey(x)},
     nets \in {x \in Values(fields, "AllowedIPs") :
                 x # <<>> /\ \A n \in ToSet(x) : Canonical(n) /\ n.len # 0}}

Sections(file, name) ==
  LET at == Ascending({i \in DOMAIN file : file[i].name = name})
  IN  [k \in DOMAIN at |-> file[at[k]]]

\* The checks between the sections of a file.
ConfigOK(cfg) ==
  LET peers == cfg.peers
  IN  /\ \A i \in DOMAIN peers :
           /\ peers[i].public_key # Public(cfg.interface.private_key)
           /\ \A n \in ToSet(peers[i].allowed_ips) :
                ~Within(cfg.interface.address, net_range(n))
      /\ \A i, j \in DOMAIN peers : i < j =>
           /\ peers[i].public_key # peers[j].public_key
           /\ \A a \in ToSet(peers[i].allowed_ips), b \in ToSet(peers[j].allowed_ips) :
                ~ranges_overlap(net_range(a), net_range(b))

parse_wg_quick(file) ==
  LET interfaces == Sections(file, "Interface")
      peers      == [i \in DOMAIN Sections(file, "Peer") |->
                       parse_peer_fields(Sections(file, "Peer")[i].fields)]
  IN  {cfg \in [interface : UNION {parse_interface_fields(s.fields) :
                                     s \in ToSet(interfaces)},
                peers : {ps \in [DOMAIN peers -> UNION ToSet(peers)] :
                           \A i \in DOMAIN peers : ps[i] \in peers[i]}] :
         /\ Lines(file) <= MaxRenderedLines
         /\ \A i \in DOMAIN file : file[i].name \in {"Interface", "Peer"}
         /\ Len(interfaces) = 1
         /\ ConfigOK(cfg)}

\* What is uploaded for a node: empty when rendering refuses its own output.
render_node_config(config, keys, h) ==
  LET file == RenderedFile(config, keys, h)
  IN  {f \in {file} : parse_wg_quick(f) # {}}
=============================================================================
