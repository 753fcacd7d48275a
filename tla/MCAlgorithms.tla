---------------------------- MODULE MCAlgorithms ----------------------------
(***************************************************************************)
(* The algorithms that are functions of their input, each over every input *)
(* of a small domain, held against what their result is for.  The JSON     *)
(* scanner reads every short document.                                     *)
(***************************************************************************)
EXTENDS Preflight, Base32, StrictJson

VARIABLE input   \* an algorithm and its arguments

MCAlphabet == <<1, 2, 4, 5>>

(***************************************************************************)
(* Topologies: two or three nodes over eight addresses.                    *)
(***************************************************************************)
Net(a, n) == [addr |-> a, len |-> n]

Endpoint == [form |-> "host", host |-> "peer", length |-> 4, clean |-> TRUE, port |-> 51820]

Node(h, addr, routes, endpoint) ==
  [hostname |-> h, tunnel_address |-> addr, listen_port |-> 51820, endpoint |-> endpoint,
   dns |-> {}, mtu |-> {}, extra_allowed_ips |-> routes, persistent_keepalive |-> {}]

\* Routes that overlap, cover a node, have host bits, repeat or take everything.
RouteLists ==
  {<<>>, <<Net(4, 1)>>, <<Net(6, 2), Net(4, 2)>>, <<Net(4, 3)>>, <<Net(2, 2)>>,
   <<Net(5, 2)>>, <<Net(6, 2), Net(7, 3)>>, <<Net(0, 0)>>}

FirstNodes == {Node(1, a, r, ep) : a \in {Net(1, 3), Net(0, 2), Net(1, 2)}, r \in RouteLists,
                                   ep \in {{}, {Endpoint}}}

SecondNodes == {Node(2, a, r, {Endpoint}) : a \in {Net(1, 3), Net(2, 3)}, r \in RouteLists}

\* The other fields at their limits.
OddNode(ep, port, dns, mtu, keepalive) ==
  [Node(2, Net(2, 3), <<>>, {ep}) EXCEPT
     !.listen_port = port, !.dns = dns, !.mtu = mtu, !.persistent_keepalive = keepalive]

OddEndpoints ==
  {Endpoint, [Endpoint EXCEPT !.form = "unterminated"],
   [Endpoint EXCEPT !.form = "bracketed", !.port = 0],
   [Endpoint EXCEPT !.length = 254], [Endpoint EXCEPT !.clean = FALSE]}

DnsServers == {[family |-> f, addr |-> 7] : f \in {"v4", "v6", "name"}}

OddNodes ==
  {OddNode(ep, p, d, m, k) :
     ep \in OddEndpoints, p \in {0, MaxPort}, d \in {{}} \cup {{x} : x \in DnsServers},
     m \in {{}, {575}, {576}}, k \in {{}, {0}, {1}}}

ThirdNodes == {<<>>, <<Node(3, Net(0, 3), <<>>, {})>>, <<Node(2, Net(3, 3), <<>>, {})>>,
               <<Node(3, Net(3, 3), <<Net(4, 2)>>, {})>>}

R2Config ==
  [endpoint |-> [parses |-> TRUE, scheme |-> "https", host |-> {"r2"},
                 userinfo |-> FALSE, query |-> FALSE, fragment |-> FALSE],
   access_key_id |-> "set", secret_access_key |-> "set", session_token |-> {}]

Topology(nodes, master) == [r2_config |-> R2Config, nodes |-> nodes, master |-> master]

TopologyInputs ==
  {Topology(<<a, b>> \o c, m) : a \in FirstNodes, b \in SecondNodes, c \in ThirdNodes,
                                m \in {<<1>>, <<2, 1>>, <<>>, <<3>>}}
    \cup {Topology(<<Node(1, Net(1, 3), <<>>, {}), b>>, <<1>>) : b \in OddNodes}
    \cup {[Topology(<<Node(1, Net(1, 3), <<>>, {})>>, <<1>>) EXCEPT !.r2_config = r2] :
             r2 \in {[R2Config EXCEPT !.session_token = {t}] : t \in {"blank", "set"}}
                     \cup {[R2Config EXCEPT !.endpoint.userinfo = TRUE]}}

Keys(config) ==
  [node_keys |-> [h \in Hostnames(config) |-> <<"private", h>>],
   edge_psks |-> [e \in Edges(config) |-> <<"psk", e>>]]

\* They are well typed, and the limit leaves each node the six lines it takes
\* at most, so that no file is too long.
ASSUME InputAssumption ==
  /\ \A config \in TopologyInputs : TopologyConfig(config)
  /\ 6 * MaxNodes <= MaxRenderedLines

(***************************************************************************)
(* Candidate configurations and routing tables.                            *)
(***************************************************************************)
Candidate(nets, endpoint, dns) ==
  [interface |-> [private_key |-> <<"private">>, address |-> 1, listen_port |-> 51820,
                  dns |-> dns, mtu |-> {}],
   peers     |-> <<[public_key |-> <<"public">>, preshared_key |-> <<"psk">>,
                    allowed_ips |-> nets, endpoint |-> endpoint, persistent_keepalive |-> {}]>>]

Candidates ==
  {Candidate(nets, ep, dns) :
     nets \in {<<Net(2, 3)>>, <<Net(2, 3), Net(4, 1)>>, <<Net(6, 2)>>, <<Net(4, 2)>>},
     ep \in {{Endpoint}, {[Endpoint EXCEPT !.form = "bracketed"]}},
     dns \in {{}, {[family |-> "v4", addr |-> 4]}, {[family |-> "v6", addr |-> 4]}}}

Resolvers == [{"storage", "peer"} -> {{}, {{}}, {{5, 7}}}]

KernelRoutes ==
  [net: {Net(0, 0), Net(0, 1), Net(4, 1), Net(6, 2), Net(2, 3), Net(7, 3)},
   oif: {{"wg0"}, {"eth0"}}, table: {"main"}, metric: {0}]
    \cup [net: {Net(4, 2)}, oif: {{}, {"eth0"}}, table: {"main", "other"}, metric: {0, 1}]

PreflightInputs ==
  [cfg: Candidates, resolver: Resolvers, routes: {s \cup t : s, t \in {{r} : r \in KernelRoutes}}]

(***************************************************************************)
(* Values and spellings; a character beyond one byte among them.           *)
(***************************************************************************)
ByteArrays == [1 .. Bytes -> 0 .. ByteBase - 1]

Characters == {Alphabet[i] : i \in 1 .. Radix} \cup {0, ByteBase + Alphabet[1]}

SpelledInputs == [1 .. Digits -> Characters] \cup [1 .. Digits - 1 -> {Alphabet[1]}]

-----------------------------------------------------------------------------
Init ==
  /\ JsonInit
  /\ \/ \E c \in TopologyInputs : input = [of |-> "validate", config |-> c]
     \/ \E p \in PreflightInputs : input = [of |-> "check", arg |-> p]
     \/ \E b \in ByteArrays : input = [of |-> "encode", bytes |-> b]
     \/ \E s \in SpelledInputs : input = [of |-> "decode", text |-> s]
     \/ input = [of |-> "json"]

Next == input.of = "json" /\ JsonNext /\ UNCHANGED input

Spec == Init /\ [][Next]_<<input, jsonVars>>

-----------------------------------------------------------------------------
\* For every topology that validate accepts, every node's file passes the strict
\* parser and, as parsed, sends each address of another node's to that peer and
\* to no other, and this node's own address to none, as long as the files are
\* within the limit of their size.  The validator and the parser check different
\* rules in different terms.  (topology::validate against render_node_config and
\* parse_wg_quick.)
RoutesLeadHome ==
  input.of = "validate" /\ validate(input.config) =>
    \A h \in Hostnames(input.config) :
      LET config == input.config
          file   == RenderedFile(config, Keys(config), h)
          Owners(cfg, x) == {p.public_key : p \in {q \in ToSet(cfg.peers) :
                              \E n \in ToSet(q.allowed_ips) : Within(x, net_range(n))}}
      IN  /\ parse_wg_quick(file) # {}
          /\ \A cfg \in parse_wg_quick(file) :
               /\ Owners(cfg, NodeOf(config, h).tunnel_address.addr) = {}
               /\ \A p \in PeerHosts(config, h) :
                    \A n \in {NodeOf(config, p).tunnel_address}
                               \cup ToSet(NodeOf(config, p).extra_allowed_ips) :
                      \A x \in Network(n) .. Broadcast(n) :
                        Owners(cfg, x) = {Public(<<"private", p>>)}

\* When the preflight lets a configuration through and it is installed, the
\* longest matching prefix still leads no address that the node needs for its
\* recovery into the tunnel, and every address that another interface had a
\* route of its own for still leaves through that route.  (check_inner and
\* list_ipv4_routes against the kernel's lookup.)
PreflightProtects ==
  input.of = "check"
    /\ check(input.arg.cfg, input.arg.resolver, "storage", input.arg.routes, "wg0") =>
    LET cfg    == input.arg.cfg
        before == input.arg.routes
        after  == Installed(cfg, before, "wg0")
    IN  /\ \A x \in Protected(cfg, input.arg.resolver, "storage") :
             Leaves(after, x) # {"wg0"}
        /\ \A x \in Addresses : \A r \in Best(before, x) :
             r.net.len # 0 /\ r.oif \notin {{}, {"wg0"}}
               => r \in Best(after, x) /\ "wg0" \notin Leaves(after, x)

\* The number that a sequence of digits, the most significant first, stands for.
Number(s, base) ==
  LET number[i \in 0 .. Len(s)] == IF i = 0 THEN 0 ELSE number[i - 1] * base + s[i]
  IN  number[Len(s)]

\* Every value has a spelling of its own: encoding gives the digits of the
\* number, which is canonical and decodes to the value again.  (encode, decode
\* and is_canonical, whose loops carry between bytes.)
IdsRoundTrip ==
  input.of = "encode" =>
    LET s == encode(input.bytes)
    IN  /\ Number([i \in 1 .. Digits |-> CHOOSE d \in DigitOf(s[i]) : TRUE], Radix)
             = Number(input.bytes, ByteBase)
        /\ is_canonical(s)
        /\ decode(s) = {input.bytes}

\* A text of one-byte characters is taken for an identifier exactly when it is
\* the spelling of a value, so that no two texts name one generation: no
\* overflow is missed and none is reported in error.  (decode, is_canonical.)
IdsCanonical ==
  input.of = "decode" /\ (\A i \in DOMAIN input.text : input.text[i] < ByteBase) =>
    /\ is_canonical(input.text) <=> \E b \in ByteArrays : encode(b) = input.text
    /\ is_canonical(input.text) <=> decode(input.text) # {}
=============================================================================
