--------------------------- MODULE KeyPlanProofs ---------------------------
(***************************************************************************)
(* Proofs about KeyPlan.  The argument: at any time the files of the       *)
(* current generation are what some keys render to, keys that were each    *)
(* drawn for their own node or edge by an earlier run.  A run reads those  *)
(* very keys back, so what it decides about every node and edge follows,   *)
(* and the keys it goes on with are of the same kind.                      *)
(***************************************************************************)
EXTENDS KeyPlan, RenderProofs

(***************************************************************************)
(* Edges.                                                                  *)
(***************************************************************************)
EdgeAmong(hosts, e) ==
  /\ e[1] \in hosts /\ e[2] \in hosts /\ e[1] # e[2]
  /\ e = canonical_pair(e[1], e[2])

\* An edge joins two nodes, in their order.
LEMMA EdgeShape ==
  ASSUME NEW config, TopologyConfig(config), NEW e \in Edges(config)
  PROVE  EdgeAmong(Hostnames(config), e)
<1> DEFINE hosts == Hostnames(config)
           hubs  == hosts \cap Masters(config)
<1>1. hosts \in SUBSET Nat
  BY HostsFinite
<1>2. \E a, b \in hosts : a # b /\ e = canonical_pair(a, b)
  <2>1. CASE e \in {canonical_pair(p[1], p[2]) : p \in {q \in hubs \X hubs : q[1] < q[2]}}
    <3>1. PICK p \in hubs \X hubs : p[1] < p[2] /\ e = canonical_pair(p[1], p[2])
      BY <2>1
    <3>2. p[1] \in hosts /\ p[2] \in hosts /\ p[1] # p[2]
      BY <1>1, <3>1
    <3> QED BY <3>1, <3>2
  <2>2. CASE e \in {canonical_pair(p[1], p[2]) : p \in hubs \X (hosts \ hubs)}
    <3>1. PICK p \in hubs \X (hosts \ hubs) : e = canonical_pair(p[1], p[2])
      BY <2>2
    <3>2. p[1] \in hosts /\ p[2] \in hosts /\ p[1] # p[2]
      BY <3>1
    <3> QED BY <3>1, <3>2
  <2> QED BY <2>1, <2>2 DEF Edges, compute_edges
<1>3. PICK a, b \in hosts : a # b /\ e = canonical_pair(a, b)
  BY <1>2
<1> HIDE DEF hosts
<1>4. a \in Nat /\ b \in Nat
  BY <1>1
<1>5. CASE a <= b
  <2>1. e = <<a, b>> /\ e[1] = a /\ e[2] = b
    BY <1>3, <1>5 DEF canonical_pair
  <2> QED BY <1>3, <1>5, <2>1 DEF EdgeAmong, canonical_pair, hosts
<1>6. CASE b < a
  <2>1. e = <<b, a>> /\ e[1] = b /\ e[2] = a
    BY <1>3, <1>4, <1>6 DEF canonical_pair
  <2> QED BY <1>3, <1>4, <1>6, <2>1 DEF EdgeAmong, canonical_pair, hosts
<1> QED BY <1>4, <1>5, <1>6

\* A pair is the same from both sides and of its two nodes only.
LEMMA PairOf ==
  ASSUME NEW a \in Nat, NEW b \in Nat
  PROVE  /\ canonical_pair(a, b) = canonical_pair(b, a)
         /\ \A c, d \in Nat : canonical_pair(a, b) = canonical_pair(c, d) => {a, b} = {c, d}
<1>1. canonical_pair(a, b) = canonical_pair(b, a)
  BY DEF canonical_pair
<1>2. ASSUME NEW c \in Nat, NEW d \in Nat, canonical_pair(a, b) = canonical_pair(c, d)
      PROVE  {a, b} = {c, d}
  <2>1. \A x, y, u, v : <<x, y>> = <<u, v>> => x = u /\ y = v
    OBVIOUS
  <2>2. \/ a = c /\ b = d
        \/ a = d /\ b = c
    BY <1>2, <2>1 DEF canonical_pair
  <2> QED BY <2>2
<1> QED BY <1>1, <1>2

-----------------------------------------------------------------------------
(***************************************************************************)
(* What the files of a generation say.                                     *)
(***************************************************************************)
PeersOf(hosts, edges, h) == {p \in hosts : p # h /\ canonical_pair(h, p) \in edges}

\* Each file is parsed to the keys of its node and of its edges.
Reads(fs, hosts, edges, keys) ==
  /\ DOMAIN fs = hosts
  /\ \A h \in hosts :
       /\ parse_wg_quick(fs[h]) # {}
       /\ PrivateKey(fs, h) = keys.node_keys[h]
       /\ {<<p.public_key, p.preshared_key>> : p \in ToSet(ParsedFile(fs, h).peers)}
            = {<<Public(keys.node_keys[p]), keys.edge_psks[canonical_pair(h, p)]>> :
                 p \in PeersOf(hosts, edges, h)}

\* The files that a run renders, when each of them is parsed, do so.
LEMMA RenderedReads ==
  ASSUME NEW config, TopologyConfig(config), NEW keys, NEW fs,
         fs = [h \in Hostnames(config) |-> RenderedFile(config, keys, h)],
         \A h \in Hostnames(config) : parse_wg_quick(RenderedFile(config, keys, h)) # {}
  PROVE  Reads(fs, Hostnames(config), Edges(config), keys)
<1> SUFFICES ASSUME NEW h \in Hostnames(config)
             PROVE  /\ parse_wg_quick(fs[h]) # {}
                    /\ PrivateKey(fs, h) = keys.node_keys[h]
                    /\ {<<p.public_key, p.preshared_key>> : p \in ToSet(ParsedFile(fs, h).peers)}
                         = {<<Public(keys.node_keys[p]), keys.edge_psks[canonical_pair(h, p)]>> :
                              p \in PeersOf(Hostnames(config), Edges(config), h)}
  BY DEF Reads
<1>1. PICK q, m : /\ PeerSectionsAre(config, keys, h, q, m)
                  /\ parse_wg_quick(RenderedFile(config, keys, h))
                       \subseteq {ParsedConfig(config, keys, h, q, m)}
  BY FileRead
<1>2. fs[h] = RenderedFile(config, keys, h) /\ parse_wg_quick(fs[h]) # {}
  OBVIOUS
<1>3. ParsedFile(fs, h) = ParsedConfig(config, keys, h, q, m)
  BY <1>1, <1>2 DEF ParsedFile
<1>4. PrivateKey(fs, h) = keys.node_keys[h]
  BY <1>3 DEF PrivateKey, ParsedConfig, ParsedInterface
<1>5. /\ m \in Nat /\ q \in [1 .. m -> PeerHosts(config, h)]
      /\ \A x \in PeerHosts(config, h) : \E i \in 1 .. m : q[i] = x
  BY <1>1 DEF PeerSectionsAre, Enumerates
<1> DEFINE peers   == ParsedFile(fs, h).peers
           peer(p) == ParsedPeer(config, keys, h, p)
           key(p)  == <<Public(keys.node_keys[p]), keys.edge_psks[canonical_pair(h, p)]>>
<1>6. peers = [k \in 1 .. m |-> peer(q[k])]
  <2>1. ParsedConfig(config, keys, h, q, m).peers = [k \in 1 .. m |-> peer(q[k])]
    BY Zenon DEF ParsedConfig
  <2> HIDE DEF peer
  <2> QED BY <1>3, <2>1
<1>7. \A p : <<peer(p).public_key, peer(p).preshared_key>> = key(p)
  BY DEF ParsedPeer
<1> HIDE DEF peers, peer, key
<1>8. ToSet(peers) = {peer(p) : p \in PeerHosts(config, h)}
  <2>1. DOMAIN peers = 1 .. m /\ \A k \in 1 .. m : peers[k] = peer(q[k])
    BY <1>6
  <2>2. ToSet(peers) = {peer(q[k]) : k \in 1 .. m}
    BY <2>1 DEF ToSet
  <2> QED BY <1>5, <2>2
<1>9. {<<p.public_key, p.preshared_key>> : p \in ToSet(peers)}
        = {key(p) : p \in PeerHosts(config, h)}
  BY <1>7, <1>8
<1>10. PeerHosts(config, h) = PeersOf(Hostnames(config), Edges(config), h)
  BY DEF PeerHosts, PeersOf
<1> QED BY <1>2, <1>4, <1>9, <1>10 DEF peers, key

\* Each key was drawn for its node or its edge by one of the first n runs.
Drawn(hosts, edges, keys, n) ==
  /\ \A h \in hosts : \E i \in 1 .. n : keys.node_keys[h] = <<"private", h, i>>
  /\ \A e \in edges : \E i \in 1 .. n : keys.edge_psks[e] = <<"psk", e, i>>

\* A generation of files after n runs, and what it stands for.
Generation(fs, hosts, edges, keys, n) ==
  /\ n \in Nat /\ hosts \in SUBSET Nat
  /\ \A e \in edges : EdgeAmong(hosts, e)
  /\ Drawn(hosts, edges, keys, n)
  /\ Reads(fs, hosts, edges, keys)

\* No two keys of a generation are the same.
LEMMA KeysDiffer ==
  ASSUME NEW hosts, NEW edges, NEW keys, NEW n, Drawn(hosts, edges, keys, n)
  PROVE  /\ \A a, b \in hosts : keys.node_keys[a] = keys.node_keys[b] => a = b
         /\ \A a, b \in hosts : Public(keys.node_keys[a]) = Public(keys.node_keys[b]) => a = b
         /\ \A d, e \in edges : keys.edge_psks[d] = keys.edge_psks[e] => d = e
         /\ \A a \in hosts, e \in edges : keys.node_keys[a] # keys.edge_psks[e]
<1>1. \A a, b, i, j : /\ <<"private", a, i>> = <<"private", b, j>> => a = b
                      /\ <<"psk", a, i>> = <<"psk", b, j>> => a = b
                      /\ <<"private", a, i>> # <<"psk", b, j>>
  OBVIOUS
<1>2. \A a, b \in hosts : keys.node_keys[a] = keys.node_keys[b] => a = b
  BY <1>1 DEF Drawn
<1>3. \A a, b : Public(a) = Public(b) => a = b
  BY DEF Public
<1>4. \A d, e \in edges : keys.edge_psks[d] = keys.edge_psks[e] => d = e
  BY <1>1 DEF Drawn
<1>5. \A a \in hosts, e \in edges : keys.node_keys[a] # keys.edge_psks[e]
  BY <1>1 DEF Drawn
<1> QED BY <1>2, <1>3, <1>4, <1>5

\* A file has, for another node, the key of the edge between them, if any.
LEMMA PsksOf ==
  ASSUME NEW fs, NEW hosts, NEW edges, NEW keys, NEW n,
         Generation(fs, hosts, edges, keys, n),
         NEW a \in hosts, NEW b \in hosts, a # b
  PROVE  Psks(fs, a, b)
           = {keys.edge_psks[e] : e \in {canonical_pair(a, b)} \cap edges}
<1> DEFINE peers == ToSet(ParsedFile(fs, a).peers)
           pub   == Public(keys.node_keys[b])
           e     == canonical_pair(a, b)
<1>1. Reads(fs, hosts, edges, keys) /\ Drawn(hosts, edges, keys, n)
  BY DEF Generation
<1>2. {<<p.public_key, p.preshared_key>> : p \in peers}
        = {<<Public(keys.node_keys[p]), keys.edge_psks[canonical_pair(a, p)]>> :
             p \in PeersOf(hosts, edges, a)}
  BY <1>1 DEF Reads
<1>3. Psks(fs, a, b) = {p.preshared_key : p \in {q \in peers : q.public_key = pub}}
  BY <1>1 DEF Psks, Reads
<1>4. \A p \in hosts : Public(keys.node_keys[p]) = pub => p = b
  BY <1>1, KeysDiffer
<1>5. b \in PeersOf(hosts, edges, a) <=> e \in edges
  BY DEF PeersOf
<1>6. \A p \in PeersOf(hosts, edges, a) : p \in hosts
  BY DEF PeersOf
<1>7. \A u, v, x, y : <<u, v>> = <<x, y>> => u = x /\ v = y
  OBVIOUS
<1> HIDE DEF peers, pub
<1>8. ASSUME NEW k PROVE k \in Psks(fs, a, b) <=> e \in edges /\ k = keys.edge_psks[e]
  <2>1. ASSUME k \in Psks(fs, a, b) PROVE e \in edges /\ k = keys.edge_psks[e]
    <3>1. PICK p \in peers : p.public_key = pub /\ p.preshared_key = k
      BY <1>3, <2>1
    <3>2. PICK x \in PeersOf(hosts, edges, a) :
            <<p.public_key, p.preshared_key>>
              = <<Public(keys.node_keys[x]), keys.edge_psks[canonical_pair(a, x)]>>
      BY <1>2, <3>1
    <3>3. Public(keys.node_keys[x]) = pub /\ k = keys.edge_psks[canonical_pair(a, x)]
      BY <1>7, <3>1, <3>2
    <3>4. x = b
      BY <1>4, <1>6, <3>3
    <3> QED BY <1>5, <3>3, <3>4
  <2>2. ASSUME e \in edges, k = keys.edge_psks[e] PROVE k \in Psks(fs, a, b)
    <3>1. b \in PeersOf(hosts, edges, a)
      BY <1>5, <2>2
    <3>2. PICK p \in peers : <<p.public_key, p.preshared_key>> = <<pub, keys.edge_psks[e]>>
      BY <1>2, <3>1 DEF pub
    <3>3. p.public_key = pub /\ p.preshared_key = k
      BY <1>7, <2>2, <3>2
    <3> QED BY <1>3, <3>3
  <2> QED BY <2>1, <2>2
<1> HIDE DEF e
<1>9. Psks(fs, a, b) = {keys.edge_psks[d] : d \in {e} \cap edges}
  BY <1>8
<1> QED BY <1>9 DEF e

\* The secrets of a file are those of its node and of its node's edges.
LEMMA SecretsOf ==
  ASSUME NEW fs, NEW hosts, NEW edges, NEW keys, NEW n,
         Generation(fs, hosts, edges, keys, n), NEW a \in hosts,
         NEW s \in Secrets(fs, a)
  PROVE  \/ s = keys.node_keys[a]
         \/ \E p \in hosts : /\ canonical_pair(a, p) \in edges
                             /\ s = keys.edge_psks[canonical_pair(a, p)]
<1> DEFINE peers == ToSet(ParsedFile(fs, a).peers)
<1>1. Reads(fs, hosts, edges, keys)
  BY DEF Generation
<1>2. {<<p.public_key, p.preshared_key>> : p \in peers}
        = {<<Public(keys.node_keys[p]), keys.edge_psks[canonical_pair(a, p)]>> :
             p \in PeersOf(hosts, edges, a)}
  BY <1>1 DEF Reads
<1>3. PrivateKey(fs, a) = keys.node_keys[a]
  BY <1>1 DEF Reads
<1>4. s = PrivateKey(fs, a) \/ \E p \in peers : s = p.preshared_key
  BY DEF Secrets
<1> HIDE DEF peers
<1>5. ASSUME NEW p \in peers, s = p.preshared_key
      PROVE  \E x \in hosts : /\ canonical_pair(a, x) \in edges
                              /\ s = keys.edge_psks[canonical_pair(a, x)]
  <2>1. PICK x \in PeersOf(hosts, edges, a) :
          <<p.public_key, p.preshared_key>>
            = <<Public(keys.node_keys[x]), keys.edge_psks[canonical_pair(a, x)]>>
    BY <1>2, <1>5
  <2>2. s = keys.edge_psks[canonical_pair(a, x)]
    BY <1>5, <2>1
  <2> QED BY <2>2 DEF PeersOf
<1> QED BY <1>3, <1>4, <1>5

-----------------------------------------------------------------------------
(***************************************************************************)
(* What resolve_keys decides.                                              *)
(***************************************************************************)
ResolvedKey(rotate, hosts, keys, h) ==
  IF h \in hosts \ rotate THEN keys.node_keys[h] ELSE FreshPrivate(h)

ResolvedPsk(rotate, hosts, edges, keys, e) ==
  IF e[1] \in hosts \ rotate /\ e[2] \in hosts \ rotate /\ e \in edges
  THEN keys.edge_psks[e] ELSE FreshPsk(e)

\* Of the current generation, a run finds no file that it cannot read.
LEMMA OldParses ==
  ASSUME NEW hosts, NEW edges, NEW keys, Generation(files, hosts, edges, keys, runs),
         NEW config
  PROVE  /\ DOMAIN old_configs(config) = Hostnames(config) \cap hosts
         /\ \A h \in Hostnames(config) \cap hosts :
              /\ old_configs(config)[h] = parse_wg_quick(files[h])
              /\ old_configs(config)[h] # {}
         /\ {} \notin ToSet(old_configs(config))
<1>1. DOMAIN files = hosts /\ \A h \in hosts : parse_wg_quick(files[h]) # {}
  BY DEF Generation, Reads
<1>2. /\ DOMAIN old_configs(config) = Hostnames(config) \cap hosts
      /\ \A h \in Hostnames(config) \cap hosts :
           old_configs(config)[h] = parse_wg_quick(files[h])
  BY <1>1 DEF old_configs
<1> QED BY <1>1, <1>2 DEF ToSet

\* A node keeps its key unless it is new or rotated.
LEMMA NodeResolved ==
  ASSUME NEW hosts, NEW edges, NEW keys, Generation(files, hosts, edges, keys, runs),
         NEW config, NEW rotate, NEW h \in Hostnames(config)
  PROVE  /\ IsFresh(old_configs(config), rotate, h) <=> h \notin hosts \ rotate
         /\ NodeKey(old_configs(config), rotate, h) = ResolvedKey(rotate, hosts, keys, h)
<1> DEFINE old == old_configs(config)
<1>1. /\ DOMAIN old = Hostnames(config) \cap hosts
      /\ \A x \in Hostnames(config) \cap hosts : old[x] = parse_wg_quick(files[x])
  BY OldParses
<1> HIDE DEF old
<1>2. IsFresh(old, rotate, h) <=> h \notin hosts \ rotate
  BY <1>1 DEF IsFresh
<1>3. CASE h \in hosts \ rotate
  <2>1. old[h] = parse_wg_quick(files[h])
    BY <1>1, <1>3
  <2>2. PrivateKey(files, h) = keys.node_keys[h]
    BY <1>3 DEF Generation, Reads
  <2>3. NodeKey(old, rotate, h) = PrivateKey(files, h)
    BY <1>2, <1>3, <2>1 DEF NodeKey, PrivateKey, ParsedFile
  <2> QED BY <1>2, <1>3, <2>2, <2>3 DEF ResolvedKey, old
<1>4. CASE h \notin hosts \ rotate
  BY <1>2, <1>4 DEF NodeKey, ResolvedKey, old
<1> QED BY <1>3, <1>4, <1>2 DEF old

\* Two nodes that keep theirs keep that of their edge, and their files agree
\* on it; every other edge gets a new one.
LEMMA EdgeResolved ==
  ASSUME NEW hosts, NEW edges, NEW keys, Generation(files, hosts, edges, keys, runs),
         NEW config, TopologyConfig(config), NEW rotate, NEW e \in Edges(config)
  PROVE  /\ EdgeResult(old_configs(config), rotate, e) \in {"Fresh", "Reused"}
         /\ EdgePsk(old_configs(config), rotate, e)
              = ResolvedPsk(rotate, hosts, edges, keys, e)
<1> DEFINE old == old_configs(config)
           a   == PeerRecord(old, e[1], Public(NodeKey(old, rotate, e[2])))
           b   == PeerRecord(old, e[2], Public(NodeKey(old, rotate, e[1])))
           kept == e[1] \in hosts \ rotate /\ e[2] \in hosts \ rotate
<1>1. EdgeAmong(Hostnames(config), e)
  BY EdgeShape
<1>2. /\ e[1] \in Hostnames(config) /\ e[2] \in Hostnames(config) /\ e[1] # e[2]
      /\ canonical_pair(e[1], e[2]) = e
  BY <1>1 DEF EdgeAmong
<1>3. EdgeIsFresh(old, rotate, e) <=> ~kept
  BY <1>2, NodeResolved DEF EdgeIsFresh
<1>4. CASE ~kept
  <2>1. EdgeIsFresh(old, rotate, e)
    BY <1>3, <1>4
  <2>2. EdgeResult(old, rotate, e) = "Fresh"
    BY <2>1 DEF EdgeResult
  <2>3. EdgePsk(old, rotate, e) = FreshPsk(e)
    BY <2>2 DEF EdgePsk
  <2> QED BY <1>4, <2>2, <2>3 DEF ResolvedPsk
<1>5. CASE kept
  <2>1. ~EdgeIsFresh(old, rotate, e)
    BY <1>3, <1>5
  <2>2. /\ e[1] \in Nat /\ e[2] \in Nat
    BY <1>5 DEF Generation
  <2>3. /\ NodeKey(old, rotate, e[1]) = PrivateKey(files, e[1])
        /\ NodeKey(old, rotate, e[2]) = PrivateKey(files, e[2])
    <3>1. \A h \in Hostnames(config) : h \in hosts \ rotate =>
            NodeKey(old, rotate, h) = keys.node_keys[h]
      BY NodeResolved DEF ResolvedKey
    <3>2. \A h \in hosts : PrivateKey(files, h) = keys.node_keys[h]
      BY DEF Generation, Reads
    <3> QED BY <1>2, <1>5, <3>1, <3>2
  <2>4. /\ old[e[1]] = parse_wg_quick(files[e[1]])
        /\ old[e[2]] = parse_wg_quick(files[e[2]])
    <3>1. \A h \in Hostnames(config) \cap hosts : old[h] = parse_wg_quick(files[h])
      BY OldParses
    <3> HIDE DEF old
    <3> QED BY <1>2, <1>5, <3>1
  <2> HIDE DEF old
  <2>5. a = Psks(files, e[1], e[2])
    BY <2>3, <2>4 DEF PeerRecord, Psks, ParsedFile
  <2>6. b = Psks(files, e[2], e[1])
    BY <2>3, <2>4 DEF PeerRecord, Psks, ParsedFile
  <2>7. /\ a = {keys.edge_psks[d] : d \in {e} \cap edges}
        /\ b = {keys.edge_psks[d] : d \in {e} \cap edges}
    <3>1. canonical_pair(e[2], e[1]) = e
      BY <1>2, <2>2, PairOf
    <3>2. Psks(files, e[1], e[2]) = {keys.edge_psks[d] : d \in {canonical_pair(e[1], e[2])} \cap edges}
      BY <1>2, <1>5, PsksOf
    <3>3. Psks(files, e[2], e[1]) = {keys.edge_psks[d] : d \in {canonical_pair(e[2], e[1])} \cap edges}
      BY <1>2, <1>5, PsksOf
    <3> QED BY <1>2, <2>5, <2>6, <3>1, <3>2, <3>3
  <2>8. EdgeResult(old, rotate, e) =
          IF a = {} /\ b = {} THEN "Fresh"
          ELSE IF a = {} \/ b = {} THEN "OneSidedEdge"
          ELSE IF a = b THEN "Reused" ELSE "ConflictingPsk"
    BY <2>1 DEF EdgeResult
  <2>9. EdgePsk(old, rotate, e) = IF EdgeResult(old, rotate, e) = "Reused"
                                  THEN CHOOSE psk \in a : TRUE ELSE FreshPsk(e)
    BY DEF EdgePsk
  <2> HIDE DEF a, b
  <2>10. CASE e \in edges
    <3>1. a = {keys.edge_psks[e]} /\ b = {keys.edge_psks[e]}
      BY <2>7, <2>10
    <3>2. EdgeResult(old, rotate, e) = "Reused"
      BY <2>8, <3>1
    <3>3. EdgePsk(old, rotate, e) = keys.edge_psks[e]
      BY <2>9, <3>1, <3>2
    <3> QED BY <1>5, <2>10, <3>2, <3>3 DEF ResolvedPsk, old
  <2>11. CASE e \notin edges
    <3>1. a = {} /\ b = {}
      BY <2>7, <2>11
    <3>2. EdgeResult(old, rotate, e) = "Fresh"
      BY <2>8, <3>1
    <3>3. EdgePsk(old, rotate, e) = FreshPsk(e)
      BY <2>9, <3>2
    <3> QED BY <2>11, <3>2, <3>3 DEF ResolvedPsk, old
  <2> QED BY <2>10, <2>11
<1> QED BY <1>4, <1>5

\* So the keys that a run goes on with are again drawn, each for its own.
LEMMA ResolvedDrawn ==
  ASSUME NEW hosts, NEW edges, NEW keys, Generation(files, hosts, edges, keys, runs),
         NEW config, TopologyConfig(config), NEW rotate
  PROVE  Drawn(Hostnames(config), Edges(config),
               resolve_keys(config, old_configs(config), rotate), runs + 1)
<1> DEFINE new == resolve_keys(config, old_configs(config), rotate)
<1>1. runs \in Nat /\ Drawn(hosts, edges, keys, runs)
  BY DEF Generation
<1>2. /\ \A h \in Hostnames(config) :
           new.node_keys[h] = ResolvedKey(rotate, hosts, keys, h)
      /\ \A e \in Edges(config) :
           new.edge_psks[e] = ResolvedPsk(rotate, hosts, edges, keys, e)
  <2>1. \A h \in Hostnames(config) :
          new.node_keys[h] = NodeKey(old_configs(config), rotate, h)
    BY DEF resolve_keys
  <2>2. \A e \in Edges(config) :
          new.edge_psks[e] = EdgePsk(old_configs(config), rotate, e)
    BY DEF resolve_keys
  <2> HIDE DEF new
  <2> QED BY <2>1, <2>2, NodeResolved, EdgeResolved
<1> HIDE DEF new
<1>3. runs + 1 \in 1 .. runs + 1 /\ \A i \in 1 .. runs : i \in 1 .. runs + 1
  BY <1>1
<1>4. \A h \in Hostnames(config) : \E i \in 1 .. runs + 1 :
        new.node_keys[h] = <<"private", h, i>>
  BY <1>1, <1>2, <1>3 DEF Drawn, ResolvedKey, FreshPrivate
<1>5. \A e \in Edges(config) : \E i \in 1 .. runs + 1 : new.edge_psks[e] = <<"psk", e, i>>
  BY <1>1, <1>2, <1>3 DEF Drawn, ResolvedPsk, FreshPsk
<1> QED BY <1>4, <1>5 DEF Drawn, new

-----------------------------------------------------------------------------
(***************************************************************************)
(* The inductive invariant.                                                *)
(***************************************************************************)
\* The current generation was rendered from its topology and from keys that
\* earlier runs drew.
IsGeneration ==
  \E hosts, edges, keys :
    /\ Generation(files, hosts, edges, keys, runs)
    /\ \A config \in topology : edges = Edges(config)

\* What a run that publishes has made sure of.
LEMMA PublishedChecked ==
  ASSUME NEW config, NEW raw, Result(config, raw) = "Published",
         NEW rotate, rotate = UNION parse_rotate(raw, Hostnames(config)),
         NEW keys, keys = resolve_keys(config, old_configs(config), rotate)
  PROVE  /\ validate(config) /\ rotate \subseteq Hostnames(config)
         /\ \A h \in Hostnames(config) : parse_wg_quick(RenderedFile(config, keys, h)) # {}
<1> DEFINE new == Rendered(config, keys)
<1>1. validate(config) /\ RotateKnown(rotate, Hostnames(config)) /\ {} \notin ToSet(new)
  BY DEF Result
<1>2. \A h \in Hostnames(config) : new[h] = render_node_config(config, keys, h)
  BY DEF Rendered
<1>3. DOMAIN new = Hostnames(config)
  BY DEF Rendered
<1> HIDE DEF new
<1>4. \A h \in Hostnames(config) : render_node_config(config, keys, h) # {}
  BY <1>1, <1>2, <1>3 DEF ToSet
<1>5. \A h \in Hostnames(config) : parse_wg_quick(RenderedFile(config, keys, h)) # {}
  BY <1>4 DEF render_node_config
<1> QED BY <1>1, <1>5 DEF RotateKnown

\* The files that it publishes are a generation again.
LEMMA NewGeneration ==
  ASSUME NEW hosts, NEW edges, NEW old, Generation(files, hosts, edges, old, runs),
         NEW config \in Topologies, NEW raw, Result(config, raw) = "Published",
         NEW rotate, rotate = UNION parse_rotate(raw, Hostnames(config)),
         NEW keys, keys = resolve_keys(config, old_configs(config), rotate),
         NEW new, new = [h \in Hostnames(config) |-> RenderedFile(config, keys, h)]
  PROVE  Generation(new, Hostnames(config), Edges(config), keys, runs + 1)
<1>1. TopologyConfig(config)
  BY KeyPlanAssumption
<1>2. Hostnames(config) \in SUBSET Nat
  BY <1>1, HostsFinite
<1>3. \A e \in Edges(config) : EdgeAmong(Hostnames(config), e)
  BY <1>1, EdgeShape
<1>4. Drawn(Hostnames(config), Edges(config), keys, runs + 1)
  BY <1>1, ResolvedDrawn
<1>5. Reads(new, Hostnames(config), Edges(config), keys)
  <2>1. \A h \in Hostnames(config) : parse_wg_quick(RenderedFile(config, keys, h)) # {}
    BY PublishedChecked
  <2> QED BY <1>1, <2>1, RenderedReads
<1>6. runs + 1 \in Nat
  BY DEF Generation
<1> QED BY <1>2, <1>3, <1>4, <1>5, <1>6 DEF Generation

\* Outside a publication only the count of runs goes on.
LEMMA OldGeneration ==
  ASSUME NEW fs, NEW hosts, NEW edges, NEW keys, NEW n,
         Generation(fs, hosts, edges, keys, n)
  PROVE  Generation(fs, hosts, edges, keys, n + 1)
<1>1. n \in Nat /\ n + 1 \in Nat /\ \A i \in 1 .. n : i \in 1 .. n + 1
  BY DEF Generation
<1> QED BY <1>1 DEF Generation, Drawn

Inv == TypeOK /\ IsGeneration

\* Before the first run there is no file and no edge.
LEMMA InitInv == Init => Inv
<1> SUFFICES ASSUME Init PROVE Inv
  OBVIOUS
<1>1. TypeOK
  <2>1. Cardinality(topology) <= 1
    BY FS_EmptySet DEF Init
  <2>2. DOMAIN files = {}
    BY DEF Init, Empty
  <2>3. runs \in 0 .. MaxRuns
    BY KeyPlanAssumption DEF Init
  <2> QED BY <2>1, <2>2, <2>3 DEF Init, TypeOK
<1>2. Generation(files, {}, {}, {}, runs)
  <2>1. DOMAIN files = {} /\ runs = 0
    BY DEF Init, Empty
  <2> QED BY <2>1 DEF Generation, Drawn, Reads
<1>3. topology = {}
  BY DEF Init
<1> QED BY <1>1, <1>2, <1>3 DEF Inv, IsGeneration

Outcomes == {"None", "Validation", "RotateFlags", "UnknownRotateHostname",
             "UnparsableCurrentConfig", "ConflictingPsk", "OneSidedEdge",
             "Render", "Unchanged", "Published"}

\* A run reports one of the outcomes.
LEMMA ResultType == ASSUME NEW config, NEW raw PROVE Result(config, raw) \in Outcomes
BY DEF Result, Outcomes

\* Every run keeps the invariant.
LEMMA NextInv == Inv /\ [Next]_vars => Inv'
<1> SUFFICES ASSUME Inv, [Next]_vars PROVE Inv'
  OBVIOUS
<1>1. PICK hosts, edges, keys : /\ Generation(files, hosts, edges, keys, runs)
                                /\ \A config \in topology : edges = Edges(config)
  BY DEF Inv, IsGeneration
<1>2. /\ runs \in 0 .. MaxRuns /\ MaxRuns \in Nat
      /\ outcome \in Outcomes
  BY KeyPlanAssumption DEF Inv, TypeOK, Outcomes
<1>3. CASE UNCHANGED vars
  BY <1>3 DEF Inv, TypeOK, IsGeneration, vars
<1>4. ASSUME NEW config \in Topologies, NEW raw \in RotateFlags, Refused(config, raw)
      PROVE  Inv'
  <2>1. /\ files' = files /\ topology' = topology /\ runs' = runs + 1 /\ rotated' = {}
        /\ outcome' \in Outcomes /\ runs < MaxRuns
    BY <1>4, ResultType DEF Refused
  <2>2. runs' \in 0 .. MaxRuns
    BY <1>2, <2>1
  <2>3. TypeOK'
    BY <2>1, <2>2 DEF Inv, TypeOK, Outcomes
  <2>4. Generation(files', hosts, edges, keys, runs')
    BY <1>1, <2>1, OldGeneration
  <2>5. IsGeneration'
    BY <1>1, <2>1, <2>4 DEF IsGeneration
  <2> QED BY <2>3, <2>5 DEF Inv
<1>5. ASSUME NEW config \in Topologies, NEW raw \in RotateFlags, Published(config, raw)
      PROVE  Inv'
  <2> DEFINE rotate == UNION parse_rotate(raw, Hostnames(config))
             next   == resolve_keys(config, old_configs(config), rotate)
             new    == [h \in Hostnames(config) |-> RenderedFile(config, next, h)]
  <2>1. /\ files' = new /\ topology' = {config} /\ runs' = runs + 1 /\ rotated' = rotate
        /\ outcome' = "Published" /\ runs < MaxRuns
        /\ Result(config, raw) = "Published"
    BY <1>5 DEF Published
  <2>2. validate(config) /\ rotate \subseteq Hostnames(config)
    BY <2>1, PublishedChecked
  <2>3. Generation(new, Hostnames(config), Edges(config), next, runs + 1)
    BY <1>1, <2>1, NewGeneration
  <2>4. DOMAIN new = Hostnames(config)
    OBVIOUS
  <2> HIDE DEF new, next, rotate
  <2>5. runs' \in 0 .. MaxRuns
    BY <1>2, <2>1
  <2>6. Cardinality({config}) = 1
    BY FS_Singleton
  <2>7. Hostnames(config) \subseteq ValidHostnames
    BY <2>2 DEF validate, NamesOK
  <2>8. TypeOK'
    BY <2>1, <2>2, <2>4, <2>5, <2>6, <2>7 DEF TypeOK
  <2>9. IsGeneration'
    BY <2>1, <2>3 DEF IsGeneration
  <2> QED BY <2>8, <2>9 DEF Inv
<1> QED BY <1>3, <1>4, <1>5 DEF Next, Apply

\* The invariant holds throughout.
LEMMA AlwaysInv == Spec => []Inv
BY InitInv, NextInv, PTL DEF Spec

\* The state of a sequence of runs stays of its type: published hostnames are
\* valid ones, and what was rotated is published.
THEOREM KeyPlanTypeCorrect == Spec => []TypeOK
<1>1. Inv => TypeOK
  BY DEF Inv
<1> QED BY <1>1, AlwaysInv, PTL

-----------------------------------------------------------------------------
(***************************************************************************)
(* What follows.                                                           *)
(***************************************************************************)
\* The files of a generation agree, pair by pair, on a key of their own:
\* whatever topologies and rotations came before, resolve_keys hands out no
\* key twice and render_node_config gives both ends of an edge the same one.
THEOREM PairsAlwaysAgree == Spec => []PairsAgree
<1>1. Inv => PairsAgree
  <2> SUFFICES ASSUME Inv, NEW config \in topology,
                      NEW a \in DOMAIN files, NEW b \in DOMAIN files, a # b
               PROVE  LET both == Psks(files, a, b)
                      IN  /\ both = Psks(files, b, a)
                          /\ Cardinality(both) =
                               IF canonical_pair(a, b) \in Edges(config) THEN 1 ELSE 0
                          /\ PrivateKey(files, a) # PrivateKey(files, b)
                          /\ \A c, d \in DOMAIN files :
                               {a, b} # {c, d} /\ c # d => both \cap Psks(files, c, d) = {}
    BY DEF PairsAgree
  <2>1. PICK hosts, edges, keys : /\ Generation(files, hosts, edges, keys, runs)
                                  /\ edges = Edges(config)
    BY DEF Inv, IsGeneration
  <2>2. /\ hosts \in SUBSET Nat /\ DOMAIN files = hosts
        /\ Drawn(hosts, edges, keys, runs)
        /\ \A h \in hosts : PrivateKey(files, h) = keys.node_keys[h]
    BY <2>1 DEF Generation, Reads
  <2> DEFINE psk(e) == {keys.edge_psks[d] : d \in {e} \cap edges}
  <2>3. \A c, d \in hosts : c # d => Psks(files, c, d) = psk(canonical_pair(c, d))
    BY <2>1, PsksOf
  <2>4. \A e : (e \in edges => psk(e) = {keys.edge_psks[e]}) /\ (e \notin edges => psk(e) = {})
    OBVIOUS
  <2>5. \A d, e : d # e => psk(d) \cap psk(e) = {}
    BY <2>2, KeysDiffer
  <2> HIDE DEF psk
  <2>6. Psks(files, a, b) = Psks(files, b, a)
    BY <2>2, <2>3, PairOf
  <2>7. Cardinality(Psks(files, a, b)) = IF canonical_pair(a, b) \in Edges(config) THEN 1 ELSE 0
    <3>1. Psks(files, a, b) = psk(canonical_pair(a, b))
      BY <2>2, <2>3
    <3>2. \A x : Cardinality({x}) = 1
      BY FS_Singleton
    <3>3. Cardinality({}) = 0
      BY FS_EmptySet
    <3>4. CASE canonical_pair(a, b) \in edges
      <4>1. Psks(files, a, b) = {keys.edge_psks[canonical_pair(a, b)]}
        BY <2>4, <3>1, <3>4
      <4> QED BY <2>1, <3>2, <3>4, <4>1
    <3>5. CASE canonical_pair(a, b) \notin edges
      <4>1. Psks(files, a, b) = {}
        BY <2>4, <3>1, <3>5
      <4> QED BY <2>1, <3>3, <3>5, <4>1
    <3> QED BY <3>4, <3>5
  <2>8. PrivateKey(files, a) # PrivateKey(files, b)
    <3>1. \A c, d \in hosts : keys.node_keys[c] = keys.node_keys[d] => c = d
      BY <2>2, KeysDiffer
    <3> QED BY <2>2, <3>1
  <2>9. ASSUME NEW c \in hosts, NEW d \in hosts, {a, b} # {c, d}, c # d
        PROVE  Psks(files, a, b) \cap Psks(files, c, d) = {}
    <3>1. canonical_pair(a, b) # canonical_pair(c, d)
      <4>1. a \in Nat /\ b \in Nat /\ c \in Nat /\ d \in Nat
        BY <2>2
      <4> QED BY <2>9, <4>1, PairOf
    <3> QED BY <2>2, <2>3, <2>5, <2>9, <3>1
  <2> QED BY <2>2, <2>6, <2>7, <2>8, <2>9
<1> QED BY <1>1, AlwaysInv, PTL

\* No file of a generation is too long.
FilesFit ==
  \A config \in Topologies : validate(config) =>
    \A keys : \A h \in Hostnames(config) : Lines(RenderedFile(config, keys, h)) <= MaxRenderedLines

\* No run is ever refused because of what the runs before it published, and
\* whatever validate accepts is published: fetch_reusable_configs can read the
\* files, resolve_keys finds the two sides of each edge in agreement, and
\* render_node_config accepts its own output.  The one thing that could stop
\* it, which validate does not look at, is the size of a file.
THEOREM NeverRefused == FilesFit => (Spec => []NeverStuck)
<1> SUFFICES ASSUME FilesFit PROVE Spec => []NeverStuck
  OBVIOUS
<1>1. Init => NeverStuck
  BY DEF Init, NeverStuck
<1>2. Inv /\ NeverStuck /\ [Next]_vars => NeverStuck'
  <2> SUFFICES ASSUME Inv, NeverStuck, [Next]_vars PROVE NeverStuck'
    OBVIOUS
  <2>1. CASE UNCHANGED vars
    BY <2>1 DEF NeverStuck, vars
  <2>2. ASSUME NEW config \in Topologies, NEW raw \in RotateFlags, Refused(config, raw)
        PROVE  NeverStuck'
    <3> DEFINE rotate == UNION parse_rotate(raw, Hostnames(config))
               old    == old_configs(config)
               next   == resolve_keys(config, old, rotate)
               results == {EdgeResult(old, rotate, e) : e \in Edges(config)}
    <3>1. PICK hosts, edges, keys : Generation(files, hosts, edges, keys, runs)
      BY DEF Inv, IsGeneration
    <3>2. TopologyConfig(config)
      BY KeyPlanAssumption
    <3>3. {} \notin ToSet(old)
      BY <3>1, OldParses
    <3>4. results \subseteq {"Fresh", "Reused"}
      BY <3>1, <3>2, EdgeResolved
    <3>5. validate(config) => {} \notin ToSet(Rendered(config, next))
      <4> SUFFICES ASSUME validate(config), NEW h \in Hostnames(config)
                   PROVE  render_node_config(config, next, h) # {}
        BY DEF Rendered, ToSet
      <4>1. Drawn(Hostnames(config), Edges(config), next, runs + 1)
        BY <3>1, <3>2, ResolvedDrawn
      <4> HIDE DEF next
      <4>2. KeysOK(config, next)
        <5>1. \A x, i, t : t \in {"private", "psk"} => <<t, x, i>> # <<"zero">>
          <6>1. \A x, i, t : Len(<<t, x, i>>) = 3
            OBVIOUS
          <6>2. Len(<<"zero">>) = 1
            OBVIOUS
          <6> QED BY <6>1, <6>2
        <5>2. /\ \A a \in Hostnames(config) : ValidKey(next.node_keys[a])
              /\ \A e \in Edges(config) : ValidKey(next.edge_psks[e])
          BY <4>1, <5>1 DEF Drawn, ValidKey, ZeroKey
        <5>3. \A a, b \in Hostnames(config) : next.node_keys[a] = next.node_keys[b] => a = b
          BY <4>1, KeysDiffer
        <5> QED BY <5>2, <5>3 DEF KeysOK
      <4>3. parse_wg_quick(RenderedFile(config, next, h)) # {}
        BY <3>2, <4>2, RenderedParses DEF FilesFit
      <4> QED BY <4>3 DEF render_node_config
    <3>6. \/ Result(config, raw) \in {"RotateFlags", "Validation", "UnknownRotateHostname",
                                      "Unchanged", "Published"}
          \/ {} \in ToSet(old)
          \/ "ConflictingPsk" \in results \/ "OneSidedEdge" \in results
          \/ validate(config) /\ {} \in ToSet(Rendered(config, next))
      BY DEF Result
    <3> HIDE DEF old, next, results, rotate
    <3>7. Result(config, raw) \in {"RotateFlags", "Validation", "UnknownRotateHostname",
                                   "Unchanged", "Published"}
      BY <3>3, <3>4, <3>5, <3>6
    <3>8. outcome' = Result(config, raw)
      BY <2>2 DEF Refused
    <3> QED BY <3>7, <3>8 DEF NeverStuck
  <2>3. ASSUME NEW config \in Topologies, NEW raw \in RotateFlags, Published(config, raw)
        PROVE  NeverStuck'
    BY <2>3 DEF Published, NeverStuck
  <2> QED BY <2>1, <2>2, <2>3 DEF Next, Apply
<1> QED BY <1>1, <1>2, AlwaysInv, PTL DEF Spec

\* What a publication does to the keys of a node and of an edge, as the files
\* before it and the new ones have them.
LEMMA KeysCarried ==
  ASSUME NEW config, NEW rotate, NEW hosts, NEW edges, NEW keys,
         Generation(files, hosts, edges, keys, runs), TopologyConfig(config)
  PROVE  LET next == resolve_keys(config, old_configs(config), rotate)
         IN  /\ \A h \in Hostnames(config) :
                  next.node_keys[h] = ResolvedKey(rotate, hosts, keys, h)
             /\ \A e \in Edges(config) :
                  next.edge_psks[e] = ResolvedPsk(rotate, hosts, edges, keys, e)
<1> DEFINE old  == old_configs(config)
           next == resolve_keys(config, old, rotate)
<1>1. /\ \A h \in Hostnames(config) : next.node_keys[h] = NodeKey(old, rotate, h)
      /\ \A e \in Edges(config) : next.edge_psks[e] = EdgePsk(old, rotate, e)
  BY DEF resolve_keys
<1> HIDE DEF next
<1> QED BY <1>1, NodeResolved, EdgeResolved DEF next

\* Nodes that are in both generations and are not rotated keep their keys.
LEMMA KeptKeys ==
  ASSUME NEW config, NEW rotate, NEW hosts, NEW edges, NEW keys, NEW next, NEW new, NEW n,
         Generation(files, hosts, edges, keys, runs), TopologyConfig(config),
         next = resolve_keys(config, old_configs(config), rotate),
         Generation(new, Hostnames(config), Edges(config), next, n),
         NEW a \in (DOMAIN files \cap DOMAIN new) \ rotate,
         NEW b \in (DOMAIN files \cap DOMAIN new) \ rotate
  PROVE  /\ PrivateKey(new, a) = PrivateKey(files, a)
         /\ a # b /\ Psks(files, a, b) # {} /\ Psks(new, a, b) # {}
              => Psks(new, a, b) = Psks(files, a, b)
<1>1. /\ \A h \in Hostnames(config) :
           next.node_keys[h] = ResolvedKey(rotate, hosts, keys, h)
      /\ \A e \in Edges(config) :
           next.edge_psks[e] = ResolvedPsk(rotate, hosts, edges, keys, e)
  BY KeysCarried
<1>2. /\ DOMAIN files = hosts /\ \A h \in hosts : PrivateKey(files, h) = keys.node_keys[h]
      /\ DOMAIN new = Hostnames(config)
      /\ \A h \in Hostnames(config) : PrivateKey(new, h) = next.node_keys[h]
      /\ hosts \in SUBSET Nat
      /\ \A e \in Edges(config) : EdgeAmong(Hostnames(config), e)
  BY DEF Generation, Reads
<1>3. a \in hosts \ rotate /\ b \in hosts \ rotate
      /\ a \in Hostnames(config) /\ b \in Hostnames(config) /\ a \in Nat /\ b \in Nat
  BY <1>2
<1>4. PrivateKey(new, a) = PrivateKey(files, a)
  BY <1>1, <1>2, <1>3 DEF ResolvedKey
<1>5. ASSUME a # b, Psks(files, a, b) # {}, Psks(new, a, b) # {}
      PROVE  Psks(new, a, b) = Psks(files, a, b)
  <2> DEFINE e == canonical_pair(a, b)
  <2>1. Psks(files, a, b) = {keys.edge_psks[d] : d \in {e} \cap edges}
    BY <1>3, <1>5, PsksOf
  <2>2. Psks(new, a, b) = {next.edge_psks[d] : d \in {e} \cap Edges(config)}
    BY <1>3, <1>5, PsksOf
  <2>3. /\ e[1] \in {a, b} /\ e[2] \in {a, b}
    BY <1>3 DEF canonical_pair
  <2> HIDE DEF e
  <2>4. e \in edges /\ e \in Edges(config)
    BY <1>5, <2>1, <2>2
  <2>5. next.edge_psks[e] = keys.edge_psks[e]
    BY <1>1, <1>3, <2>3, <2>4 DEF ResolvedPsk
  <2> QED BY <2>1, <2>2, <2>4, <2>5
<1> QED BY <1>4, <1>5

\* The secrets of a node that is rotated or left out are in no new file.
LEMMA RetiredKeys ==
  ASSUME NEW config, NEW rotate, NEW hosts, NEW edges, NEW keys, NEW next, NEW new,
         Generation(files, hosts, edges, keys, runs), TopologyConfig(config),
         next = resolve_keys(config, old_configs(config), rotate),
         Generation(new, Hostnames(config), Edges(config), next, runs + 1),
         NEW h \in DOMAIN files, h \in rotate \/ h \notin DOMAIN new,
         NEW k \in DOMAIN new
  PROVE  Secrets(files, h) \cap Secrets(new, k) = {}
<1> SUFFICES ASSUME NEW s \in Secrets(files, h), s \in Secrets(new, k) PROVE FALSE
  OBVIOUS
<1>1. /\ \A x \in Hostnames(config) :
           next.node_keys[x] = ResolvedKey(rotate, hosts, keys, x)
      /\ \A e \in Edges(config) :
           next.edge_psks[e] = ResolvedPsk(rotate, hosts, edges, keys, e)
  BY KeysCarried
<1>2. /\ DOMAIN files = hosts /\ DOMAIN new = Hostnames(config)
      /\ hosts \in SUBSET Nat /\ Hostnames(config) \in SUBSET Nat /\ runs \in Nat
      /\ Drawn(hosts, edges, keys, runs)
      /\ \A e \in Edges(config) : EdgeAmong(Hostnames(config), e)
  BY DEF Generation, Reads
<1>3. h \in hosts /\ h \in Nat /\ k \in Hostnames(config) /\ k \in Nat
  BY <1>2
<1>4. \A t, u, x, y, i, j : <<t, x, i>> = <<u, y, j>> => t = u /\ x = y /\ i = j
  OBVIOUS
<1>5. \A i \in 1 .. runs : i # runs + 1
  BY <1>2
\* No key of the old generation is one that this run draws.
<1>6. /\ \A x \in hosts : \A y : /\ keys.node_keys[x] # FreshPrivate(y)
                                  /\ keys.node_keys[x] # FreshPsk(y)
      /\ \A e \in edges : \A y : /\ keys.edge_psks[e] # FreshPrivate(y)
                                  /\ keys.edge_psks[e] # FreshPsk(y)
  BY <1>2, <1>4, <1>5 DEF Drawn, FreshPrivate, FreshPsk
<1>7. \/ s = keys.node_keys[h]
      \/ \E p \in hosts : /\ canonical_pair(h, p) \in edges
                          /\ s = keys.edge_psks[canonical_pair(h, p)]
  BY <1>3, SecretsOf
<1>8. \/ s = next.node_keys[k]
      \/ \E p \in Hostnames(config) : /\ canonical_pair(k, p) \in Edges(config)
                                      /\ s = next.edge_psks[canonical_pair(k, p)]
  BY <1>3, SecretsOf
<1>9. /\ \A x, y \in hosts : keys.node_keys[x] = keys.node_keys[y] => x = y
      /\ \A d, e \in edges : keys.edge_psks[d] = keys.edge_psks[e] => d = e
      /\ \A x \in hosts, e \in edges : keys.node_keys[x] # keys.edge_psks[e]
  BY <1>2, KeysDiffer
<1>10. CASE s = next.node_keys[k]
  <2>1. next.node_keys[k] = ResolvedKey(rotate, hosts, keys, k)
    BY <1>1, <1>3
  <2>2. CASE k \in hosts \ rotate
    <3>1. s = keys.node_keys[k] /\ k # h
      BY <1>2, <1>3, <1>10, <2>1, <2>2 DEF ResolvedKey
    <3> QED BY <1>3, <1>7, <1>9, <2>2, <3>1
  <2>3. CASE k \notin hosts \ rotate
    <3>1. s = FreshPrivate(k)
      BY <1>10, <2>1, <2>3 DEF ResolvedKey
    <3> QED BY <1>3, <1>6, <1>7, <3>1
  <2> QED BY <2>2, <2>3
<1>11. ASSUME NEW p \in Hostnames(config), canonical_pair(k, p) \in Edges(config),
              s = next.edge_psks[canonical_pair(k, p)]
       PROVE  FALSE
  <2> DEFINE e == canonical_pair(k, p)
  <2>1. e \in Edges(config) /\ s = ResolvedPsk(rotate, hosts, edges, keys, e)
    BY <1>1, <1>11
  <2>2. e[1] \in Hostnames(config) /\ e[2] \in Hostnames(config)
    BY <1>2, <2>1 DEF EdgeAmong
  <2> HIDE DEF e
  <2>3. CASE e[1] \in hosts \ rotate /\ e[2] \in hosts \ rotate /\ e \in edges
    <3>1. s = keys.edge_psks[e]
      BY <2>1, <2>3 DEF ResolvedPsk
    <3>2. e[1] # h /\ e[2] # h
      BY <1>2, <2>2, <2>3
    <3>3. ASSUME NEW q \in hosts, canonical_pair(h, q) = e PROVE FALSE
      <4>1. e[1] = h \/ e[2] = h
        BY <1>3, <3>3 DEF canonical_pair
      <4> QED BY <3>2, <4>1
    <3> QED BY <1>3, <1>7, <1>9, <2>3, <3>1, <3>3
  <2>4. CASE ~(e[1] \in hosts \ rotate /\ e[2] \in hosts \ rotate /\ e \in edges)
    <3>1. s = FreshPsk(e)
      BY <2>1, <2>4 DEF ResolvedPsk
    <3> QED BY <1>3, <1>6, <1>7, <3>1
  <2> QED BY <2>3, <2>4
<1> QED BY <1>8, <1>10, <1>11

\* What a publication is, in terms of generations.
Replaces(new, config, rotate, hosts, edges, keys) ==
  /\ Generation(files, hosts, edges, keys, runs)
  /\ TopologyConfig(config)
  /\ Generation(new, Hostnames(config), Edges(config),
                resolve_keys(config, old_configs(config), rotate), runs + 1)

\* Every step that changes the files is one.
LEMMA StepReplaces ==
  ASSUME Inv, [Next]_vars
  PROVE  \/ files' = files /\ (rotated' = {} \/ UNCHANGED vars)
         \/ \E config, hosts, edges, keys :
              Replaces(files', config, rotated', hosts, edges, keys)
<1>1. PICK hosts, edges, keys : Generation(files, hosts, edges, keys, runs)
  BY DEF Inv, IsGeneration
<1>2. CASE UNCHANGED vars
  BY <1>2 DEF vars
<1>3. ASSUME NEW config \in Topologies, NEW raw \in RotateFlags, Refused(config, raw)
      PROVE  files' = files /\ rotated' = {}
  BY <1>3 DEF Refused
<1>4. ASSUME NEW config \in Topologies, NEW raw \in RotateFlags, Published(config, raw)
      PROVE  Replaces(files', config, rotated', hosts, edges, keys)
  <2> DEFINE rotate == UNION parse_rotate(raw, Hostnames(config))
             next   == resolve_keys(config, old_configs(config), rotate)
             new    == [h \in Hostnames(config) |-> RenderedFile(config, next, h)]
  <2>1. files' = new /\ rotated' = rotate /\ Result(config, raw) = "Published"
    BY <1>4 DEF Published
  <2>2. Generation(new, Hostnames(config), Edges(config), next, runs + 1)
    BY <1>1, <2>1, NewGeneration
  <2>3. TopologyConfig(config)
    BY KeyPlanAssumption
  <2> HIDE DEF new, rotate
  <2> QED BY <1>1, <2>1, <2>2, <2>3 DEF Replaces
<1> QED BY <1>2, <1>3, <1>4 DEF Next, Apply

\* A publication leaves the keys of the nodes it does not rotate, and those
\* between them, as they were (resolve_keys).
THEOREM KeysAlwaysSurvive == Spec => KeysSurvive
<1>1. Inv /\ [Next]_vars =>
        [\A a, b \in (DOMAIN files \cap DOMAIN files') \ rotated' :
           /\ PrivateKey(files', a) = PrivateKey(files, a)
           /\ a # b /\ Psks(files, a, b) # {} /\ Psks(files', a, b) # {}
                => Psks(files', a, b) = Psks(files, a, b)]_vars
  <2> SUFFICES ASSUME Inv, [Next]_vars,
                      NEW a \in (DOMAIN files \cap DOMAIN files') \ rotated',
                      NEW b \in (DOMAIN files \cap DOMAIN files') \ rotated'
               PROVE  /\ PrivateKey(files', a) = PrivateKey(files, a)
                      /\ a # b /\ Psks(files, a, b) # {} /\ Psks(files', a, b) # {}
                           => Psks(files', a, b) = Psks(files, a, b)
    OBVIOUS
  <2>1. CASE files' = files
    BY <2>1
  <2>2. ASSUME NEW config, NEW hosts, NEW edges, NEW keys,
               Replaces(files', config, rotated', hosts, edges, keys)
        PROVE  /\ PrivateKey(files', a) = PrivateKey(files, a)
               /\ a # b /\ Psks(files, a, b) # {} /\ Psks(files', a, b) # {}
                    => Psks(files', a, b) = Psks(files, a, b)
    BY <2>2, KeptKeys DEF Replaces
  <2> QED BY <2>1, <2>2, StepReplaces
<1> QED BY <1>1, AlwaysInv, PTL DEF Spec, KeysSurvive

\* No secret of a node that a publication rotates or leaves out is in any of
\* the files it publishes (resolve_keys under --rotate).
THEOREM RotationAlwaysRetires == Spec => RotationRetires
<1>1. Inv /\ [Next]_vars =>
        [\A h \in DOMAIN files : (h \in rotated' \/ h \notin DOMAIN files') =>
           \A k \in DOMAIN files' : Secrets(files, h) \cap Secrets(files', k) = {}]_vars
  <2> SUFFICES ASSUME Inv, [Next]_vars, ~UNCHANGED vars,
                      NEW h \in DOMAIN files, h \in rotated' \/ h \notin DOMAIN files',
                      NEW k \in DOMAIN files'
               PROVE  Secrets(files, h) \cap Secrets(files', k) = {}
    OBVIOUS
  <2>1. ASSUME NEW config, NEW hosts, NEW edges, NEW keys,
               Replaces(files', config, rotated', hosts, edges, keys)
        PROVE  Secrets(files, h) \cap Secrets(files', k) = {}
    BY <2>1, RetiredKeys DEF Replaces
  <2> QED BY <2>1, StepReplaces
<1> QED BY <1>1, AlwaysInv, PTL DEF Spec, RotationRetires
=============================================================================
