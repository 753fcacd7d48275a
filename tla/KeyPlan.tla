------------------------------ MODULE KeyPlan ------------------------------
(***************************************************************************)
(* What `wg-server apply` writes, run after run: each run takes a topology *)
(* and a selection of nodes to rotate, recovers the keys in use from the   *)
(* files of the current generation, draws the others, renders one file per *)
(* node, and publishes them as the next generation unless nothing changed. *)
(*                                                                         *)
(* How a generation gets published, atomically and against other jobs, is  *)
(* the subject of module Publish; here a run is one step.  A dry run       *)
(* changes nothing and is left out.                                        *)
(***************************************************************************)
EXTENDS Render

CONSTANTS
  Topologies,    \* topologies the operator writes
  RotateFlags,   \* values of the repeated --rotate flag, Bare for none
  Bare,          \* --rotate without a hostname
  MaxRuns        \* bound: runs in a behaviour

ASSUME KeyPlanAssumption ==
  /\ \A config \in Topologies : TopologyConfig(config)
  /\ MaxRuns \in Nat

VARIABLES
  files,     \* the current generation: its file for each of its nodes
  topology,  \* the topology it was rendered from
  runs,      \* how many runs there were
  rotated,   \* the nodes that the last run rotated
  outcome    \* what it reported

vars == <<files, topology, runs, rotated, outcome>>

Empty == [h \in {} |-> <<>>]

Init ==
  /\ files = Empty
  /\ topology = {}
  /\ runs = 0
  /\ rotated = {}
  /\ outcome = "None"

(***************************************************************************)
(* The --rotate flag.                                                      *)
(***************************************************************************)
\* The nodes to rotate, as a set, empty when the flags contradict.
parse_rotate(raw, hosts) ==
  IF Bare \notin ToSet(raw) THEN {ToSet(raw)}
  ELSE IF ToSet(raw) = {Bare} THEN {hosts} ELSE {}

(***************************************************************************)
(* Key resolution.                                                         *)
(***************************************************************************)
\* Keys drawn from the operating system by this run.
FreshPrivate(h) == <<"private", h, runs + 1>>

\* Mutant: one preshared key for all the edges of a run.
FreshPskShared(e) == <<"psk", runs + 1>>

FreshPsk(e) == <<"psk", e, runs + 1>>

old_configs(config) ==
  [h \in Hostnames(config) \cap DOMAIN files |-> parse_wg_quick(files[h])]

\* Mutant: --rotate is ignored.
IsFreshOnlyNew(old, rotate, h) == h \notin DOMAIN old

IsFresh(old, rotate, h) == h \in rotate \/ h \notin DOMAIN old

NodeKey(old, rotate, h) ==
  IF IsFresh(old, rotate, h) THEN FreshPrivate(h)
  ELSE (CHOOSE cfg \in old[h] : TRUE).interface.private_key

\* The preshared key that the file of a node has for a public key.
PeerRecord(old, h, public) ==
  LET peers == (CHOOSE cfg \in old[h] : TRUE).peers
  IN  {p.preshared_key : p \in {q \in ToSet(peers) : q.public_key = public}}

\* Mutant: the second node of an edge counts as fresh only if it is new.
EdgeIsFreshLeft(old, rotate, e) == IsFresh(old, rotate, e[1]) \/ e[2] \notin DOMAIN old

EdgeIsFresh(old, rotate, e) == IsFresh(old, rotate, e[1]) \/ IsFresh(old, rotate, e[2])

\* Does a pair of nodes that keep their keys have one preshared key on record,
\* or none at all?
EdgeResult(old, rotate, e) ==
  LET a == PeerRecord(old, e[1], Public(NodeKey(old, rotate, e[2])))
      b == PeerRecord(old, e[2], Public(NodeKey(old, rotate, e[1])))
  IN  IF EdgeIsFresh(old, rotate, e) \/ (a = {} /\ b = {}) THEN "Fresh"
      ELSE IF a = {} \/ b = {} THEN "OneSidedEdge"
      ELSE IF a = b THEN "Reused" ELSE "ConflictingPsk"

\* Mutant: every run draws the preshared keys anew.
EdgePskFresh(old, rotate, e) == FreshPsk(e)

EdgePsk(old, rotate, e) ==
  IF EdgeResult(old, rotate, e) = "Reused"
  THEN CHOOSE psk \in PeerRecord(old, e[1], Public(NodeKey(old, rotate, e[2]))) : TRUE
  ELSE FreshPsk(e)

resolve_keys(config, old, rotate) ==
  [node_keys |-> [h \in Hostnames(config) |-> NodeKey(old, rotate, h)],
   edge_psks |-> [e \in Edges(config) |-> EdgePsk(old, rotate, e)]]

(***************************************************************************)
(* One run.                                                                *)
(***************************************************************************)
Rendered(config, keys) ==
  [h \in Hostnames(config) |-> render_node_config(config, keys, h)]

\* Mutant: hostnames given to --rotate are not looked up.
RotateAny(rotate, hosts) == TRUE

RotateKnown(rotate, hosts) == rotate \subseteq hosts

\* What a run with these arguments reports.  (Of several edges that are wrong
\* the code reports the first.)
Result(config, raw) ==
  LET hosts  == Hostnames(config)
      rotate == UNION parse_rotate(raw, hosts)
      old    == old_configs(config)
      edges  == {EdgeResult(old, rotate, e) : e \in Edges(config)}
      new    == Rendered(config, resolve_keys(config, old, rotate))
  IN  IF parse_rotate(raw, hosts) = {} THEN "RotateFlags"
      ELSE IF ~validate(config) THEN "Validation"
      ELSE IF ~RotateKnown(rotate, hosts) THEN "UnknownRotateHostname"
      ELSE IF {} \in ToSet(old) THEN "UnparsableCurrentConfig"
      ELSE IF "ConflictingPsk" \in edges THEN "ConflictingPsk"
      ELSE IF "OneSidedEdge" \in edges THEN "OneSidedEdge"
      ELSE IF {} \in ToSet(new) THEN "Render"
      ELSE IF new = [h \in DOMAIN files |-> {files[h]}] THEN "Unchanged"
      ELSE "Published"

\* A run that ends without a new generation.
Refused(config, raw) ==
  /\ runs < MaxRuns
  /\ outcome' = Result(config, raw)
  /\ outcome' # "Published"
  /\ runs' = runs + 1
  /\ rotated' = {}
  /\ UNCHANGED <<files, topology>>

Published(config, raw) ==
  LET rotate == UNION parse_rotate(raw, Hostnames(config))
      keys   == resolve_keys(config, old_configs(config), rotate)
  IN  /\ runs < MaxRuns
      /\ Result(config, raw) = "Published"
      /\ files' = [h \in Hostnames(config) |-> RenderedFile(config, keys, h)]
      /\ topology' = {config}
      /\ rotated' = rotate
      /\ outcome' = "Published"
      /\ runs' = runs + 1

Apply(config, raw) == Refused(config, raw) \/ Published(config, raw)

Next == \E config \in Topologies, raw \in RotateFlags : Apply(config, raw)

Spec == Init /\ [][Next]_vars

-----------------------------------------------------------------------------
ParsedFile(fs, h) == CHOOSE cfg \in parse_wg_quick(fs[h]) : TRUE

PrivateKey(fs, h) == ParsedFile(fs, h).interface.private_key

\* The preshared keys that the file of a has for b.
Psks(fs, a, b) ==
  {p.preshared_key : p \in {q \in ToSet(ParsedFile(fs, a).peers) :
                              q.public_key = Public(PrivateKey(fs, b))}}

Secrets(fs, h) ==
  {PrivateKey(fs, h)} \cup {p.preshared_key : p \in ToSet(ParsedFile(fs, h).peers)}

TypeOK ==
  /\ DOMAIN files \subseteq ValidHostnames
  /\ topology \subseteq Topologies /\ Cardinality(topology) <= 1
  /\ runs \in 0 .. MaxRuns
  /\ rotated \subseteq DOMAIN files
  /\ outcome \in {"None", "Validation", "RotateFlags", "UnknownRotateHostname",
                  "UnparsableCurrentConfig", "ConflictingPsk", "OneSidedEdge",
                  "Render", "Unchanged", "Published"}

\* Whatever topologies and rotations came before, the generation that was
\* published never stops a later run: every file of it parses, each pair of
\* nodes agrees on its preshared key, and whatever validate accepts renders, as
\* long as the files are within the limit of their size.
\* (fetch_reusable_configs, resolve_keys and render_node_config, which refuse
\* to go on otherwise, so that the fleet could not be changed any more.)
NeverStuck ==
  outcome \notin {"UnparsableCurrentConfig", "ConflictingPsk", "OneSidedEdge", "Render"}

\* In the current generation the two files of an edge name each other's keys
\* and one preshared key that no other pair has, and the nodes that share no
\* edge know nothing of each other.  (resolve_keys, render_node_config.)
PairsAgree ==
  \A config \in topology : \A a, b \in DOMAIN files : a # b =>
    LET both == Psks(files, a, b)
    IN  /\ both = Psks(files, b, a)
        /\ Cardinality(both) = IF canonical_pair(a, b) \in Edges(config) THEN 1 ELSE 0
        /\ PrivateKey(files, a) # PrivateKey(files, b)
        /\ \A c, d \in DOMAIN files :
             {a, b} # {c, d} /\ c # d => both \cap Psks(files, c, d) = {}

\* A new generation leaves the keys of the nodes it does not rotate, and the
\* preshared keys between them, as they were, so that nodes which have not
\* synchronized yet and nodes which have can still talk.  (resolve_keys.)
KeysSurvive ==
  [][\A a, b \in (DOMAIN files \cap DOMAIN files') \ rotated' :
       /\ PrivateKey(files', a) = PrivateKey(files, a)
       /\ a # b /\ Psks(files, a, b) # {} /\ Psks(files', a, b) # {}
            => Psks(files', a, b) = Psks(files, a, b)]_vars

\* No secret of a node that a new generation rotates or leaves out is in any
\* file of that generation.  (resolve_keys under --rotate.)
RotationRetires ==
  [][\A h \in DOMAIN files : (h \in rotated' \/ h \notin DOMAIN files') =>
       \A k \in DOMAIN files' : Secrets(files, h) \cap Secrets(files', k) = {}]_vars

=============================================================================
