-------------------------- MODULE AlgorithmProofs --------------------------
(***************************************************************************)
(* Proofs about the algorithms: the client's route preflight against the   *)
(* kernel's lookup, the scan for duplicate keys against the document, the  *)
(* rendered files against the validated topology, and the encoding of      *)
(* identifiers against the numbers they stand for.                         *)
(***************************************************************************)
EXTENDS MCAlgorithms, RenderProofs

(***************************************************************************)
(* The preflight.                                                          *)
(***************************************************************************)
\* A routing table: a route has at most one outgoing interface.
IsTable(routes) ==
  \A r \in routes : /\ r.net \in Ipv4Net
                    /\ \A i, j \in r.oif : i = j

\* After an installation that the preflight let through, the longest matching
\* prefix leads no address that recovery needs into the tunnel alone, for every
\* configuration, answer of the resolver and table (check_inner).
THEOREM PreflightSparesProtected ==
  ASSUME NEW cfg, NEW resolver, NEW storage, NEW routes, NEW managed,
         check(cfg, resolver, storage, routes, managed),
         NEW x \in Protected(cfg, resolver, storage)
  PROVE  Leaves(Installed(cfg, routes, managed), x) # {managed}
<1> DEFINE after == Installed(cfg, routes, managed)
<1> SUFFICES ASSUME Leaves(after, x) = {managed} PROVE FALSE
  OBVIOUS
<1>1. PICK r \in Best(after, x) : managed \in r.oif
  BY DEF Leaves
<1>2. r.oif = {managed}
  BY <1>1 DEF Leaves
<1>3. r \in after /\ Within(x, net_range(r.net))
  BY <1>1 DEF Best
<1>4. r.net \in candidate_routes(cfg)
  BY <1>2, <1>3 DEF Installed
<1> QED BY <1>3, <1>4 DEF check

\* After such an installation an address that another interface had a route of
\* its own for still leaves through that route and not through the tunnel, for
\* every configuration and table (list_ipv4_routes and nets_overlap).
THEOREM PreflightSparesOthers ==
  ASSUME NEW cfg, NEW resolver, NEW storage, NEW routes, NEW managed,
         check(cfg, resolver, storage, routes, managed),
         IsTable(routes), candidate_routes(cfg) \subseteq Ipv4Net,
         NEW x \in Nat, NEW r \in Best(routes, x),
         r.net.len # 0, r.oif # {}, r.oif # {managed}
  PROVE  /\ r \in Best(Installed(cfg, routes, managed), x)
         /\ managed \notin Leaves(Installed(cfg, routes, managed), x)
<1> DEFINE after == Installed(cfg, routes, managed)
<1>1. /\ r \in routes /\ r.table = "main" /\ Within(x, net_range(r.net))
      /\ \A o \in routes : o.table = "main" /\ Within(x, net_range(o.net))
           => o.net.len < r.net.len \/ (o.net.len = r.net.len /\ r.metric <= o.metric)
  BY DEF Best
<1>2. PICK i : r.oif = {i} /\ i # managed
  BY <1>1 DEF IsTable
<1>3. <<r.net, i>> \in list_ipv4_routes(routes)
  BY <1>1, <1>2 DEF list_ipv4_routes
<1>4. \A c \in candidate_routes(cfg) : ~nets_overlap(c, r.net)
  BY <1>2, <1>3 DEF check
<1>5. \A c \in candidate_routes(cfg) : ~Within(x, net_range(c))
  BY <1>1, <1>4, OverlapComplete DEF IsTable
<1>6. \A o \in after : Within(x, net_range(o.net)) => o \in routes /\ o.oif # {managed}
  BY <1>5 DEF Installed
<1>7. r \in after
  BY <1>1, <1>5 DEF Installed
<1>8. r \in Best(after, x)
  BY <1>1, <1>6, <1>7 DEF Best
<1>9. managed \notin Leaves(after, x)
  <2> SUFFICES ASSUME NEW o \in Best(after, x), managed \in o.oif PROVE FALSE
    BY DEF Leaves
  <2>1. o \in routes /\ o.oif # {managed}
    BY <1>6 DEF Best
  <2> QED BY <2>1 DEF IsTable
<1> QED BY <1>8, <1>9

\* The networks of the run are networks.
LEMMA NetsTyped ==
  ASSUME Width >= 3
  PROVE  \A a \in 0 .. 7, n \in 0 .. 3 : Net(a, n) \in Ipv4Net
<1>1. 2^Width \in Nat /\ 2^Width >= 8
  <2>0. ASSUME NEW k \in Nat PROVE IsFiniteSet(1 .. k) /\ Cardinality(1 .. k) = k
    BY FS_Interval
  <2>1. /\ IsFiniteSet(1 .. Width) /\ Cardinality(1 .. Width) = Width
        /\ IsFiniteSet(1 .. 3) /\ Cardinality(1 .. 3) = 3
    BY <2>0, WidthAssumption
  <2>2. /\ IsFiniteSet(SUBSET (1 .. Width)) /\ Cardinality(SUBSET (1 .. Width)) = 2^Width
        /\ Cardinality(SUBSET (1 .. 3)) = 2^3
    BY <2>1, FS_SUBSET
  <2>3. SUBSET (1 .. 3) \subseteq SUBSET (1 .. Width)
    BY WidthAssumption
  <2>4. /\ Cardinality(SUBSET (1 .. 3)) <= Cardinality(SUBSET (1 .. Width))
        /\ Cardinality(SUBSET (1 .. Width)) \in Nat
    BY <2>2, <2>3, FS_Subset, FS_CardinalityType
  <2> QED BY <2>2, <2>4
<1> QED BY <1>1, WidthAssumption DEF Net, Ipv4Net, Addresses

\* The inputs of the run are tables and configurations in this sense.
LEMMA InputsTyped ==
  ASSUME Width >= 3, NEW p \in PreflightInputs
  PROVE  IsTable(p.routes) /\ candidate_routes(p.cfg) \subseteq Ipv4Net
<1>2. \A a \in 0 .. 7, n \in 0 .. 3 : Net(a, n) \in Ipv4Net
  BY NetsTyped
<1>3. \A r \in KernelRoutes : r.net \in Ipv4Net /\ \A i, j \in r.oif : i = j
  BY <1>2 DEF KernelRoutes
<1>4. p.routes \subseteq KernelRoutes /\ p.cfg \in Candidates
  BY DEF PreflightInputs
<1>5. PICK nets \in {<<Net(2, 3)>>, <<Net(2, 3), Net(4, 1)>>, <<Net(6, 2)>>, <<Net(4, 2)>>},
           ep \in {{Endpoint}, {[Endpoint EXCEPT !.form = "bracketed"]}},
           dns \in {{}, {[family |-> "v4", addr |-> 4]}, {[family |-> "v6", addr |-> 4]}} :
        p.cfg = Candidate(nets, ep, dns)
  BY <1>4 DEF Candidates
<1>6. candidate_routes(p.cfg) = ToSet(nets)
  BY <1>5 DEF candidate_routes, Candidate, ToSet
<1>7. ToSet(nets) \subseteq Ipv4Net
  BY <1>2, <1>5 DEF ToSet
<1> QED BY <1>3, <1>4, <1>6, <1>7 DEF IsTable

\* For addresses of any width of at least the run's, every configuration that
\* passes the preflight keeps recovery and the other interfaces reachable.
THEOREM PreflightHolds == Width >= 3 => (Spec => []PreflightProtects)
<1> DEFINE InputOK == input.of = "check" => input.arg \in PreflightInputs
<1>1. Init => InputOK
  BY DEF Init
<1>2. InputOK /\ [Next]_<<input, jsonVars>> => InputOK'
  BY DEF Next
<1>3. ASSUME Width >= 3 PROVE InputOK => PreflightProtects
  <2> SUFFICES ASSUME InputOK, input.of = "check",
                      check(input.arg.cfg, input.arg.resolver, "storage",
                            input.arg.routes, "wg0")
               PROVE  PreflightProtects
    BY DEF PreflightProtects
  <2>1. IsTable(input.arg.routes) /\ candidate_routes(input.arg.cfg) \subseteq Ipv4Net
    BY <1>3, InputsTyped
  <2>2. Addresses \subseteq Nat
    BY PowerOfTwo, WidthAssumption DEF Addresses
  <2>3. \A x \in Protected(input.arg.cfg, input.arg.resolver, "storage") :
          Leaves(Installed(input.arg.cfg, input.arg.routes, "wg0"), x) # {"wg0"}
    BY PreflightSparesProtected
  <2>4. \A x \in Addresses : \A r \in Best(input.arg.routes, x) :
          r.net.len # 0 /\ r.oif \notin {{}, {"wg0"}} =>
            /\ r \in Best(Installed(input.arg.cfg, input.arg.routes, "wg0"), x)
            /\ "wg0" \notin Leaves(Installed(input.arg.cfg, input.arg.routes, "wg0"), x)
    BY <2>1, <2>2, PreflightSparesOthers
  <2> QED BY <2>3, <2>4 DEF PreflightProtects
<1>4. ASSUME Width >= 3 PROVE Spec => []PreflightProtects
  <2>1. InputOK => PreflightProtects
    BY <1>3, <1>4
  <2> QED BY <1>1, <1>2, <2>1, PTL DEF Spec
<1> QED BY <1>4

-----------------------------------------------------------------------------
(***************************************************************************)
(* The scan for duplicate keys.  While it goes on, the scanner's stack is  *)
(* the open values of the document without the root: of the same kinds,    *)
(* with a key expected where the grammar allows one, and, as long as all   *)
(* is spelled plainly, with the keys that the object has so far.           *)
(***************************************************************************)
Grammar ==
  [kind: {"root"}, at: {"value", "next"}, keys: {{}}]
    \cup [kind: {"array"}, at: {"first", "value", "next"}, keys: {{}}]
    \cup [kind: {"object"}, at: {"first", "key", "colon", "value", "next"},
          keys: SUBSET (Letters \X BOOLEAN)]

Ctx == [kind: {"array", "object"}, seen: SUBSET Letters, expect_key: BOOLEAN]

JsonTypeOK ==
  /\ doc \in Seq(Grammar) /\ Len(doc) >= 1
  /\ \A i \in 1 .. Len(doc) : doc[i].kind = "root" <=> i = 1
  /\ stack \in Seq(Ctx)
  /\ found \in {"none", "duplicate"}
  /\ dup \in BOOLEAN /\ plain \in BOOLEAN

\* An open value as the scanner sees it.
SeesKind(c, v) ==
  /\ c.kind = v.kind
  /\ c.expect_key <=> v.kind = "object" /\ v.at \in {"first", "key"}

SeesKeys(c, v) == \A l \in Letters, e \in BOOLEAN : <<l, e>> \in v.keys <=> ~e /\ l \in c.seen

Aligned ==
  /\ Len(stack) = Len(doc) - 1
  /\ \A i \in 1 .. Len(stack) : SeesKind(stack[i], doc[i + 1])
  /\ plain => \A i \in 1 .. Len(stack) : SeesKeys(stack[i], doc[i + 1])

JsonInv ==
  /\ JsonTypeOK
  /\ found = "none" => Aligned
  /\ plain => (found = "duplicate" <=> dup)

\* A sequence without its last element.
LEMMA FrontLast ==
  ASSUME NEW S, NEW s \in Seq(S), Len(s) >= 1
  PROVE  /\ Front(s) \in Seq(S) /\ Len(Front(s)) = Len(s) - 1
         /\ \A i \in 1 .. Len(s) - 1 : Front(s)[i] = s[i]
         /\ Last(s) \in S /\ Last(s) = s[Len(s)]
<1>1. PICK m \in Nat : m = Len(s) - 1
  OBVIOUS
<1>2. \A i \in 1 .. m : s[i] \in S
  BY <1>1
<1>3. /\ SubSeq(s, 1, m) \in Seq(S)
      /\ Len(SubSeq(s, 1, m)) = IF 1 <= m THEN m - 1 + 1 ELSE 0
      /\ \A i \in 1 .. m - 1 + 1 : SubSeq(s, 1, m)[i] = s[1 + i - 1]
  <2>1. 1 \in Int /\ m \in Int
    OBVIOUS
  <2> QED BY <1>2, <2>1, SubSeqProperties
<1>4. /\ SubSeq(s, 1, m) \in Seq(S) /\ Len(SubSeq(s, 1, m)) = m
      /\ \A i \in 1 .. m : SubSeq(s, 1, m)[i] = s[i]
  BY <1>3
<1> QED BY <1>1, <1>4 DEF Front, Last

\* The last element of a sequence replaced.
LEMMA ReplacedLast ==
  ASSUME NEW S, NEW s \in Seq(S), Len(s) >= 1, NEW e \in S
  PROVE  /\ Replaced(s, e) \in Seq(S)
         /\ Len(Replaced(s, e)) = Len(s)
         /\ Replaced(s, e)[Len(s)] = e
         /\ \A i \in 1 .. Len(s) - 1 : Replaced(s, e)[i] = s[i]
<1>1. /\ Front(s) \in Seq(S) /\ Len(Front(s)) = Len(s) - 1
      /\ \A i \in 1 .. Len(s) - 1 : Front(s)[i] = s[i]
  BY FrontLast
<1> QED BY <1>1 DEF Replaced

\* The same of a document's innermost open value.
LEMMA ReplacedDoc ==
  ASSUME doc \in Seq(Grammar), Len(doc) >= 1, NEW e \in Grammar
  PROVE  /\ Replaced(doc, e) \in Seq(Grammar)
         /\ Len(Replaced(doc, e)) = Len(doc)
         /\ Replaced(doc, e)[Len(doc)] = e
         /\ \A i \in 1 .. Len(doc) - 1 : Replaced(doc, e)[i] = doc[i]
BY ReplacedLast, SMTT(20)

\* The scanner starts with nothing open but the root.
LEMMA JsonInitInv == JsonInit => JsonInv
<1> SUFFICES ASSUME JsonInit PROVE JsonInv
  OBVIOUS
<1> DEFINE root == [kind |-> "root", at |-> "value", keys |-> {}]
<1>1. root \in Grammar /\ root.kind = "root"
  BY DEF Grammar
<1>2. doc = <<root>> /\ stack = <<>> /\ found = "none" /\ dup = FALSE /\ plain = TRUE
  BY DEF JsonInit
<1> HIDE DEF root
<1>3. doc \in Seq(Grammar) /\ Len(doc) = 1 /\ doc[1] = root /\ stack \in Seq(Ctx) /\ Len(stack) = 0
  BY <1>1, <1>2
<1>4. JsonTypeOK
  <2>1. \A i \in 1 .. Len(doc) : doc[i].kind = "root" <=> i = 1
    BY <1>1, <1>3
  <2>2. dup \in BOOLEAN /\ plain \in BOOLEAN /\ found \in {"none", "duplicate"}
    BY <1>2, Zenon
  <2>3. Len(doc) >= 1
    BY <1>3
  <2> QED BY <1>3, <2>1, <2>2, <2>3, Zenon DEF JsonTypeOK
<1>5. Aligned
  BY <1>3 DEF Aligned
<1> QED BY <1>2, <1>4, <1>5 DEF JsonInv

\* What the state holds while the scan goes on.
LEMMA Scanning ==
  ASSUME JsonInv, found = "none"
  PROVE  /\ doc \in Seq(Grammar) /\ Len(doc) \in Nat /\ Len(doc) >= 1
         /\ Last(doc) = doc[Len(doc)] /\ Last(doc) \in Grammar
         /\ Last(doc).kind = "root" <=> Len(doc) = 1
         /\ stack \in Seq(Ctx) /\ Len(stack) = Len(doc) - 1
         /\ Len(doc) > 1 => /\ stack # <<>>
                            /\ Last(stack) = stack[Len(stack)] /\ Last(stack) \in Ctx
                            /\ SeesKind(Last(stack), Last(doc))
                            /\ plain => SeesKeys(Last(stack), Last(doc))
         /\ plain => ~dup
<1>1. /\ doc \in Seq(Grammar) /\ Len(doc) \in Nat /\ Len(doc) >= 1
      /\ stack \in Seq(Ctx) /\ Len(stack) = Len(doc) - 1
      /\ plain => ~dup
  BY DEF JsonInv, JsonTypeOK, Aligned
<1>2. /\ Last(doc) = doc[Len(doc)] /\ Last(doc) \in Grammar
      /\ Last(doc).kind = "root" <=> Len(doc) = 1
  <2>1. Last(doc) = doc[Len(doc)] /\ Last(doc) \in Grammar
    BY <1>1, FrontLast
  <2>2. Len(doc) \in 1 .. Len(doc)
    BY <1>1
  <2> QED BY <2>1, <2>2 DEF JsonInv, JsonTypeOK
<1>3. ASSUME Len(doc) > 1
      PROVE  /\ stack # <<>>
             /\ Last(stack) = stack[Len(stack)] /\ Last(stack) \in Ctx
             /\ SeesKind(Last(stack), Last(doc))
             /\ plain => SeesKeys(Last(stack), Last(doc))
  <2>1. Len(stack) >= 1 /\ Len(stack) \in 1 .. Len(stack) /\ Len(stack) + 1 = Len(doc)
    BY <1>1, <1>3
  <2>2. Last(stack) = stack[Len(stack)] /\ Last(stack) \in Ctx
    BY <1>1, <2>1, FrontLast
  <2> QED BY <1>2, <2>1, <2>2 DEF JsonInv, Aligned
<1> QED BY <1>1, <1>2, <1>3

\* A step that changes only the innermost open value, and goes on.
LEMMA TopInv ==
  ASSUME JsonInv, found = "none", found' = "none",
         NEW v \in Grammar, doc' = Replaced(doc, v), v.kind = Last(doc).kind,
         stack' \in Seq(Ctx), Len(stack') = Len(stack),
         \A i \in 1 .. Len(stack) - 1 : stack'[i] = stack[i],
         Len(doc) > 1 => /\ SeesKind(stack'[Len(stack)], v)
                         /\ plain' => SeesKeys(stack'[Len(stack)], v),
         dup' \in BOOLEAN, plain' \in BOOLEAN, plain' => plain /\ ~dup'
  PROVE  JsonInv'
<1>1. /\ doc \in Seq(Grammar) /\ Len(doc) \in Nat /\ Len(doc) >= 1
      /\ Last(doc) = doc[Len(doc)]
      /\ Last(doc).kind = "root" <=> Len(doc) = 1
      /\ stack \in Seq(Ctx) /\ Len(stack) = Len(doc) - 1
  BY Scanning
<1>2. /\ doc' \in Seq(Grammar) /\ Len(doc') = Len(doc) /\ doc'[Len(doc)] = v
      /\ \A i \in 1 .. Len(doc) - 1 : doc'[i] = doc[i]
  <2>1. /\ Replaced(doc, v) \in Seq(Grammar) /\ Len(Replaced(doc, v)) = Len(doc)
        /\ Replaced(doc, v)[Len(doc)] = v
        /\ \A i \in 1 .. Len(doc) - 1 : Replaced(doc, v)[i] = doc[i]
    BY <1>1, ReplacedDoc
  <2> QED BY <2>1, Zenon
<1>3. JsonTypeOK'
  BY <1>1, <1>2 DEF JsonInv, JsonTypeOK
<1>4. ASSUME NEW i \in 1 .. Len(stack')
      PROVE  /\ SeesKind(stack'[i], doc'[i + 1])
             /\ plain' => SeesKeys(stack'[i], doc'[i + 1])
  <2>1. CASE i = Len(stack)
    BY <2>1, <1>1, <1>2
  <2>2. CASE i < Len(stack)
    <3>1. /\ i \in 1 .. Len(stack) /\ stack'[i] = stack[i] /\ doc'[i + 1] = doc[i + 1]
      BY <1>1, <1>2, <2>2, SMTT(40)
    <3> QED BY <3>1 DEF JsonInv, Aligned
  <2> QED BY <1>1, <2>1, <2>2
<1>5. Aligned'
  BY <1>1, <1>2, <1>4 DEF Aligned, SeesKind, SeesKeys
<1> QED BY <1>3, <1>5 DEF JsonInv

\* An object or an array is opened on both sides.
LEMMA OpenInv ==
  ASSUME JsonInv, NEW kind \in {"object", "array"}, Open(kind)
  PROVE  JsonInv'
<1> DEFINE v == [Last(doc) EXCEPT !.at = "next"]
           o == [kind |-> kind, at |-> "first", keys |-> {}]
           c == [kind |-> kind, seen |-> {}, expect_key |-> kind = "object"]
<1>0. /\ found = "none" /\ UNCHANGED <<found, dup, plain>> /\ ValueExpected
      /\ doc' = Append(Filled, o) /\ stack' = Append(stack, c)
  BY DEF Open, Token
<1>1. /\ doc \in Seq(Grammar) /\ Len(doc) \in Nat /\ Len(doc) >= 1
      /\ Last(doc) = doc[Len(doc)] /\ Last(doc) \in Grammar
      /\ Last(doc).kind = "root" <=> Len(doc) = 1
      /\ stack \in Seq(Ctx) /\ Len(stack) = Len(doc) - 1
  BY <1>0, Scanning
<1>2. v \in Grammar /\ v.kind = Last(doc).kind /\ v.keys = Last(doc).keys /\ v.at = "next"
  BY <1>1 DEF Grammar
<1>3. /\ o \in Grammar /\ c \in Ctx /\ o.kind # "root"
      /\ SeesKind(c, o) /\ SeesKeys(c, o)
  BY DEF Grammar, Ctx, SeesKind, SeesKeys
<1>4. \A d : /\ SeesKind(d, Last(doc)) => SeesKind(d, v)
             /\ SeesKeys(d, Last(doc)) => SeesKeys(d, v)
  BY <1>0, <1>1, <1>2 DEF SeesKind, SeesKeys, ValueExpected
<1> HIDE DEF v, o, c
<1>5. /\ Filled \in Seq(Grammar) /\ Len(Filled) = Len(doc) /\ Filled[Len(doc)] = v
      /\ \A i \in 1 .. Len(doc) - 1 : Filled[i] = doc[i]
  <2>1. Filled = Replaced(doc, v)
    BY DEF Filled, v
  <2>2. doc \in Seq(Grammar) /\ Len(doc) >= 1 /\ v \in Grammar
    BY <1>1, <1>2
  <2> QED BY <2>1, <2>2, ReplacedDoc
<1>6. /\ doc' \in Seq(Grammar) /\ Len(doc') = Len(doc) + 1
      /\ doc'[Len(doc) + 1] = o /\ doc'[Len(doc)] = v
      /\ \A i \in 1 .. Len(doc) - 1 : doc'[i] = doc[i]
  BY <1>0, <1>1, <1>3, <1>5
<1>7. /\ stack' \in Seq(Ctx) /\ Len(stack') = Len(stack) + 1
      /\ stack'[Len(stack) + 1] = c /\ \A i \in 1 .. Len(stack) : stack'[i] = stack[i]
  BY <1>0, <1>1, <1>3
<1>8. JsonTypeOK'
  <2>1. \A i \in 1 .. Len(doc') : doc'[i].kind = "root" <=> i = 1
    BY <1>1, <1>2, <1>3, <1>6, SMTT(40) DEF JsonInv, JsonTypeOK
  <2>2. Len(doc') >= 1
    BY <1>1, <1>6
  <2> QED BY <1>0, <1>6, <1>7, <2>1, <2>2, Zenon DEF JsonInv, JsonTypeOK
<1>9. ASSUME NEW i \in 1 .. Len(stack')
      PROVE  /\ SeesKind(stack'[i], doc'[i + 1])
             /\ plain => SeesKeys(stack'[i], doc'[i + 1])
  <2>1. CASE i = Len(stack) + 1
    <3>1. stack'[i] = c /\ doc'[i + 1] = o
      BY <1>1, <1>6, <1>7, <2>1
    <3> QED BY <1>3, <3>1
  <2>2. CASE i = Len(stack)
    <3>1. i \in 1 .. Len(stack) /\ stack'[i] = stack[i] /\ doc'[i + 1] = v /\ doc[i + 1] = Last(doc)
      BY <1>1, <1>6, <1>7, <2>2
    <3>2. SeesKind(stack[i], doc[i + 1]) /\ (plain => SeesKeys(stack[i], doc[i + 1]))
      BY <1>0, <3>1 DEF JsonInv, Aligned
    <3> QED BY <1>4, <3>1, <3>2
  <2>3. CASE i < Len(stack)
    <3>1. i \in 1 .. Len(stack) /\ stack'[i] = stack[i] /\ doc'[i + 1] = doc[i + 1]
      BY <1>1, <1>6, <1>7, <2>3, SMTT(40)
    <3> QED BY <1>0, <3>1 DEF JsonInv, Aligned
  <2> QED BY <1>1, <1>7, <2>1, <2>2, <2>3
<1>10. Aligned'
  BY <1>0, <1>1, <1>6, <1>7, <1>9, SMTT(40) DEF Aligned, SeesKind, SeesKeys
<1> QED BY <1>0, <1>8, <1>10, Zenon DEF JsonInv

\* What closes is what the scanner has on top of its stack, so that it never
\* takes a document for malformed.
LEMMA CloseInv ==
  ASSUME JsonInv, NEW kind \in {"object", "array"}, Close(kind)
  PROVE  JsonInv'
<1>0. /\ found = "none" /\ UNCHANGED <<dup, plain>> /\ doc' = Front(doc)
      /\ Last(doc).kind = kind
      /\ IF stack # <<>> /\ Last(stack).kind = kind
         THEN stack' = Front(stack) /\ UNCHANGED found
         ELSE found' = "malformed" /\ UNCHANGED stack
  BY DEF Close, Closes, Token
<1>1. /\ doc \in Seq(Grammar) /\ Len(doc) \in Nat /\ Len(doc) > 1
      /\ stack \in Seq(Ctx) /\ Len(stack) = Len(doc) - 1
      /\ stack # <<>> /\ SeesKind(Last(stack), Last(doc))
  BY <1>0, Scanning
<1>2. stack' = Front(stack) /\ UNCHANGED found
  BY <1>0, <1>1 DEF SeesKind
<1>3. /\ doc' \in Seq(Grammar) /\ Len(doc') = Len(doc) - 1
      /\ \A i \in 1 .. Len(doc) - 1 : doc'[i] = doc[i]
  BY <1>0, <1>1, FrontLast, SMTT(40)
<1>4. /\ stack' \in Seq(Ctx) /\ Len(stack') = Len(stack) - 1
      /\ \A i \in 1 .. Len(stack) - 1 : stack'[i] = stack[i]
  BY <1>1, <1>2, FrontLast, SMTT(40)
<1>5. JsonTypeOK'
  <2>1. \A i \in 1 .. Len(doc') : doc'[i].kind = "root" <=> i = 1
    BY <1>1, <1>3 DEF JsonInv, JsonTypeOK
  <2>2. Len(doc') >= 1
    BY <1>1, <1>3
  <2> QED BY <1>0, <1>2, <1>3, <1>4, <2>1, <2>2, Zenon DEF JsonInv, JsonTypeOK
<1>6. ASSUME NEW i \in 1 .. Len(stack')
      PROVE  /\ SeesKind(stack'[i], doc'[i + 1])
             /\ plain => SeesKeys(stack'[i], doc'[i + 1])
  <2>1. i \in 1 .. Len(stack) /\ stack'[i] = stack[i] /\ doc'[i + 1] = doc[i + 1]
    BY <1>1, <1>3, <1>4
  <2> QED BY <1>0, <2>1 DEF JsonInv, Aligned
<1>7. Aligned'
  BY <1>0, <1>1, <1>3, <1>4, <1>6 DEF Aligned, SeesKind, SeesKeys
<1> QED BY <1>0, <1>2, <1>5, <1>7, Zenon DEF JsonInv

\* A token that the scanner passes over.
LEMMA PassedInv ==
  ASSUME JsonInv, found = "none", UNCHANGED <<stack, found, dup>>,
         plain' \in BOOLEAN, plain' => plain,
         NEW at, [Last(doc) EXCEPT !.at = at] \in Grammar,
         doc' = Replaced(doc, [Last(doc) EXCEPT !.at = at]),
         Last(doc).kind = "object" => at \notin {"first", "key"}
                                      /\ Last(doc).at \notin {"first", "key"}
  PROVE  JsonInv'
<1> DEFINE v == [Last(doc) EXCEPT !.at = at]
<1>1. /\ doc \in Seq(Grammar) /\ Len(doc) \in Nat /\ Last(doc) \in Grammar
      /\ stack \in Seq(Ctx) /\ Len(stack) = Len(doc) - 1
      /\ Len(doc) > 1 => /\ Last(stack) = stack[Len(stack)]
                         /\ SeesKind(Last(stack), Last(doc))
                         /\ plain => SeesKeys(Last(stack), Last(doc))
      /\ plain => ~dup
  BY Scanning
<1>2. v.kind = Last(doc).kind /\ v.keys = Last(doc).keys /\ v.at = at
  BY <1>1 DEF Grammar
<1>3. \A d : /\ SeesKind(d, Last(doc)) => SeesKind(d, v)
             /\ SeesKeys(d, Last(doc)) => SeesKeys(d, v)
  BY <1>2 DEF SeesKind, SeesKeys
<1>4. v \in Grammar /\ doc' = Replaced(doc, v)
  OBVIOUS
<1> HIDE DEF v
<1>5. /\ stack' \in Seq(Ctx) /\ Len(stack') = Len(stack)
      /\ \A i \in 1 .. Len(stack) - 1 : stack'[i] = stack[i]
      /\ Len(doc) > 1 => /\ SeesKind(stack'[Len(stack)], v)
                         /\ plain' => SeesKeys(stack'[Len(stack)], v)
  BY <1>1, <1>3
<1>6. dup' \in BOOLEAN /\ found' = "none" /\ (plain' => plain /\ ~dup')
  BY <1>1, Zenon DEF JsonInv, JsonTypeOK
<1> QED BY <1>2, <1>4, <1>5, <1>6, TopInv

\* After a comma a key is expected in an object and only there.
LEMMA CommaInv == ASSUME JsonInv, Comma PROVE JsonInv'
<1> DEFINE at == IF Last(doc).kind = "object" THEN "key" ELSE "value"
           v == [Last(doc) EXCEPT !.at = at]
           c == [Last(stack) EXCEPT !.expect_key = TRUE]
<1>0. /\ found = "none" /\ UNCHANGED <<found, dup, plain>>
      /\ Last(doc).kind # "root" /\ Last(doc).at = "next" /\ doc' = Replaced(doc, v)
      /\ stack' = IF stack # <<>> /\ Last(stack).kind = "object"
                  THEN Replaced(stack, c) ELSE stack
  BY DEF Comma, Token
<1>1. /\ doc \in Seq(Grammar) /\ Len(doc) > 1 /\ Last(doc) \in Grammar
      /\ stack \in Seq(Ctx) /\ stack # <<>> /\ Len(stack) >= 1
      /\ Last(stack) = stack[Len(stack)] /\ Last(stack) \in Ctx
      /\ SeesKind(Last(stack), Last(doc))
      /\ plain => SeesKeys(Last(stack), Last(doc))
      /\ plain => ~dup
  BY <1>0, Scanning
<1>2. CASE Last(doc).kind = "array"
  <2>1. /\ at = "value" /\ [Last(doc) EXCEPT !.at = "value"] \in Grammar
        /\ doc' = Replaced(doc, [Last(doc) EXCEPT !.at = "value"])
        /\ UNCHANGED stack
    BY <1>0, <1>1, <1>2 DEF Grammar, SeesKind
  <2> QED BY <1>0, <1>2, <2>1, PassedInv DEF JsonInv, JsonTypeOK
<1>3. CASE Last(doc).kind = "object"
  <2>1. /\ v \in Grammar /\ v.kind = "object" /\ v.keys = Last(doc).keys /\ v.at = "key"
    BY <1>1, <1>3 DEF Grammar
  <2>2. /\ c \in Ctx /\ c.kind = Last(stack).kind /\ c.seen = Last(stack).seen
        /\ c.expect_key = TRUE
    BY <1>1 DEF Ctx
  <2>3. Last(stack).kind = "object"
    BY <1>1, <1>3 DEF SeesKind
  <2>4. SeesKind(c, v) /\ (plain => SeesKeys(c, v))
    BY <1>1, <2>1, <2>2, <2>3 DEF SeesKind, SeesKeys
  <2> HIDE DEF v, c
  <2>5. stack' = Replaced(stack, c)
    BY <1>0, <1>1, <2>3
  <2>6. /\ stack' \in Seq(Ctx) /\ Len(stack') = Len(stack) /\ stack'[Len(stack)] = c
        /\ \A i \in 1 .. Len(stack) - 1 : stack'[i] = stack[i]
    <3>1. stack \in Seq(Ctx) /\ Len(stack) >= 1 /\ c \in Ctx
      BY <1>1, <2>2
    <3> QED BY <2>5, <3>1, ReplacedLast, ZenonT(40)
  <2>7. dup' \in BOOLEAN /\ found' = "none" /\ plain' \in BOOLEAN /\ (plain' => plain /\ ~dup')
    BY <1>0, <1>1, Zenon DEF JsonInv, JsonTypeOK
  <2>8. v.kind = Last(doc).kind /\ doc' = Replaced(doc, v)
    BY <1>0, <1>3, <2>1
  <2>9. /\ SeesKind(stack'[Len(stack)], v)
        /\ plain' => SeesKeys(stack'[Len(stack)], v)
    BY <1>0, <2>4, <2>6
  <2> QED BY <1>0, <2>1, <2>6, <2>7, <2>8, <2>9, TopInv
<1> QED BY <1>0, <1>1, <1>2, <1>3 DEF Grammar

\* A colon, which the scanner passes over.
LEMMA ColonInv == ASSUME JsonInv, Colon PROVE JsonInv'
<1>0. /\ found = "none" /\ UNCHANGED <<stack, found, dup, plain>> /\ Last(doc).at = "colon"
      /\ doc' = Replaced(doc, [Last(doc) EXCEPT !.at = "value"])
  BY DEF Colon, Token
<1>1. Last(doc) \in Grammar
  BY <1>0, Scanning
<1>2. [Last(doc) EXCEPT !.at = "value"] \in Grammar
  BY <1>0, <1>1 DEF Grammar
<1> QED BY <1>0, <1>2, PassedInv DEF JsonInv, JsonTypeOK

\* A value where one is expected, whether the scanner reads it or not.
LEMMA ValueInv ==
  ASSUME JsonInv, found = "none", ValueExpected, doc' = Filled,
         UNCHANGED <<stack, found, dup>>, plain' \in BOOLEAN, plain' => plain
  PROVE  JsonInv'
<1>1. Last(doc) \in Grammar
  BY Scanning
<1>2. /\ [Last(doc) EXCEPT !.at = "next"] \in Grammar
      /\ doc' = Replaced(doc, [Last(doc) EXCEPT !.at = "next"])
      /\ Last(doc).kind = "object" => Last(doc).at \notin {"first", "key"}
  BY <1>1 DEF Grammar, Filled, ValueExpected
<1> QED BY <1>2, PassedInv

\* A string that is a value is not taken for a key.
LEMMA StringInv == ASSUME JsonInv, NEW s \in Spellings, String(s) PROVE JsonInv'
<1>0. /\ found = "none" /\ ValueExpected /\ doc' = Filled /\ UNCHANGED dup
      /\ ScanString(s)
  BY DEF String, Token
<1>1. plain' \in BOOLEAN /\ (plain' => plain)
  BY Zenon DEF String, JsonInv, JsonTypeOK
<1>2. ~InKeyPosition
  <2> SUFFICES ASSUME InKeyPosition PROVE FALSE
    OBVIOUS
  <2>1. stack # <<>> /\ Last(stack).expect_key
    BY DEF InKeyPosition
  <2>2. Len(doc) > 1 /\ SeesKind(Last(stack), Last(doc))
    BY <1>0, <2>1, Scanning
  <2> QED BY <1>0, <2>1, <2>2 DEF SeesKind, ValueExpected
<1> QED BY <1>0, <1>1, <1>2, ValueInv DEF ScanString

\* A key is taken for one, and found to be repeated exactly when it is.
LEMMA KeyInv == ASSUME JsonInv, NEW s \in Spellings, Key(s) PROVE JsonInv'
<1> DEFINE v == [Last(doc) EXCEPT !.at = "colon", !.keys = @ \cup {Decoded(s)}]
           c == [Last(stack) EXCEPT !.seen = @ \cup {s.letter}, !.expect_key = FALSE]
<1>0. /\ found = "none" /\ Last(doc).kind = "object" /\ Last(doc).at \in {"first", "key"}
      /\ doc' = Replaced(doc, v) /\ ScanString(s)
  BY DEF Key, Token, KeyExpected
<1>1. /\ dup' = (dup \/ Decoded(s) \in Last(doc).keys)
      /\ plain' = (plain /\ ~s.escaped)
  BY DEF Key
<1>2. /\ doc \in Seq(Grammar) /\ Len(doc) > 1 /\ Last(doc) \in Grammar
      /\ stack \in Seq(Ctx) /\ stack # <<>> /\ Len(stack) >= 1
      /\ Last(stack) = stack[Len(stack)] /\ Last(stack) \in Ctx
      /\ SeesKind(Last(stack), Last(doc))
      /\ plain => SeesKeys(Last(stack), Last(doc))
      /\ plain => ~dup
      /\ Last(doc) = doc[Len(doc)]
  BY <1>0, Scanning
<1>3. s.letter \in Letters /\ s.escaped \in BOOLEAN /\ Decoded(s) = <<s.letter, s.escaped>>
  BY DEF Spellings, Decoded
<1>4. /\ v \in Grammar /\ v.kind = "object" /\ v.at = "colon"
      /\ v.keys = Last(doc).keys \cup {<<s.letter, s.escaped>>}
  <2>1. Last(doc) \in [kind: {"object"}, at: {"first", "key", "colon", "value", "next"},
                       keys: SUBSET (Letters \X BOOLEAN)]
    BY <1>0, <1>2 DEF Grammar
  <2>2. Last(doc).keys \cup {<<s.letter, s.escaped>>} \in SUBSET (Letters \X BOOLEAN)
    BY <1>3, <2>1
  <2>3. v \in [kind: {"object"}, at: {"colon"},
               keys: {Last(doc).keys \cup {Decoded(s)}}]
    BY <2>1
  <2> QED BY <1>3, <2>2, <2>3 DEF Grammar
<1>5. /\ c \in Ctx /\ c.kind = Last(stack).kind /\ c.expect_key = FALSE
      /\ c.seen = Last(stack).seen \cup {s.letter}
  BY <1>2, <1>3 DEF Ctx
<1>6. dup' \in BOOLEAN /\ plain' \in BOOLEAN /\ (plain' => plain /\ ~s.escaped)
  BY <1>1, Zenon
<1>7. plain' => (<<s.letter, s.escaped>> \in Last(doc).keys <=> s.letter \in Last(stack).seen)
  BY <1>2, <1>3, <1>6 DEF SeesKeys
<1>8. plain' => (dup' <=> s.letter \in Last(stack).seen)
  BY <1>1, <1>2, <1>3, <1>6, <1>7, Zenon
<1>9. InKeyPosition
  BY <1>0, <1>2 DEF InKeyPosition, SeesKind
<1> HIDE DEF v, c
<1>10. /\ doc' \in Seq(Grammar) /\ Len(doc') = Len(doc) /\ doc'[Len(doc)] = v
       /\ \A i \in 1 .. Len(doc) - 1 : doc'[i] = doc[i]
  <2>1. doc \in Seq(Grammar) /\ Len(doc) >= 1 /\ v \in Grammar
    BY <1>2, <1>4
  <2>2. doc' = Replaced(doc, v)
    BY <1>0
  <2> QED BY <2>1, <2>2, ReplacedDoc
<1>11. CASE s.letter \in Last(stack).seen
  <2>1. found' = "duplicate" /\ UNCHANGED stack
    BY <1>0, <1>9, <1>11 DEF ScanString, parse_string
  <2>2. JsonTypeOK'
    <3>1. \A i \in 1 .. Len(doc') : doc'[i].kind = "root" <=> i = 1
      BY <1>0, <1>2, <1>4, <1>10 DEF JsonInv, JsonTypeOK
    <3>2. Len(doc') >= 1
      BY <1>2, <1>10
    <3> QED BY <1>2, <1>6, <1>10, <2>1, <3>1, <3>2, Zenon DEF JsonTypeOK
  <2> QED BY <1>8, <1>11, <2>1, <2>2, Zenon DEF JsonInv
<1>12. CASE s.letter \notin Last(stack).seen
  <2>1. stack' = Replaced(stack, c) /\ UNCHANGED found
    BY <1>0, <1>9, <1>12 DEF ScanString, parse_string, c
  <2>2. /\ stack' \in Seq(Ctx) /\ Len(stack') = Len(stack) /\ stack'[Len(stack)] = c
        /\ \A i \in 1 .. Len(stack) - 1 : stack'[i] = stack[i]
    <3>1. stack \in Seq(Ctx) /\ Len(stack) >= 1 /\ c \in Ctx
      BY <1>2, <1>5
    <3> QED BY <2>1, <3>1, ReplacedLast, ZenonT(40)
  <2>3. SeesKind(c, v)
    BY <1>2, <1>4, <1>5, <1>0 DEF SeesKind
  <2>4. plain' => SeesKeys(c, v)
    BY <1>2, <1>3, <1>4, <1>5, <1>6 DEF SeesKeys
  <2>5. plain' => plain /\ ~dup'
    BY <1>6, <1>8, <1>12, Zenon
  <2>6. found' = "none" /\ v.kind = Last(doc).kind /\ doc' = Replaced(doc, v)
    BY <1>0, <1>4, <2>1
  <2> QED BY <1>0, <1>4, <1>6, <2>2, <2>3, <2>4, <2>5, <2>6, TopInv
<1> QED BY <1>11, <1>12

\* Every token keeps the scanner in step with the document.
LEMMA JsonStepInv == JsonInv /\ [JsonNext]_jsonVars => JsonInv'
<1> SUFFICES ASSUME JsonInv, [JsonNext]_jsonVars PROVE JsonInv'
  OBVIOUS
<1>1. CASE Scalar
  <2>1. plain' \in BOOLEAN /\ (plain' => plain)
    BY <1>1, Zenon DEF Scalar, JsonInv, JsonTypeOK
  <2> QED BY <1>1, <2>1, ValueInv DEF Scalar, Token
<1>2. CASE UNCHANGED jsonVars
  <2>1. /\ doc' = doc /\ stack' = stack /\ found' = found /\ dup' = dup /\ plain' = plain
    BY <1>2, Zenon DEF jsonVars
  <2>2. JsonTypeOK'
    BY <2>1, Zenon DEF JsonInv, JsonTypeOK
  <2>3. found = "none" => Aligned'
    BY <2>1 DEF JsonInv, Aligned, SeesKind, SeesKeys
  <2> QED BY <2>1, <2>2, <2>3, Zenon DEF JsonInv
<1> QED
  BY <1>1, <1>2, OpenInv, CloseInv, CommaInv, ColonInv, KeyInv, StringInv, Zenon
     DEF JsonNext

\* At whatever depth and length of a document: the scanner refuses one that is
\* spelled plainly exactly when an object of it repeats a key, and none because
\* of its shape (check_no_duplicate_keys).
THEOREM DuplicatesAreFound == JsonInit /\ [][JsonNext]_jsonVars => []DuplicatesFound
<1>1. JsonInv => DuplicatesFound
  <2> SUFFICES ASSUME JsonInv PROVE DuplicatesFound
    OBVIOUS
  <2>1. found \in {"none", "duplicate"}
    BY DEF JsonInv, JsonTypeOK
  <2>2. found = "none" => ~(Complete /\ stack # <<>>)
    <3> SUFFICES ASSUME found = "none", Len(doc) = 1 PROVE stack = <<>>
      BY DEF Complete
    <3>1. stack \in Seq(Ctx) /\ Len(stack) = 0
      BY Scanning
    <3> QED BY <3>1
  <2>3. Rejects <=> found = "duplicate"
    BY <2>1, <2>2 DEF Rejects
  <2> QED BY <2>1, <2>3, Zenon DEF JsonInv, DuplicatesFound
<1> QED BY <1>1, JsonInitInv, JsonStepInv, PTL
-----------------------------------------------------------------------------
(***************************************************************************)
(* Rendering against the validator.                                        *)
(***************************************************************************)
\* For whatever width of an address and limits the run's inputs make sense,
\* every file of a topology that validate accepts passes the parser and sends
\* each address to its node (RenderedParses and AddressesLeadHome, which hold
\* for any topology, of the run's).
THEOREM RoutesHold == Spec => []RoutesLeadHome
<1> DEFINE InputOK == input.of = "validate" => input.config \in TopologyInputs
<1>1. Init => InputOK
  BY DEF Init
<1>2. InputOK /\ [Next]_<<input, jsonVars>> => InputOK'
  BY DEF Next
<1>3. ASSUME NEW config \in TopologyInputs, validate(config),
             NEW h \in Hostnames(config)
      PROVE  LET file == RenderedFile(config, Keys(config), h)
             IN  /\ parse_wg_quick(file) # {}
                 /\ \A cfg \in parse_wg_quick(file) : LeadsHome(config, Keys(config), h, cfg)
  <2>1. TopologyConfig(config)
    BY InputAssumption
  <2>2. KeysOK(config, Keys(config))
    <3>1. \A t, x : <<t, x>> # <<"zero">>
      <4>1. \A t, x : Len(<<t, x>>) = 2
        OBVIOUS
      <4>2. Len(<<"zero">>) = 1
        OBVIOUS
      <4> QED BY <4>1, <4>2
    <3>2. /\ \A a \in Hostnames(config) : Keys(config).node_keys[a] = <<"private", a>>
          /\ \A e \in Edges(config) : Keys(config).edge_psks[e] = <<"psk", e>>
      BY DEF Keys
    <3> QED BY <3>1, <3>2 DEF KeysOK, ValidKey, ZeroKey
  <2> DEFINE lines == Lines(RenderedFile(config, Keys(config), h))
  <2>3. lines \in Nat /\ lines <= 6 * MaxNodes
    BY <1>3, <2>1, FileLength
  <2> HIDE DEF lines
  <2>4. lines <= MaxRenderedLines
    BY <2>3, InputAssumption, TopologyAssumption, RenderAssumption
  <2> QED BY <1>3, <2>1, <2>2, <2>4, RenderedParses, AddressesLeadHome DEF lines
<1>4. InputOK => RoutesLeadHome
  <2> SUFFICES ASSUME InputOK, input.of = "validate", validate(input.config),
                      NEW h \in Hostnames(input.config),
                      NEW file, file = RenderedFile(input.config, Keys(input.config), h)
               PROVE  /\ parse_wg_quick(file) # {}
                      /\ \A cfg \in parse_wg_quick(file) :
                           /\ OwnersOf(cfg, NodeOf(input.config, h).tunnel_address.addr) = {}
                           /\ \A p \in PeerHosts(input.config, h) :
                                \A n \in {NodeOf(input.config, p).tunnel_address}
                                       \cup ToSet(NodeOf(input.config, p).extra_allowed_ips) :
                                  \A x \in Network(n) .. Broadcast(n) :
                                    OwnersOf(cfg, x) = {Public(<<"private", p>>)}
    BY ZenonT(40) DEF RoutesLeadHome, OwnersOf
  <2>1. \A p \in PeerHosts(input.config, h) :
          Keys(input.config).node_keys[p] = <<"private", p>>
    BY DEF Keys, PeerHosts
  <2>2. /\ parse_wg_quick(file) # {}
        /\ \A cfg \in parse_wg_quick(file) : LeadsHome(input.config, Keys(input.config), h, cfg)
    BY <1>3
  <2> QED BY <2>1, <2>2 DEF LeadsHome
<1> QED BY <1>1, <1>2, <1>4, PTL DEF Spec
-----------------------------------------------------------------------------
(***************************************************************************)
(* Identifiers: every loop of encode and decode keeps an equation between  *)
(* the numbers that byte arrays and digits stand for.                      *)
(***************************************************************************)
\* What the assumption says of the sizes.
LEMMA Sizes ==
  /\ Bytes \in Nat /\ Digits \in Nat /\ Digits >= 1
  /\ ByteBase \in Nat /\ ByteBase >= 2 /\ Radix \in Nat /\ Radix >= 2 /\ Radix <= ByteBase
  /\ \A d \in 0 .. Radix - 1 : d + 1 \in 1 .. Radix /\ Alphabet[d + 1] \in 0 .. ByteBase - 1
BY Base32Assumption

\* The number that the first i digits of s stand for.
Prefix(s, base, n) ==
  CHOOSE f : f = [i \in 0 .. n |-> IF i = 0 THEN 0 ELSE f[i - 1] * base + s[i]]

\* It obeys its recursion.
LEMMA PrefixRec ==
  ASSUME NEW n \in Nat, NEW base \in Nat, NEW s, \A i \in 1 .. n : s[i] \in Nat
  PROVE  /\ Prefix(s, base, n) \in [0 .. n -> Nat] /\ Prefix(s, base, n)[0] = 0
         /\ \A i \in 1 .. n : Prefix(s, base, n)[i] = Prefix(s, base, n)[i - 1] * base + s[i]
<1> DEFINE step == [p \in Nat \X (1 .. n) |-> p[1] * base + s[p[2]]]
           Rec(f) == f = [i \in 0 .. n |-> IF i = 0 THEN 0 ELSE f[i - 1] * base + s[i]]
           P      == Prefix(s, base, n)
<1>1. \A v \in Nat, i \in 1 .. n : v * base + s[i] \in Nat
  OBVIOUS
<1>2. /\ step \in [Nat \X (1 .. n) -> Nat]
      /\ \A v \in Nat, i \in 1 .. n : step[<<v, i>>] = v * base + s[i]
  BY <1>1
<1> HIDE DEF step
<1>3. PICK f : Recurs(f, n, Nat, 0, step)
  <2>1. 0 \in Nat
    OBVIOUS
  <2> QED BY <1>2, <2>1, Recursion, Zenon
<1>4. Rec(f)
  <2>1. \A i \in 0 .. n : i # 0 => i \in 1 .. n /\ f[i - 1] \in Nat
    BY <1>3 DEF Recurs
  <2> QED BY <1>2, <1>3, <2>1 DEF Recurs
<1>5. Rec(P)
  BY <1>4, Zenon DEF Prefix
<1> HIDE DEF P
<1>6. /\ DOMAIN P = 0 .. n /\ P = [i \in DOMAIN P |-> P[i]] /\ P[0] = 0
      /\ \A i \in 1 .. n : P[i] = P[i - 1] * base + s[i]
  <2>1. 0 \in 0 .. n /\ \A i \in 1 .. n : i \in 0 .. n /\ i # 0
    OBVIOUS
  <2> QED BY <1>5, <2>1
<1>7. P \in [0 .. n -> Nat]
  <2>1. P[0] \in Nat
    BY <1>6
  <2>2. ASSUME NEW i \in 1 .. n, P[i - 1] \in Nat PROVE P[i] \in Nat
    <3>1. P[i] = P[i - 1] * base + s[i]
      BY <1>6
    <3>2. P[i - 1] * base + s[i] \in Nat
      BY <1>1, <2>2
    <3> QED BY <3>1, <3>2
  <2> QED BY <1>6, <2>1, <2>2, RecursionType, Zenon
<1> QED BY <1>6, <1>7 DEF P

\* A number is what all of its digits stand for.
LEMMA NumberPrefix ==
  ASSUME NEW s, NEW base PROVE Number(s, base) = Prefix(s, base, Len(s))[Len(s)]
BY Zenon DEF Number, Prefix

\* The powers up to the n-th.
Powers(base, n) == CHOOSE f : f = [i \in 0 .. n |-> IF i = 0 THEN 1 ELSE f[i - 1] * base]

\* They obey their recursion.
LEMMA PowersRec ==
  ASSUME NEW n \in Nat, NEW base \in Nat
  PROVE  /\ Powers(base, n) \in [0 .. n -> Nat] /\ Powers(base, n)[0] = 1
         /\ \A i \in 1 .. n : Powers(base, n)[i] = Powers(base, n)[i - 1] * base
<1> DEFINE step == [p \in Nat \X (1 .. n) |-> p[1] * base]
           Rec(f) == f = [i \in 0 .. n |-> IF i = 0 THEN 1 ELSE f[i - 1] * base]
           P      == Powers(base, n)
<1>1. \A v \in Nat : v * base \in Nat
  OBVIOUS
<1>2. /\ step \in [Nat \X (1 .. n) -> Nat]
      /\ \A v \in Nat, i \in 1 .. n : step[<<v, i>>] = v * base
  BY <1>1
<1> HIDE DEF step
<1>3. PICK f : Recurs(f, n, Nat, 1, step)
  <2>1. 1 \in Nat
    OBVIOUS
  <2> QED BY <1>2, <2>1, Recursion, Zenon
<1>4. Rec(f)
  <2>1. \A i \in 0 .. n : i # 0 => i \in 1 .. n /\ f[i - 1] \in Nat
    BY <1>3 DEF Recurs
  <2> QED BY <1>2, <1>3, <2>1 DEF Recurs
<1>5. Rec(P)
  BY <1>4, Zenon DEF Powers
<1> HIDE DEF P
<1>6. /\ DOMAIN P = 0 .. n /\ P = [i \in DOMAIN P |-> P[i]] /\ P[0] = 1
      /\ \A i \in 1 .. n : P[i] = P[i - 1] * base
  <2>1. 0 \in 0 .. n /\ \A i \in 1 .. n : i \in 0 .. n /\ i # 0
    OBVIOUS
  <2> QED BY <1>5, <2>1
<1>7. P \in [0 .. n -> Nat]
  <2>1. P[0] \in Nat
    BY <1>6
  <2>2. ASSUME NEW i \in 1 .. n, P[i - 1] \in Nat PROVE P[i] \in Nat
    <3>1. P[i] = P[i - 1] * base
      BY <1>6
    <3> QED BY <1>1, <2>2, <3>1
  <2> QED BY <1>6, <2>1, <2>2, RecursionType, Zenon
<1> QED BY <1>6, <1>7 DEF P

\* The n-th power, by recursion over n.
LEMMA PowerRec ==
  ASSUME NEW n \in Nat, NEW base \in Nat
  PROVE  /\ Power(base, 0) = 1 /\ Power(base, n) \in Nat
         /\ Power(base, n + 1) = Power(base, n) * base
<1> DEFINE P == Powers(base, n)
           Q == Powers(base, n + 1)
           T == {m \in Nat : m <= n => P[m] = Q[m]}
<1>1. \A k \in Nat : Power(base, k) = Powers(base, k)[k]
  BY Zenon DEF Power, Powers
<1>2. /\ P \in [0 .. n -> Nat] /\ P[0] = 1
      /\ \A i \in 1 .. n : P[i] = P[i - 1] * base
  BY PowersRec
<1>3. /\ Q \in [0 .. n + 1 -> Nat] /\ Q[0] = 1
      /\ \A i \in 1 .. n + 1 : Q[i] = Q[i - 1] * base
  <2>1. n + 1 \in Nat
    OBVIOUS
  <2> HIDE DEF Q
  <2> QED BY <2>1, PowersRec, Zenon DEF Q
<1>4. Powers(base, 0)[0] = 1
  BY PowersRec
<1> HIDE DEF P, Q
<1>5. 0 \in T
  BY <1>2, <1>3
<1>6. ASSUME NEW m \in T PROVE m + 1 \in T
  <2> SUFFICES ASSUME m + 1 <= n PROVE P[m + 1] = Q[m + 1]
    OBVIOUS
  <2>1. P[m] = Q[m] /\ m + 1 \in 1 .. n /\ m + 1 \in 1 .. n + 1 /\ (m + 1) - 1 = m
    OBVIOUS
  <2> QED BY <1>2, <1>3, <2>1
<1>7. P[n] = Q[n]
  <2>1. T \in SUBSET Nat
    OBVIOUS
  <2> HIDE DEF T
  <2>2. n \in T
    BY <1>5, <1>6, <2>1, Induction
  <2> QED BY <2>2 DEF T
<1>8. P[n] \in Nat /\ Q[n + 1] = Q[n] * base
  <2>1. n + 1 \in 1 .. n + 1 /\ (n + 1) - 1 = n
    OBVIOUS
  <2> QED BY <1>2, <1>3, <2>1
<1>9. Power(base, n) = P[n] /\ Power(base, n + 1) = Q[n + 1] /\ Power(base, 0) = 1
  BY <1>1, <1>4 DEF P, Q
<1> QED BY <1>7, <1>8, <1>9

\* Division with a remainder.
LEMMA DivMod ==
  ASSUME NEW x \in Nat, NEW r \in Nat, r >= 1
  PROVE  /\ x \div r \in Nat /\ x % r \in Nat /\ x % r < r
         /\ x = (x \div r) * r + (x % r)
OBVIOUS

\* The quotient of a number below a product.
LEMMA QuotientBound ==
  ASSUME NEW x \in Nat, NEW q \in Nat, NEW r \in Nat, NEW b \in Nat, x < r * b, q * r <= x
  PROVE  q < b
<1> SUFFICES ASSUME q >= b PROVE FALSE
  OBVIOUS
<1>1. q * r >= b * r /\ b * r = r * b
  OBVIOUS
<1>2. q * r \in Nat /\ r * b \in Nat
  OBVIOUS
<1> QED BY <1>1, <1>2

\* The remainders of one pass of the division.
LEMMA RemainderRec ==
  ASSUME NEW num \in ByteArrays
  PROVE  /\ Remainder(num) \in [0 .. Bytes -> 0 .. Radix - 1] /\ Remainder(num)[0] = 0
         /\ \A i \in 1 .. Bytes :
              Remainder(num)[i] = (Remainder(num)[i - 1] * ByteBase + num[i]) % Radix
<1> DEFINE V      == 0 .. Radix - 1
           step   == [p \in V \X (1 .. Bytes) |-> (p[1] * ByteBase + num[p[2]]) % Radix]
           Rec(f) == f = [i \in 0 .. Bytes |->
                            IF i = 0 THEN 0 ELSE (f[i - 1] * ByteBase + num[i]) % Radix]
           P      == Remainder(num)
<1>1. \A v \in V, i \in 1 .. Bytes : (v * ByteBase + num[i]) % Radix \in V
  <2> TAKE v \in V, i \in 1 .. Bytes
  <2>1. v \in Nat /\ num[i] \in Nat /\ v * ByteBase \in Nat
    BY Sizes DEF ByteArrays
  <2>2. v * ByteBase + num[i] \in Nat
    BY <2>1
  <2> HIDE DEF V
  <2> QED BY <2>2, Sizes, DivMod DEF V
<1>2. /\ step \in [V \X (1 .. Bytes) -> V]
      /\ \A v \in V, i \in 1 .. Bytes : step[<<v, i>>] = (v * ByteBase + num[i]) % Radix
  <2> HIDE DEF V
  <2> QED BY <1>1
<1> HIDE DEF step
<1>3. 0 \in V
  BY Sizes
<1> HIDE DEF V
<1>4. PICK f : Recurs(f, Bytes, V, 0, step)
  BY <1>2, <1>3, Sizes, Recursion, Zenon
<1>5. Rec(f)
  <2>1. \A i \in 0 .. Bytes : i # 0 => i \in 1 .. Bytes /\ f[i - 1] \in V
    BY <1>4, Sizes DEF Recurs
  <2> QED BY <1>2, <1>4, <2>1 DEF Recurs
<1>6. Rec(P)
  BY <1>5, Zenon DEF Remainder
<1> HIDE DEF P
<1>7. /\ DOMAIN P = 0 .. Bytes /\ P = [i \in DOMAIN P |-> P[i]] /\ P[0] = 0
      /\ \A i \in 1 .. Bytes : P[i] = (P[i - 1] * ByteBase + num[i]) % Radix
  <2>1. 0 \in 0 .. Bytes /\ \A i \in 1 .. Bytes : i \in 0 .. Bytes /\ i # 0
    BY Sizes
  <2> QED BY <1>6, <2>1
<1>8. P \in [0 .. Bytes -> V]
  <2>1. P[0] \in V
    BY <1>3, <1>7
  <2>2. ASSUME NEW i \in 1 .. Bytes, P[i - 1] \in V PROVE P[i] \in V
    <3>1. P[i] = (P[i - 1] * ByteBase + num[i]) % Radix
      BY <1>7
    <3> QED BY <1>1, <2>2, <3>1
  <2> QED BY <1>7, <2>1, <2>2, Sizes, RecursionType, Zenon
<1> QED BY <1>7, <1>8 DEF P, V

\* One byte of the division: it stays a byte and loses nothing.
LEMMA QuotientRec ==
  ASSUME NEW num \in ByteArrays
  PROVE  /\ Quotient(num) \in ByteArrays
         /\ \A i \in 1 .. Bytes :
              Remainder(num)[i - 1] * ByteBase + num[i]
                = Quotient(num)[i] * Radix + Remainder(num)[i]
<1> DEFINE rem == Remainder(num)
<1>1. /\ rem \in [0 .. Bytes -> 0 .. Radix - 1]
      /\ \A i \in 1 .. Bytes : rem[i] = (rem[i - 1] * ByteBase + num[i]) % Radix
  BY RemainderRec
<1> HIDE DEF rem
<1>2. ASSUME NEW i \in 1 .. Bytes
      PROVE  /\ Quotient(num)[i] \in 0 .. ByteBase - 1
             /\ rem[i - 1] * ByteBase + num[i] = Quotient(num)[i] * Radix + rem[i]
  <2> DEFINE x == rem[i - 1] * ByteBase + num[i]
             q == x \div Radix
  <2>1. rem[i - 1] \in Nat /\ rem[i - 1] <= Radix - 1 /\ num[i] \in Nat /\ num[i] <= ByteBase - 1
    BY <1>1, Sizes DEF ByteArrays
  <2>2. x \in Nat /\ x < Radix * ByteBase
    <3>1. rem[i - 1] * ByteBase \in Nat /\ rem[i - 1] * ByteBase <= (Radix - 1) * ByteBase
      BY <2>1, Sizes
    <3>2. (Radix - 1) * ByteBase = Radix * ByteBase - ByteBase /\ Radix * ByteBase \in Nat
      BY Sizes
    <3> QED BY <2>1, <3>1, <3>2, Sizes
  <2>3. Quotient(num)[i] = q % ByteBase /\ rem[i] = x % Radix
    BY <1>1 DEF Quotient, rem
  <2> HIDE DEF x
  <2>4. q \in Nat /\ x = q * Radix + (x % Radix) /\ x % Radix \in Nat
    BY <2>2, Sizes, DivMod
  <2> HIDE DEF q
  <2>5. q < ByteBase
    <3>1. q * Radix <= x
      BY <2>2, <2>4, Sizes
    <3> QED BY <2>2, <2>4, <3>1, Sizes, QuotientBound
  <2>6. q % ByteBase = q
    BY <2>4, <2>5, Sizes
  <2>7. Quotient(num)[i] = q /\ x = q * Radix + rem[i]
    BY <2>3, <2>4, <2>6
  <2>8. Quotient(num)[i] \in 0 .. ByteBase - 1
    BY <2>4, <2>5, <2>7, Sizes
  <2> QED BY <2>7, <2>8 DEF x
<1>3. Quotient(num) \in ByteArrays
  BY <1>2 DEF Quotient, ByteArrays
<1> QED BY <1>2, <1>3 DEF rem

\* Two numbers, each with its last digit apart, are the same.
SameNumber(a, c, b, d, base) == a * base + c = b * base + d

\* The last digit and what precedes it are determined by the number.
LEMMA LastDigit ==
  ASSUME NEW a \in Nat, NEW b \in Nat, NEW base \in Nat, NEW c \in Nat, NEW d \in Nat,
         c < base, d < base, SameNumber(a, c, b, d, base)
  PROVE  a = b /\ c = d
<1>0. a * base + c = b * base + d
  BY DEF SameNumber
<1>1. ASSUME NEW x \in Nat, NEW y \in Nat, NEW u \in Nat, NEW v \in Nat,
             u < base, x * base + u = y * base + v
      PROVE  ~ x < y
  <2> SUFFICES ASSUME x < y PROVE FALSE
    OBVIOUS
  <2>1. y * base >= (x + 1) * base /\ (x + 1) * base = x * base + base
    OBVIOUS
  <2>2. x * base \in Nat /\ y * base \in Nat
    OBVIOUS
  <2> QED BY <1>1, <2>1, <2>2
<1>2. ~ a < b
  BY <1>0, <1>1
<1>3. ~ b < a
  BY <1>0, <1>1
<1>4. a = b
  BY <1>2, <1>3
<1>5. a * base \in Nat
  OBVIOUS
<1> QED BY <1>0, <1>4, <1>5

\* The first i digits stand for a number below the i-th power of the base.
LEMMA PrefixBound ==
  ASSUME NEW n \in Nat, NEW base \in Nat, NEW s, \A i \in 1 .. n : s[i] \in Nat /\ s[i] < base
  PROVE  \A i \in 0 .. n : Prefix(s, base, n)[i] < Power(base, i)
<1> DEFINE P == Prefix(s, base, n)
           T == {i \in Nat : i <= n => P[i] < Power(base, i)}
<1>1. /\ P \in [0 .. n -> Nat] /\ P[0] = 0
      /\ \A i \in 1 .. n : P[i] = P[i - 1] * base + s[i]
  BY PrefixRec
<1> HIDE DEF P
<1>2. 0 \in T
  BY <1>1, PowerRec
<1>3. ASSUME NEW i \in T PROVE i + 1 \in T
  <2> SUFFICES ASSUME i + 1 <= n PROVE P[i + 1] < Power(base, i + 1)
    OBVIOUS
  <2>1. P[i] < Power(base, i) /\ i + 1 \in 1 .. n /\ (i + 1) - 1 = i /\ i \in Nat
    OBVIOUS
  <2>2. P[i + 1] = P[i] * base + s[i + 1] /\ P[i] \in Nat
    BY <1>1, <2>1
  <2>3. Power(base, i) \in Nat /\ Power(base, i + 1) = Power(base, i) * base
    BY <2>1, PowerRec
  <2>4. (P[i] + 1) * base <= Power(base, i) * base /\ (P[i] + 1) * base = P[i] * base + base
    BY <2>1, <2>2, <2>3
  <2>5. P[i] * base \in Nat /\ Power(base, i) * base \in Nat
    BY <2>2, <2>3
  <2> QED BY <2>1, <2>2, <2>3, <2>4, <2>5
<1>4. T = Nat
  <2>1. T \in SUBSET Nat
    OBVIOUS
  <2> HIDE DEF T
  <2> QED BY <1>2, <1>3, <2>1, Induction
<1> QED BY <1>4 DEF P

\* Digits that stand for the same number are the same.
LEMMA PrefixInjective ==
  ASSUME NEW n \in Nat, NEW base \in Nat,
         NEW s \in [1 .. n -> 0 .. base - 1], NEW t \in [1 .. n -> 0 .. base - 1],
         Prefix(s, base, n)[n] = Prefix(t, base, n)[n]
  PROVE  s = t
<1> DEFINE P == Prefix(s, base, n)
           Q == Prefix(t, base, n)
           T == {m \in Nat : m <= n => P[n - m] = Q[n - m]}
<1>0. \A i \in 1 .. n : s[i] \in Nat /\ s[i] < base /\ t[i] \in Nat /\ t[i] < base
  OBVIOUS
<1>1. /\ P \in [0 .. n -> Nat]
      /\ \A i \in 1 .. n : P[i] = P[i - 1] * base + s[i]
  <2>1. \A i \in 1 .. n : s[i] \in Nat
    BY <1>0
  <2> QED BY <2>1, PrefixRec
<1>2. /\ Q \in [0 .. n -> Nat]
      /\ \A i \in 1 .. n : Q[i] = Q[i - 1] * base + t[i]
  <2>1. \A i \in 1 .. n : t[i] \in Nat
    BY <1>0
  <2> QED BY <2>1, PrefixRec
<1>3. P[n] = Q[n]
  OBVIOUS
<1> HIDE DEF P, Q
<1>4. ASSUME NEW i \in 1 .. n, P[i] = Q[i] PROVE P[i - 1] = Q[i - 1] /\ s[i] = t[i]
  <2> DEFINE a == P[i - 1]
             b == Q[i - 1]
             c == s[i]
             d == t[i]
  <2>1. a \in Nat /\ b \in Nat
    BY <1>1, <1>2
  <2>2. SameNumber(a, c, b, d, base)
    <3>1. P[i] = a * base + c /\ Q[i] = b * base + d
      BY <1>1, <1>2
    <3> QED BY <1>4, <3>1 DEF SameNumber
  <2>3. c \in Nat /\ c < base /\ d \in Nat /\ d < base
    BY <1>0
  <2> HIDE DEF a, b, c, d
  <2>4. a = b /\ c = d
    BY <2>1, <2>2, <2>3, LastDigit
  <2> QED BY <2>4 DEF a, b, c, d
<1>5. 0 \in T
  BY <1>3
<1>6. ASSUME NEW m \in T PROVE m + 1 \in T
  <2> SUFFICES ASSUME m + 1 <= n PROVE P[n - (m + 1)] = Q[n - (m + 1)]
    OBVIOUS
  <2>1. P[n - m] = Q[n - m] /\ n - m \in 1 .. n /\ (n - m) - 1 = n - (m + 1)
    OBVIOUS
  <2> QED BY <1>4, <2>1
<1>7. T = Nat
  <2>1. T \in SUBSET Nat
    OBVIOUS
  <2> HIDE DEF T
  <2> QED BY <1>5, <1>6, <2>1, Induction
<1>8. ASSUME NEW i \in 1 .. n PROVE P[i] = Q[i]
  <2>1. n - i \in T /\ n - i <= n /\ n - (n - i) = i
    <3>1. n - i \in Nat /\ n - i <= n /\ n - (n - i) = i
      OBVIOUS
    <3> HIDE DEF T
    <3> QED BY <1>7, <3>1
  <2> QED BY <2>1
<1>9. \A i \in 1 .. n : s[i] = t[i]
  BY <1>4, <1>8
<1> QED BY <1>9

\* The number that a byte array stands for.
Value(a) == Prefix(a, ByteBase, Bytes)[Bytes]

\* The digits of a byte array, its number, and that it has no other.
LEMMA ValueFacts ==
  ASSUME NEW a \in ByteArrays
  PROVE  /\ a = [i \in 1 .. Bytes |-> a[i]]
         /\ \A i \in 1 .. Bytes : a[i] \in Nat /\ a[i] < ByteBase
         /\ Value(a) \in Nat /\ Value(a) < Power(ByteBase, Bytes)
         /\ Number(a, ByteBase) = Value(a)
         /\ \A b \in ByteArrays : Value(a) = Value(b) => a = b
<1>1. /\ \A i \in 1 .. Bytes : a[i] \in Nat /\ a[i] < ByteBase
      /\ a = [i \in 1 .. Bytes |-> a[i]]
  BY Sizes DEF ByteArrays
<1>2. Value(a) \in Nat
  <2>1. Prefix(a, ByteBase, Bytes) \in [0 .. Bytes -> Nat]
    BY <1>1, Sizes, PrefixRec
  <2> QED BY <2>1, Sizes DEF Value
<1>3. Value(a) < Power(ByteBase, Bytes)
  <2>1. Bytes \in 0 .. Bytes
    BY Sizes
  <2> QED BY <1>1, <2>1, Sizes, PrefixBound DEF Value
<1>4. Number(a, ByteBase) = Value(a)
  <2>1. Len(a) = Bytes
    BY Sizes DEF ByteArrays
  <2> QED BY <2>1, NumberPrefix DEF Value
<1>5. ASSUME NEW b \in ByteArrays, Value(a) = Value(b) PROVE a = b
  <2>1. Prefix(a, ByteBase, Bytes)[Bytes] = Prefix(b, ByteBase, Bytes)[Bytes]
    BY <1>5 DEF Value
  <2>2. Bytes \in Nat /\ ByteBase \in Nat
    BY Sizes
  <2> QED BY <2>1, <2>2, PrefixInjective DEF ByteArrays
<1> QED BY <1>1, <1>2, <1>3, <1>4, <1>5

\* One pass of the division divides the number.
LEMMA Division ==
  ASSUME NEW num \in ByteArrays
  PROVE  /\ Remainder(num)[Bytes] \in 0 .. Radix - 1
         /\ Value(num) = Value(Quotient(num)) * Radix + Remainder(num)[Bytes]
<1> DEFINE rem == Remainder(num)
           q   == Quotient(num)
           P   == Prefix(num, ByteBase, Bytes)
           Q   == Prefix(q, ByteBase, Bytes)
           T   == {i \in Nat : i <= Bytes => P[i] = Q[i] * Radix + rem[i]}
<1>1. rem \in [0 .. Bytes -> 0 .. Radix - 1] /\ rem[0] = 0
  BY RemainderRec
<1>2. /\ q \in ByteArrays
      /\ \A i \in 1 .. Bytes : rem[i - 1] * ByteBase + num[i] = q[i] * Radix + rem[i]
  BY QuotientRec
<1> HIDE DEF rem, q
<1>3. /\ P \in [0 .. Bytes -> Nat] /\ P[0] = 0
      /\ \A i \in 1 .. Bytes : P[i] = P[i - 1] * ByteBase + num[i]
  BY Sizes, ValueFacts, PrefixRec
<1>4. /\ Q \in [0 .. Bytes -> Nat] /\ Q[0] = 0
      /\ \A i \in 1 .. Bytes : Q[i] = Q[i - 1] * ByteBase + q[i]
  <2>1. \A i \in 1 .. Bytes : q[i] \in Nat
    BY <1>2, ValueFacts
  <2> QED BY <2>1, Sizes, PrefixRec
<1> HIDE DEF P, Q
<1>5. 0 \in T
  BY <1>1, <1>3, <1>4, Sizes
<1>6. ASSUME NEW i \in T PROVE i + 1 \in T
  <2> SUFFICES ASSUME i + 1 <= Bytes PROVE P[i + 1] = Q[i + 1] * Radix + rem[i + 1]
    OBVIOUS
  <2>1. i \in Nat /\ P[i] = Q[i] * Radix + rem[i] /\ i + 1 \in 1 .. Bytes /\ (i + 1) - 1 = i
    BY Sizes
  <2>2. /\ P[i + 1] = P[i] * ByteBase + num[i + 1] /\ Q[i + 1] = Q[i] * ByteBase + q[i + 1]
        /\ rem[i] * ByteBase + num[i + 1] = q[i + 1] * Radix + rem[i + 1]
    BY <1>2, <1>3, <1>4, <2>1
  <2>3. /\ P[i] \in Nat /\ Q[i] \in Nat /\ rem[i] \in Nat /\ rem[i + 1] \in Nat
        /\ num[i + 1] \in Nat /\ q[i + 1] \in Nat
    <3>1. P[i] \in Nat /\ Q[i] \in Nat
      BY <1>3, <1>4, <2>1, Sizes
    <3>2. rem[i] \in Nat /\ rem[i + 1] \in Nat
      <4>1. rem[i] \in 0 .. Radix - 1 /\ rem[i + 1] \in 0 .. Radix - 1
        BY <1>1, <2>1, Sizes
      <4> QED BY <4>1, Sizes
    <3>3. num[i + 1] \in Nat /\ q[i + 1] \in Nat
      <4>1. num[i + 1] \in 0 .. ByteBase - 1 /\ q[i + 1] \in 0 .. ByteBase - 1
        BY <1>2, <2>1 DEF ByteArrays
      <4> QED BY <4>1, Sizes
    <3> QED BY <3>1, <3>2, <3>3
  <2>4. ASSUME NEW x \in Nat, NEW y \in Nat, NEW r \in Nat, NEW t \in Nat, NEW c \in Nat, NEW d \in Nat,
               x = y * Radix + r, r * ByteBase + c = d * Radix + t
        PROVE  x * ByteBase + c = (y * ByteBase + d) * Radix + t
    <3>1. x * ByteBase = (y * Radix) * ByteBase + r * ByteBase
      BY <2>4, Sizes
    <3>2. (y * ByteBase + d) * Radix = (y * Radix) * ByteBase + d * Radix
      BY Sizes
    <3>3. /\ (y * Radix) * ByteBase \in Nat /\ r * ByteBase \in Nat /\ d * Radix \in Nat
          /\ x * ByteBase \in Nat /\ (y * ByteBase + d) * Radix \in Nat
      BY Sizes
    <3> QED BY <2>4, <3>1, <3>2, <3>3
  <2> DEFINE x == P[i]
             y == Q[i]
             r == rem[i]
             t == rem[i + 1]
             c == num[i + 1]
             d == q[i + 1]
  <2>5. /\ x \in Nat /\ y \in Nat /\ r \in Nat /\ t \in Nat /\ c \in Nat /\ d \in Nat
        /\ x = y * Radix + r /\ r * ByteBase + c = d * Radix + t
    BY <2>1, <2>2, <2>3
  <2> HIDE DEF x, y, r, t, c, d
  <2>6. x * ByteBase + c = (y * ByteBase + d) * Radix + t
    BY <2>4, <2>5
  <2> QED BY <2>2, <2>6 DEF x, y, r, t, c, d
<1>7. Bytes \in T
  <2>1. T \in SUBSET Nat
    OBVIOUS
  <2> HIDE DEF T
  <2> QED BY <1>5, <1>6, <2>1, Sizes, Induction
<1>8. rem[Bytes] \in 0 .. Radix - 1
  BY <1>1, Sizes
<1> QED BY <1>7, <1>8, Sizes DEF Value, P, Q, rem, q

\* What is left of a value after each digit that encode takes.
Quotients(bytes) ==
  CHOOSE f : f = [k \in 0 .. Digits |-> IF k = 0 THEN bytes ELSE Quotient(f[k - 1])]

\* It obeys its recursion.
LEMMA QuotientsRec ==
  ASSUME NEW bytes \in ByteArrays
  PROVE  /\ Quotients(bytes) \in [0 .. Digits -> ByteArrays] /\ Quotients(bytes)[0] = bytes
         /\ \A i \in 1 .. Digits : Quotients(bytes)[i] = Quotient(Quotients(bytes)[i - 1])
<1> DEFINE V      == ByteArrays
           step   == [p \in V \X (1 .. Digits) |-> Quotient(p[1])]
           Rec(f) == f = [i \in 0 .. Digits |-> IF i = 0 THEN bytes ELSE Quotient(f[i - 1])]
           P      == Quotients(bytes)
<1>1. \A v \in V : Quotient(v) \in V
  BY QuotientRec
<1>2. /\ step \in [V \X (1 .. Digits) -> V]
      /\ \A v \in V, i \in 1 .. Digits : step[<<v, i>>] = Quotient(v)
  <2> HIDE DEF V
  <2> QED BY <1>1
<1> HIDE DEF step
<1>3. bytes \in V
  OBVIOUS
<1> HIDE DEF V
<1>4. PICK f : Recurs(f, Digits, V, bytes, step)
  BY <1>2, <1>3, Sizes, Recursion, Zenon
<1>5. Rec(f)
  <2>1. \A i \in 0 .. Digits : i # 0 => i \in 1 .. Digits /\ f[i - 1] \in V
    BY <1>4, Sizes DEF Recurs
  <2> QED BY <1>2, <1>4, <2>1 DEF Recurs
<1>6. Rec(P)
  BY <1>5, Zenon DEF Quotients
<1> HIDE DEF P
<1>7. /\ DOMAIN P = 0 .. Digits /\ P = [i \in DOMAIN P |-> P[i]] /\ P[0] = bytes
      /\ \A i \in 1 .. Digits : P[i] = Quotient(P[i - 1])
  <2>1. 0 \in 0 .. Digits /\ \A i \in 1 .. Digits : i \in 0 .. Digits /\ i # 0
    BY Sizes
  <2> QED BY <1>6, <2>1
<1>8. P \in [0 .. Digits -> V]
  <2>1. P[0] \in V
    BY <1>3, <1>7
  <2>2. ASSUME NEW i \in 1 .. Digits, P[i - 1] \in V PROVE P[i] \in V
    BY <1>1, <1>7, <2>2
  <2> QED BY <1>7, <2>1, <2>2, Sizes, RecursionType, Zenon
<1> QED BY <1>7, <1>8 DEF P, V

\* The digits that encode spells.
DigitsOf(bytes) == [d \in 1 .. Digits |-> Remainder(Quotients(bytes)[Digits - d])[Bytes]]

\* They are digits, and encode spells them.
LEMMA EncodeDigits ==
  ASSUME NEW bytes \in ByteArrays
  PROVE  /\ DigitsOf(bytes) \in [1 .. Digits -> 0 .. Radix - 1]
         /\ encode(bytes) = [d \in 1 .. Digits |-> Alphabet[DigitsOf(bytes)[d] + 1]]
<1>1. encode(bytes)
        = [d \in 1 .. Digits |-> Alphabet[Remainder(Quotients(bytes)[Digits - d])[Bytes] + 1]]
  BY Zenon DEF encode, Quotients
<1>2. ASSUME NEW d \in 1 .. Digits
      PROVE  Remainder(Quotients(bytes)[Digits - d])[Bytes] \in 0 .. Radix - 1
  <2>1. Digits - d \in 0 .. Digits
    BY Sizes
  <2>2. Quotients(bytes)[Digits - d] \in ByteArrays
    BY <2>1, QuotientsRec
  <2> QED BY <2>2, Division
<1>3. DigitsOf(bytes) \in [1 .. Digits -> 0 .. Radix - 1]
  BY <1>2 DEF DigitsOf
<1> QED BY <1>1, <1>3 DEF DigitsOf

\* A power of a base of at least one is at least one.
LEMMA PowerPositive ==
  ASSUME NEW n \in Nat, NEW base \in Nat, base >= 1
  PROVE  Power(base, n) \in Nat /\ Power(base, n) >= 1
<1> DEFINE T == {m \in Nat : Power(base, m) >= 1}
<1>1. 0 \in T
  BY PowerRec
<1>2. ASSUME NEW m \in T PROVE m + 1 \in T
  <2>1. m \in Nat /\ Power(base, m) >= 1
    OBVIOUS
  <2>2. Power(base, m) \in Nat /\ Power(base, m + 1) = Power(base, m) * base
    BY <2>1, PowerRec
  <2>3. Power(base, m) * base >= 1
    BY <2>1, <2>2
  <2> QED BY <2>1, <2>2, <2>3
<1>3. n \in T
  <2>1. T \in SUBSET Nat
    OBVIOUS
  <2> HIDE DEF T
  <2> QED BY <1>1, <1>2, <2>1, Induction
<1> QED BY <1>3, PowerRec

\* A value has no more digits than encode takes, and the first is 0 or 1.
LEMMA EncodeFits ==
  ASSUME NEW bytes \in ByteArrays
  PROVE  Value(Quotients(bytes)[Digits]) = 0 /\ DigitsOf(bytes)[1] \in {0, 1}
<1> DEFINE num  == Quotients(bytes)
           W(k) == Value(num[k])
           T    == {k \in Nat : k <= Digits => W(k) * Power(Radix, k) <= W(0)}
<1>1. /\ num \in [0 .. Digits -> ByteArrays] /\ num[0] = bytes
      /\ \A i \in 1 .. Digits : num[i] = Quotient(num[i - 1])
  BY QuotientsRec
<1> HIDE DEF num
<1>2. \A k \in 0 .. Digits : W(k) \in Nat
  BY <1>1, ValueFacts
<1>3. ASSUME NEW k \in Nat, k + 1 <= Digits
      PROVE  /\ Remainder(num[k])[Bytes] \in 0 .. Radix - 1
             /\ W(k) = W(k + 1) * Radix + Remainder(num[k])[Bytes]
  <2>1. k \in 0 .. Digits /\ k + 1 \in 1 .. Digits /\ (k + 1) - 1 = k
    BY <1>3, Sizes
  <2>2. num[k] \in ByteArrays /\ num[k + 1] = Quotient(num[k])
    BY <1>1, <2>1
  <2> QED BY <2>2, Division
<1>4. 0 \in T
  <2>1. Power(Radix, 0) = 1
    BY Sizes, PowerRec
  <2>2. W(0) \in Nat
    BY <1>2, Sizes
  <2> HIDE DEF W
  <2> QED BY <2>1, <2>2
<1>5. ASSUME NEW k \in T PROVE k + 1 \in T
  <2> SUFFICES ASSUME k + 1 <= Digits PROVE W(k + 1) * Power(Radix, k + 1) <= W(0)
    OBVIOUS
  <2> DEFINE x == W(k)
             y == W(k + 1)
             r == Remainder(num[k])[Bytes]
             p == Power(Radix, k)
  <2>1. k \in Nat /\ x * p <= W(0) /\ W(0) \in Nat
    BY <1>2, Sizes
  <2>2. x \in Nat /\ y \in Nat
    BY <1>2, <2>1, Sizes
  <2>3. r \in Nat /\ x = y * Radix + r
    BY <1>3, <2>1, Sizes
  <2>4. p \in Nat /\ Power(Radix, k + 1) = p * Radix
    BY <2>1, Sizes, PowerRec
  <2> HIDE DEF x, y, r, p, W
  <2>5. y * (p * Radix) = (y * Radix) * p
    BY <2>2, <2>4, Sizes
  <2>6. x * p = (y * Radix) * p + r * p
    BY <2>2, <2>3, <2>4, Sizes
  <2>7. x * p \in Nat /\ (y * Radix) * p \in Nat /\ r * p \in Nat
    BY <2>2, <2>3, <2>4, Sizes
  <2>8. y * (p * Radix) <= W(0)
    BY <2>1, <2>5, <2>6, <2>7
  <2> QED BY <2>4, <2>8 DEF y
<1>6. Digits - 1 \in T
  <2>1. T \in SUBSET Nat /\ Digits - 1 \in Nat
    BY Sizes
  <2> HIDE DEF T
  <2> QED BY <1>4, <1>5, <2>1, Induction
<1>7. W(Digits - 1) < 2
  <2> DEFINE x == W(Digits - 1)
             p == Power(Radix, Digits - 1)
  <2>1. x \in Nat /\ x * p <= W(0) /\ W(0) \in Nat
    BY <1>2, <1>6, Sizes
  <2>2. W(0) < Power(ByteBase, Bytes)
    BY <1>1, ValueFacts
  <2>3. Power(ByteBase, Bytes) <= 2 * p
    BY FitAssumption
  <2>4. p \in Nat /\ p >= 1
    <3>1. Digits - 1 \in Nat /\ Radix \in Nat /\ Radix >= 1
      BY Sizes
    <3> QED BY <3>1, PowerPositive
  <2>5. Power(ByteBase, Bytes) \in Nat
    BY Sizes, PowerRec
  <2> HIDE DEF x, p, W
  <2>6. x * p < 2 * p /\ x * p \in Nat
    BY <2>1, <2>2, <2>3, <2>4, <2>5
  <2>7. x < 2
    BY <2>1, <2>4, <2>6
  <2> QED BY <2>7 DEF x
<1>8. /\ W(Digits) \in Nat /\ Remainder(num[Digits - 1])[Bytes] \in 0 .. Radix - 1
      /\ W(Digits - 1) = W(Digits) * Radix + Remainder(num[Digits - 1])[Bytes]
  <2>1. Digits - 1 \in Nat /\ (Digits - 1) + 1 = Digits /\ Digits \in 0 .. Digits
    BY Sizes
  <2> HIDE DEF W
  <2> QED BY <1>2, <1>3, <2>1
<1>9. DigitsOf(bytes)[1] = Remainder(num[Digits - 1])[Bytes]
  BY Sizes DEF DigitsOf, num
<1> DEFINE r == Remainder(num[Digits - 1])[Bytes]
           y == W(Digits)
<1>10. y * Radix + r < 2 /\ y \in Nat /\ r \in Nat
  BY <1>7, <1>8, Sizes
<1> HIDE DEF r, y
<1>11. y = 0
  <2> SUFFICES ASSUME y >= 1 PROVE FALSE
    BY <1>10
  <2>1. y * Radix >= Radix /\ y * Radix \in Nat
    BY <1>10, Sizes
  <2> QED BY <1>10, <2>1, Sizes
<1>12. r < 2
  BY <1>10, <1>11, Sizes
<1> QED BY <1>9, <1>10, <1>11, <1>12 DEF y, r, num

\* The digits that encode spells are those of the number.
LEMMA EncodeValue ==
  ASSUME NEW bytes \in ByteArrays
  PROVE  Prefix(DigitsOf(bytes), Radix, Digits)[Digits] = Value(bytes)
<1> DEFINE num == Quotients(bytes)
           dig == DigitsOf(bytes)
           P   == Prefix(dig, Radix, Digits)
           T   == {d \in Nat : d <= Digits => P[d] = Value(num[Digits - d])}
<1>1. /\ num \in [0 .. Digits -> ByteArrays] /\ num[0] = bytes
      /\ \A i \in 1 .. Digits : num[i] = Quotient(num[i - 1])
  BY QuotientsRec
<1>2. /\ dig \in [1 .. Digits -> 0 .. Radix - 1]
      /\ \A d \in 1 .. Digits : dig[d] = Remainder(num[Digits - d])[Bytes]
  BY EncodeDigits DEF DigitsOf
<1>3. Value(num[Digits]) = 0
  BY EncodeFits
<1> HIDE DEF num, dig
<1>4. P[0] = 0 /\ \A d \in 1 .. Digits : P[d] = P[d - 1] * Radix + dig[d]
  <2>1. \A d \in 1 .. Digits : dig[d] \in Nat
    BY <1>2, Sizes
  <2>2. Digits \in Nat /\ Radix \in Nat
    BY Sizes
  <2> QED BY <2>1, <2>2, PrefixRec
<1> HIDE DEF P
<1>5. 0 \in T
  BY <1>3, <1>4, Sizes
<1>6. ASSUME NEW d \in T PROVE d + 1 \in T
  <2> SUFFICES ASSUME d + 1 <= Digits PROVE P[d + 1] = Value(num[Digits - (d + 1)])
    OBVIOUS
  <2> DEFINE k == Digits - (d + 1)
  <2>1. /\ P[d] = Value(num[Digits - d]) /\ d + 1 \in 1 .. Digits /\ (d + 1) - 1 = d
        /\ k \in 0 .. Digits /\ Digits - d = k + 1 /\ k + 1 \in 1 .. Digits /\ (k + 1) - 1 = k
    BY Sizes
  <2> HIDE DEF k
  <2>2. num[k] \in ByteArrays /\ num[k + 1] = Quotient(num[k])
    BY <1>1, <2>1
  <2>3. Value(num[k]) = Value(num[k + 1]) * Radix + Remainder(num[k])[Bytes]
    BY <2>2, Division
  <2>4. P[d + 1] = P[d] * Radix + dig[d + 1] /\ dig[d + 1] = Remainder(num[k])[Bytes]
    BY <1>2, <1>4, <2>1 DEF k
  <2>5. P[d + 1] = Value(num[k])
    BY <2>1, <2>3, <2>4
  <2> QED BY <2>5 DEF k
<1>7. Digits \in T
  <2>1. T \in SUBSET Nat
    OBVIOUS
  <2> HIDE DEF T
  <2> QED BY <1>5, <1>6, <2>1, Sizes, Induction
<1>8. P[Digits] = Value(num[0])
  BY <1>7, Sizes
<1> QED BY <1>1, <1>8 DEF P, dig

\* The carries of one pass of the multiplication.
LEMMA CarryRec ==
  ASSUME NEW acc \in ByteArrays, NEW digit \in 0 .. Radix - 1
  PROVE  /\ Carry(acc, digit) \in [0 .. Bytes -> Nat] /\ Carry(acc, digit)[0] = digit
         /\ \A i \in 1 .. Bytes :
              Carry(acc, digit)[i]
                = (acc[Bytes + 1 - i] * Radix + Carry(acc, digit)[i - 1]) \div ByteBase
<1> DEFINE step   == [p \in Nat \X (1 .. Bytes) |->
                        (acc[Bytes + 1 - p[2]] * Radix + p[1]) \div ByteBase]
           Rec(f) == f = [i \in 0 .. Bytes |->
                            IF i = 0 THEN digit
                            ELSE (acc[Bytes + 1 - i] * Radix + f[i - 1]) \div ByteBase]
           P      == Carry(acc, digit)
<1>1. \A v \in Nat, i \in 1 .. Bytes : (acc[Bytes + 1 - i] * Radix + v) \div ByteBase \in Nat
  <2> TAKE v \in Nat, i \in 1 .. Bytes
  <2>1. Bytes + 1 - i \in 1 .. Bytes
    BY Sizes
  <2>2. acc[Bytes + 1 - i] \in Nat
    BY <2>1, ValueFacts
  <2>3. acc[Bytes + 1 - i] * Radix + v \in Nat
    BY <2>2, Sizes
  <2> QED BY <2>3, Sizes, DivMod
<1>2. /\ step \in [Nat \X (1 .. Bytes) -> Nat]
      /\ \A v \in Nat, i \in 1 .. Bytes :
           step[<<v, i>>] = (acc[Bytes + 1 - i] * Radix + v) \div ByteBase
  BY <1>1
<1> HIDE DEF step
<1>3. digit \in Nat
  BY Sizes
<1>4. PICK f : Recurs(f, Bytes, Nat, digit, step)
  BY <1>2, <1>3, Sizes, Recursion, Zenon
<1>5. Rec(f)
  <2>1. \A i \in 0 .. Bytes : i # 0 => i \in 1 .. Bytes /\ f[i - 1] \in Nat
    BY <1>4, Sizes DEF Recurs
  <2> QED BY <1>2, <1>4, <2>1 DEF Recurs
<1>6. Rec(P)
  BY <1>5, Zenon DEF Carry
<1> HIDE DEF P
<1>7. /\ DOMAIN P = 0 .. Bytes /\ P = [i \in DOMAIN P |-> P[i]] /\ P[0] = digit
      /\ \A i \in 1 .. Bytes : P[i] = (acc[Bytes + 1 - i] * Radix + P[i - 1]) \div ByteBase
  <2>1. 0 \in 0 .. Bytes /\ \A i \in 1 .. Bytes : i \in 0 .. Bytes /\ i # 0
    BY Sizes
  <2> QED BY <1>6, <2>1
<1>8. P \in [0 .. Bytes -> Nat]
  <2>1. P[0] \in Nat
    BY <1>3, <1>7
  <2>2. ASSUME NEW i \in 1 .. Bytes, P[i - 1] \in Nat PROVE P[i] \in Nat
    <3>1. P[i] = (acc[Bytes + 1 - i] * Radix + P[i - 1]) \div ByteBase
      BY <1>7
    <3> QED BY <1>1, <2>2, <3>1
  <2> QED BY <1>7, <2>1, <2>2, Sizes, RecursionType, Zenon
<1> QED BY <1>7, <1>8 DEF P

\* One byte of the multiplication: it stays a byte and loses nothing but its
\* carry.
LEMMA ProductRec ==
  ASSUME NEW acc \in ByteArrays, NEW digit \in 0 .. Radix - 1
  PROVE  /\ Product(acc, digit) \in ByteArrays
         /\ \A j \in 1 .. Bytes :
              acc[j] * Radix + Carry(acc, digit)[Bytes - j]
                = Carry(acc, digit)[Bytes - (j - 1)] * ByteBase + Product(acc, digit)[j]
<1> DEFINE c == Carry(acc, digit)
           p == Product(acc, digit)
<1>1. /\ c \in [0 .. Bytes -> Nat]
      /\ \A i \in 1 .. Bytes : c[i] = (acc[Bytes + 1 - i] * Radix + c[i - 1]) \div ByteBase
  BY CarryRec
<1>2. /\ p = [j \in 1 .. Bytes |-> p[j]]
      /\ \A j \in 1 .. Bytes : p[j] = (acc[j] * Radix + c[Bytes - j]) % ByteBase
  BY DEF Product
<1> HIDE DEF c, p
<1>3. ASSUME NEW j \in 1 .. Bytes
      PROVE  /\ p[j] \in 0 .. ByteBase - 1
             /\ acc[j] * Radix + c[Bytes - j] = c[Bytes - (j - 1)] * ByteBase + p[j]
  <2> DEFINE i == Bytes - (j - 1)
             x == acc[j] * Radix + c[Bytes - j]
  <2>1. i \in 1 .. Bytes /\ i - 1 = Bytes - j /\ Bytes + 1 - i = j /\ Bytes - j \in 0 .. Bytes
    BY Sizes
  <2>2. x \in Nat
    <3>1. acc[j] \in Nat
      BY ValueFacts
    <3>2. c[Bytes - j] \in Nat
      BY <1>1, <2>1
    <3> QED BY <3>1, <3>2, Sizes
  <2> HIDE DEF i
  <2>3. c[i] = x \div ByteBase /\ p[j] = x % ByteBase
    BY <1>1, <1>2, <2>1
  <2> HIDE DEF x
  <2>4. x % ByteBase \in 0 .. ByteBase - 1 /\ x = (x \div ByteBase) * ByteBase + (x % ByteBase)
    BY <2>2, Sizes, DivMod
  <2>5. p[j] \in 0 .. ByteBase - 1 /\ x = c[i] * ByteBase + p[j]
    BY <2>3, <2>4
  <2> QED BY <2>5 DEF x, i
<1>4. p \in ByteArrays
  BY <1>2, <1>3 DEF ByteArrays
<1> QED BY <1>3, <1>4 DEF c, p

\* One pass of the multiplication multiplies the number, up to the last carry.
LEMMA Multiplication ==
  ASSUME NEW acc \in ByteArrays, NEW digit \in 0 .. Radix - 1
  PROVE  /\ Carry(acc, digit)[Bytes] \in Nat
         /\ Value(acc) * Radix + digit
              = Carry(acc, digit)[Bytes] * Power(ByteBase, Bytes) + Value(Product(acc, digit))
<1> DEFINE c == Carry(acc, digit)
           p == Product(acc, digit)
           A == Prefix(acc, ByteBase, Bytes)
           P == Prefix(p, ByteBase, Bytes)
           T == {j \in Nat : j <= Bytes =>
                   A[j] * Radix + c[Bytes - j] = c[Bytes] * Power(ByteBase, j) + P[j]}
<1>1. c \in [0 .. Bytes -> Nat] /\ c[0] = digit
  BY CarryRec
<1>2. /\ p \in ByteArrays
      /\ \A j \in 1 .. Bytes :
           acc[j] * Radix + c[Bytes - j] = c[Bytes - (j - 1)] * ByteBase + p[j]
  BY ProductRec
<1> HIDE DEF c, p
<1>3. /\ A \in [0 .. Bytes -> Nat] /\ A[0] = 0
      /\ \A i \in 1 .. Bytes : A[i] = A[i - 1] * ByteBase + acc[i]
  <2>1. \A i \in 1 .. Bytes : acc[i] \in Nat
    BY ValueFacts
  <2> QED BY <2>1, Sizes, PrefixRec
<1>4. /\ P \in [0 .. Bytes -> Nat] /\ P[0] = 0
      /\ \A i \in 1 .. Bytes : P[i] = P[i - 1] * ByteBase + p[i]
  <2>1. \A i \in 1 .. Bytes : p[i] \in Nat
    BY <1>2, ValueFacts
  <2> QED BY <2>1, Sizes, PrefixRec
<1> HIDE DEF A, P
<1>5. c[Bytes] \in Nat
  BY <1>1, Sizes
<1>6. 0 \in T
  <2>1. Power(ByteBase, 0) = 1
    BY Sizes, PowerRec
  <2> QED BY <1>3, <1>4, <1>5, <2>1, Sizes
<1>7. ASSUME NEW j \in T PROVE j + 1 \in T
  <2> SUFFICES ASSUME j + 1 <= Bytes
               PROVE  A[j + 1] * Radix + c[Bytes - (j + 1)]
                        = c[Bytes] * Power(ByteBase, j + 1) + P[j + 1]
    OBVIOUS
  <2>0. /\ j \in Nat /\ j \in 0 .. Bytes /\ j + 1 \in 1 .. Bytes /\ (j + 1) - 1 = j
        /\ Bytes - j \in 0 .. Bytes /\ Bytes - (j + 1) \in 0 .. Bytes
    BY Sizes
  <2> DEFINE x == A[j]
             y == P[j]
             u == c[Bytes - j]
             v == c[Bytes - (j + 1)]
             w == c[Bytes]
             a == acc[j + 1]
             b == p[j + 1]
             e == Power(ByteBase, j)
  <2>1. x * Radix + u = w * e + y
    BY <2>0
  <2>2. x \in Nat /\ y \in Nat /\ u \in Nat /\ v \in Nat /\ w \in Nat
    <3>1. x \in Nat /\ y \in Nat
      BY <1>3, <1>4, <2>0
    <3>2. u \in Nat /\ v \in Nat
      BY <1>1, <2>0
    <3> QED BY <1>5, <3>1, <3>2
  <2>3. a \in Nat /\ b \in Nat
    <3>1. a \in 0 .. ByteBase - 1 /\ b \in 0 .. ByteBase - 1
      BY <1>2, <2>0 DEF ByteArrays
    <3> QED BY <3>1, Sizes
  <2>4. A[j + 1] = x * ByteBase + a /\ P[j + 1] = y * ByteBase + b
    BY <1>3, <1>4, <2>0
  <2>5. a * Radix + v = u * ByteBase + b
    BY <1>2, <2>0
  <2>6. e \in Nat /\ Power(ByteBase, j + 1) = e * ByteBase
    BY <2>0, Sizes, PowerRec
  <2> HIDE DEF x, y, u, v, w, a, b, e
  <2>7. (x * ByteBase + a) * Radix = (x * Radix) * ByteBase + a * Radix
    BY <2>2, <2>3, Sizes
  <2>8. (x * Radix) * ByteBase + u * ByteBase = (w * e) * ByteBase + y * ByteBase
    <3>1. (x * Radix + u) * ByteBase = (x * Radix) * ByteBase + u * ByteBase
      BY <2>2, Sizes
    <3>2. (w * e + y) * ByteBase = (w * e) * ByteBase + y * ByteBase
      BY <2>2, <2>6, Sizes
    <3> QED BY <2>1, <3>1, <3>2
  <2>9. (w * e) * ByteBase = w * (e * ByteBase)
    BY <2>2, <2>6, Sizes
  <2>10. /\ (x * Radix) * ByteBase \in Nat /\ a * Radix \in Nat /\ u * ByteBase \in Nat
         /\ y * ByteBase \in Nat /\ w * (e * ByteBase) \in Nat
         /\ (x * ByteBase + a) * Radix \in Nat
    BY <2>2, <2>3, <2>6, Sizes
  <2>11. (x * ByteBase + a) * Radix + v = w * (e * ByteBase) + (y * ByteBase + b)
    <3> DEFINE l == (x * ByteBase + a) * Radix
               m == (x * Radix) * ByteBase
               n == a * Radix
               q == u * ByteBase
               r == w * (e * ByteBase)
               t == y * ByteBase
    <3>1. /\ l \in Nat /\ m \in Nat /\ n \in Nat /\ q \in Nat /\ r \in Nat /\ t \in Nat
          /\ l = m + n /\ m + q = r + t /\ n + v = q + b
      BY <2>5, <2>7, <2>8, <2>9, <2>10
    <3> HIDE DEF l, m, n, q, r, t
    <3>2. l + v = r + (t + b)
      BY <2>2, <2>3, <3>1
    <3> QED BY <3>2 DEF l, r, t
  <2> QED BY <2>4, <2>6, <2>11 DEF v, w
<1>8. Bytes \in T
  <2>1. T \in SUBSET Nat
    OBVIOUS
  <2> HIDE DEF T
  <2> QED BY <1>6, <1>7, <2>1, Sizes, Induction
<1>9. A[Bytes] * Radix + c[0] = c[Bytes] * Power(ByteBase, Bytes) + P[Bytes]
  BY <1>8, Sizes
<1> QED BY <1>1, <1>5, <1>9 DEF Value, A, P, c, p

\* A value takes one more digit exactly when the result is one: no overflow is
\* missed and none is reported in error.
LEMMA Accumulated ==
  ASSUME NEW acc \in ByteArrays, NEW digit \in 0 .. Radix - 1
  PROVE  Accumulate(acc, digit) = {p \in ByteArrays : Value(p) = Value(acc) * Radix + digit}
<1> DEFINE c == Carry(acc, digit)[Bytes]
           p == Product(acc, digit)
           e == Power(ByteBase, Bytes)
           v == Value(acc) * Radix + digit
<1>1. c \in Nat /\ v = c * e + Value(p)
  BY Multiplication
<1>2. p \in ByteArrays
  BY ProductRec
<1>3. v \in Nat
  <2>1. Value(acc) \in Nat /\ digit \in Nat
    BY ValueFacts, Sizes
  <2> QED BY <2>1, Sizes
<1>4. e \in Nat
  BY Sizes, PowerRec
<1>5. Accumulate(acc, digit) = IF c = 0 THEN {p} ELSE {}
  BY DEF Accumulate
<1> HIDE DEF c, p, e, v
<1>6. ASSUME c = 0 PROVE \A x \in ByteArrays : x = p <=> Value(x) = v
  <2>1. Value(p) \in Nat /\ Value(p) = v
    <3>1. Value(p) \in Nat
      BY <1>2, ValueFacts
    <3>2. 0 * e = 0
      BY <1>4
    <3> QED BY <1>1, <1>6, <3>1, <3>2
  <2> QED BY <1>2, <2>1, ValueFacts
<1>7. ASSUME c # 0, NEW x \in ByteArrays PROVE Value(x) # v
  <2>1. Value(x) \in Nat /\ Value(x) < e
    BY ValueFacts DEF e
  <2>2. c * e >= e /\ c * e \in Nat
    BY <1>1, <1>4, <1>7
  <2>3. Value(p) \in Nat
    BY <1>2, ValueFacts
  <2> QED BY <1>1, <1>3, <1>4, <2>1, <2>2, <2>3
<1>8. Accumulate(acc, digit) = {x \in ByteArrays : Value(x) = v}
  <2>1. CASE c = 0
    BY <1>2, <1>5, <1>6, <2>1
  <2>2. CASE c # 0
    BY <1>5, <1>7, <2>2
  <2> QED BY <2>1, <2>2
<1> QED BY <1>8 DEF v

\* A character is taken for at most one digit, and a digit's own for it.
LEMMA DigitFacts ==
  /\ \A ch : DigitOf(ch) \subseteq 0 .. Radix - 1 /\ \A d, e \in DigitOf(ch) : d = e
  /\ \A d \in 0 .. Radix - 1 : DigitOf(Alphabet[d + 1]) = {d}
<1>1. ASSUME NEW d \in 0 .. Radix - 1, NEW e \in 0 .. Radix - 1, Alphabet[d + 1] = Alphabet[e + 1]
      PROVE  d = e
  <2>1. d + 1 \in 1 .. Radix /\ e + 1 \in 1 .. Radix
    BY Sizes
  <2>2. d + 1 = e + 1
    BY <1>1, <2>1, Base32Assumption
  <2> QED BY <2>2, Sizes
<1>2. \A d \in 0 .. Radix - 1 : Alphabet[d + 1] % ByteBase = Alphabet[d + 1]
  BY Sizes
<1>3. \A ch : DigitOf(ch) \subseteq 0 .. Radix - 1 /\ \A d, e \in DigitOf(ch) : d = e
  BY <1>1 DEF DigitOf
<1>4. \A d \in 0 .. Radix - 1 : DigitOf(Alphabet[d + 1]) = {d}
  BY <1>1, <1>2 DEF DigitOf
<1> QED BY <1>3, <1>4

\* The value before the first digit.
LEMMA ZeroValue ==
  [i \in 1 .. Bytes |-> 0] \in ByteArrays /\ Value([i \in 1 .. Bytes |-> 0]) = 0
<1> DEFINE z == [i \in 1 .. Bytes |-> 0]
           P == Prefix(z, ByteBase, Bytes)
           T == {i \in Nat : i <= Bytes => P[i] = 0}
<1>1. z \in ByteArrays
  BY Sizes DEF ByteArrays
<1>2. \A i \in 1 .. Bytes : z[i] = 0
  OBVIOUS
<1> HIDE DEF z
<1>3. P[0] = 0 /\ \A i \in 1 .. Bytes : P[i] = P[i - 1] * ByteBase + z[i]
  <2>1. \A i \in 1 .. Bytes : z[i] \in Nat
    BY <1>2
  <2> QED BY <2>1, Sizes, PrefixRec
<1> HIDE DEF P
<1>4. 0 \in T
  BY <1>3
<1>5. ASSUME NEW i \in T PROVE i + 1 \in T
  <2> SUFFICES ASSUME i + 1 <= Bytes PROVE P[i + 1] = 0
    OBVIOUS
  <2>1. P[i] = 0 /\ i + 1 \in 1 .. Bytes /\ (i + 1) - 1 = i
    BY Sizes
  <2>2. P[i + 1] = 0 * ByteBase + 0
    BY <1>2, <1>3, <2>1
  <2> QED BY <2>2, Sizes
<1>6. Bytes \in T
  <2>1. T \in SUBSET Nat
    OBVIOUS
  <2> HIDE DEF T
  <2> QED BY <1>4, <1>5, <2>1, Sizes, Induction
<1>7. P[Bytes] = 0
  BY <1>6, Sizes
<1> QED BY <1>1, <1>7 DEF Value, P, z

\* The value, as a set, of each prefix of a text.
Read(s) ==
  CHOOSE f : f = [k \in 0 .. Digits |->
                    IF k = 0 THEN {[i \in 1 .. Bytes |-> 0]} ELSE Taken(f[k - 1], s[k])]

\* It obeys its recursion, and decode returns the last.
LEMMA ReadRec ==
  ASSUME NEW s
  PROVE  /\ Read(s) \in [0 .. Digits -> SUBSET ByteArrays]
         /\ Read(s)[0] = {[i \in 1 .. Bytes |-> 0]}
         /\ \A k \in 1 .. Digits : Read(s)[k] = Taken(Read(s)[k - 1], s[k])
         /\ Len(s) = Digits => decode(s) = Read(s)[Digits]
<1> DEFINE V      == SUBSET ByteArrays
           first  == {[i \in 1 .. Bytes |-> 0]}
           step   == [p \in V \X (1 .. Digits) |-> Taken(p[1], s[p[2]])]
           Rec(f) == f = [k \in 0 .. Digits |-> IF k = 0 THEN first ELSE Taken(f[k - 1], s[k])]
           P      == Read(s)
<1>1. ASSUME NEW v \in V, NEW k \in 1 .. Digits PROVE Taken(v, s[k]) \in V
  <2>1. ASSUME NEW a \in v, NEW d \in DigitOf(s[k]) PROVE Accumulate(a, d) \subseteq ByteArrays
    <3>1. a \in ByteArrays /\ d \in 0 .. Radix - 1
      BY <1>1, DigitFacts
    <3> QED BY <3>1, Accumulated
  <2> QED BY <2>1 DEF Taken
<1>2. /\ step \in [V \X (1 .. Digits) -> V]
      /\ \A v \in V, k \in 1 .. Digits : step[<<v, k>>] = Taken(v, s[k])
  <2> HIDE DEF V
  <2> QED BY <1>1
<1> HIDE DEF step
<1>3. first \in V
  BY ZeroValue
<1> HIDE DEF V, first
<1>4. PICK f : Recurs(f, Digits, V, first, step)
  BY <1>2, <1>3, Sizes, Recursion, Zenon
<1>5. Rec(f)
  <2>1. \A i \in 0 .. Digits : i # 0 => i \in 1 .. Digits /\ f[i - 1] \in V
    BY <1>4, Sizes DEF Recurs
  <2> QED BY <1>2, <1>4, <2>1 DEF Recurs
<1>6. Rec(P)
  BY <1>5, Zenon DEF Read, first
<1>7. Len(s) = Digits => decode(s) = P[Digits]
  BY Zenon DEF decode, Read
<1> HIDE DEF P
<1>8. /\ DOMAIN P = 0 .. Digits /\ P = [i \in DOMAIN P |-> P[i]] /\ P[0] = first
      /\ \A i \in 1 .. Digits : P[i] = Taken(P[i - 1], s[i])
  <2>1. 0 \in 0 .. Digits /\ \A i \in 1 .. Digits : i \in 0 .. Digits /\ i # 0
    BY Sizes
  <2> QED BY <1>6, <2>1
<1>9. P \in [0 .. Digits -> V]
  <2>1. P[0] \in V
    BY <1>3, <1>8
  <2>2. ASSUME NEW i \in 1 .. Digits, P[i - 1] \in V PROVE P[i] \in V
    BY <1>1, <1>8, <2>2
  <2> QED BY <1>8, <2>1, <2>2, Sizes, RecursionType, Zenon
<1> QED BY <1>7, <1>8, <1>9 DEF P, V, first

\* The digit that each character of a text is taken for.
DigitsIn(s) ==
  [i \in 1 .. Digits |-> IF DigitOf(s[i]) = {} THEN 0 ELSE CHOOSE d \in DigitOf(s[i]) : TRUE]

\* It is a digit, and the only one.
LEMMA DigitsInFacts ==
  ASSUME NEW s
  PROVE  /\ DigitsIn(s) \in [1 .. Digits -> 0 .. Radix - 1]
         /\ \A i \in 1 .. Digits : DigitOf(s[i]) # {} => DigitOf(s[i]) = {DigitsIn(s)[i]}
<1>1. ASSUME NEW i \in 1 .. Digits
      PROVE  /\ DigitsIn(s)[i] \in 0 .. Radix - 1
             /\ DigitOf(s[i]) # {} => DigitOf(s[i]) = {DigitsIn(s)[i]}
  <2>1. CASE DigitOf(s[i]) = {}
    <3>1. DigitsIn(s)[i] = 0
      BY <2>1 DEF DigitsIn
    <3> QED BY <2>1, <3>1, Sizes
  <2>2. CASE DigitOf(s[i]) # {}
    <3>1. DigitsIn(s)[i] = CHOOSE d \in DigitOf(s[i]) : TRUE
      BY <2>2 DEF DigitsIn
    <3>2. (CHOOSE d \in DigitOf(s[i]) : TRUE) \in DigitOf(s[i])
      BY <2>2
    <3> QED BY <3>1, <3>2, DigitFacts
  <2> QED BY <2>1, <2>2
<1> QED BY <1>1 DEF DigitsIn

\* decode returns the value whose number the digits of the text stand for, and
\* none when a character is no digit or no value has that number.
LEMMA DecodeMeans ==
  ASSUME NEW s, Len(s) = Digits
  PROVE  decode(s) = {a \in ByteArrays :
                        /\ \A i \in 1 .. Digits : DigitOf(s[i]) # {}
                        /\ Value(a) = Prefix(DigitsIn(s), Radix, Digits)[Digits]}
<1> DEFINE dig == DigitsIn(s)
           acc == Read(s)
           Q   == Prefix(dig, Radix, Digits)
           Spelled(k) == \A i \in 1 .. k : DigitOf(s[i]) # {}
           Goal(k)    == {a \in ByteArrays : Spelled(k) /\ Value(a) = Q[k]}
           T   == {k \in Nat : k <= Digits => acc[k] = Goal(k)}
<1>1. /\ acc[0] = {[i \in 1 .. Bytes |-> 0]} /\ decode(s) = acc[Digits]
      /\ \A k \in 1 .. Digits : acc[k] = Taken(acc[k - 1], s[k])
  BY ReadRec
<1>2. /\ dig \in [1 .. Digits -> 0 .. Radix - 1]
      /\ \A i \in 1 .. Digits : DigitOf(s[i]) # {} => DigitOf(s[i]) = {dig[i]}
  BY DigitsInFacts
<1> HIDE DEF dig, acc
<1>3. /\ Q \in [0 .. Digits -> Nat] /\ Q[0] = 0
      /\ \A k \in 1 .. Digits : Q[k] = Q[k - 1] * Radix + dig[k]
  <2>1. \A k \in 1 .. Digits : dig[k] \in Nat
    BY <1>2, Sizes
  <2>2. Digits \in Nat /\ Radix \in Nat
    BY Sizes
  <2> QED BY <2>1, <2>2, PrefixRec
<1> HIDE DEF Q
<1>4. 0 \in T
  <2>1. Spelled(0)
    OBVIOUS
  <2>2. \A a \in ByteArrays : Value(a) = 0 <=> a = [i \in 1 .. Bytes |-> 0]
    BY ZeroValue, ValueFacts
  <2>3. acc[0] = Goal(0)
    <3> HIDE DEF Spelled
    <3> QED BY <1>1, <1>3, <2>1, <2>2, ZeroValue
  <2> QED BY <2>3
<1>5. ASSUME NEW m \in T PROVE m + 1 \in T
  <2> SUFFICES ASSUME m + 1 <= Digits PROVE acc[m + 1] = Goal(m + 1)
    OBVIOUS
  <2> DEFINE k == m + 1
  <2>1. /\ m \in Nat /\ acc[m] = Goal(m) /\ k \in 1 .. Digits /\ k - 1 = m /\ m \in 0 .. Digits
    BY Sizes
  <2>2. /\ acc[k] = Taken(acc[m], s[k]) /\ Q[k] = Q[m] * Radix + dig[k]
        /\ dig[k] \in 0 .. Radix - 1 /\ Q[m] \in Nat
    BY <1>1, <1>2, <1>3, <2>1
  <2>3. Spelled(k) <=> Spelled(m) /\ DigitOf(s[k]) # {}
    <3>1. \A i \in 1 .. k : i \in 1 .. m \/ i = k
      BY <2>1
    <3>2. \A i \in 1 .. m : i \in 1 .. k
      BY <2>1
    <3>3. k \in 1 .. k
      BY <2>1
    <3> HIDE DEF k
    <3> QED BY <3>1, <3>2, <3>3
  <2> HIDE DEF k, Spelled
  <2>4. ASSUME NEW p \in acc[k] PROVE p \in Goal(k)
    <3>1. PICK a \in acc[m], d \in DigitOf(s[k]) : p \in Accumulate(a, d)
      BY <2>2, <2>4 DEF Taken
    <3>2. d = dig[k] /\ DigitOf(s[k]) # {}
      BY <1>2, <2>1, <3>1
    <3>3. a \in ByteArrays /\ Spelled(m) /\ Value(a) = Q[m]
      BY <2>1, <3>1
    <3>4. p \in ByteArrays /\ Value(p) = Value(a) * Radix + dig[k]
      BY <2>2, <3>1, <3>2, <3>3, Accumulated
    <3> QED BY <2>2, <2>3, <3>2, <3>3, <3>4
  <2>5. ASSUME NEW p \in Goal(k) PROVE p \in acc[k]
    <3> DEFINE a == Quotient(p)
               r == Remainder(p)[Bytes]
    <3>1. p \in ByteArrays /\ Spelled(m) /\ DigitOf(s[k]) = {dig[k]} /\ Value(p) = Q[m] * Radix + dig[k]
      BY <1>2, <2>1, <2>2, <2>3, <2>5
    <3>2. a \in ByteArrays /\ r \in 0 .. Radix - 1 /\ Value(p) = Value(a) * Radix + r
      BY <3>1, QuotientRec, Division
    <3> HIDE DEF a, r
    <3>3. Value(a) = Q[m]
      <4> DEFINE x == Value(a)
                 y == Q[m]
                 d == dig[k]
      <4>1. x \in Nat /\ y \in Nat /\ r \in Nat /\ r < Radix /\ d \in Nat /\ d < Radix
        <5>1. x \in Nat
          BY <3>2, ValueFacts
        <5> QED BY <2>2, <3>2, <5>1, Sizes
      <4>2. SameNumber(x, r, y, d, Radix)
        BY <3>1, <3>2 DEF SameNumber
      <4> HIDE DEF x, y, d
      <4>3. x = y
        BY <4>1, <4>2, Sizes, LastDigit
      <4> QED BY <4>3 DEF x, y
    <3>4. a \in acc[m]
      BY <2>1, <3>1, <3>2, <3>3
    <3>5. p \in Accumulate(a, dig[k])
      BY <2>2, <3>1, <3>2, <3>3, Accumulated
    <3> QED BY <2>2, <3>1, <3>4, <3>5 DEF Taken
  <2>6. acc[k] = Goal(k)
    <3>1. acc[k] \subseteq Goal(k)
      BY <2>4
    <3>2. Goal(k) \subseteq acc[k]
      BY <2>5
    <3> QED BY <3>1, <3>2
  <2> QED BY <2>6 DEF k
<1>6. Digits \in T
  <2>1. T \in SUBSET Nat
    OBVIOUS
  <2> HIDE DEF T
  <2> QED BY <1>4, <1>5, <2>1, Sizes, Induction
<1>7. acc[Digits] = Goal(Digits)
  BY <1>6, Sizes
<1> QED BY <1>1, <1>7 DEF Q, dig

\* What decode reads in the spelling of a value are the digits that encode took.
LEMMA SpellingRead ==
  ASSUME NEW bytes \in ByteArrays
  PROVE  LET s == encode(bytes)
         IN  /\ Len(s) = Digits /\ DOMAIN s = 1 .. Digits
             /\ \A i \in 1 .. Digits : /\ DigitOf(s[i]) = {DigitsOf(bytes)[i]}
                                       /\ s[i] = Alphabet[DigitsOf(bytes)[i] + 1]
             /\ DigitsIn(s) = DigitsOf(bytes)
             /\ [i \in 1 .. Digits |-> CHOOSE d \in DigitOf(s[i]) : TRUE] = DigitsOf(bytes)
<1> DEFINE s   == encode(bytes)
           dig == DigitsOf(bytes)
<1>1. dig \in [1 .. Digits -> 0 .. Radix - 1] /\ s = [d \in 1 .. Digits |-> Alphabet[dig[d] + 1]]
  BY EncodeDigits
<1> HIDE DEF s, dig
<1>2. Len(s) = Digits /\ DOMAIN s = 1 .. Digits
  BY <1>1, Sizes
<1>3. \A i \in 1 .. Digits : DigitOf(s[i]) = {dig[i]} /\ s[i] = Alphabet[dig[i] + 1]
  BY <1>1, DigitFacts
<1>4. \A i \in 1 .. Digits : (CHOOSE d \in DigitOf(s[i]) : TRUE) = dig[i]
  <2> TAKE i \in 1 .. Digits
  <2>1. (CHOOSE d \in {dig[i]} : TRUE) = dig[i]
    OBVIOUS
  <2> QED BY <1>3, <2>1
<1>5. [i \in 1 .. Digits |-> CHOOSE d \in DigitOf(s[i]) : TRUE] = dig
  BY <1>1, <1>4
<1>6. DigitsIn(s) = dig
  <2> DEFINE read == DigitsIn(s)
  <2>1. /\ read \in [1 .. Digits -> 0 .. Radix - 1]
        /\ \A i \in 1 .. Digits : DigitOf(s[i]) # {} => DigitOf(s[i]) = {read[i]}
    BY DigitsInFacts
  <2>2. dig \in [1 .. Digits -> 0 .. Radix - 1]
    BY <1>1
  <2> HIDE DEF read
  <2>3. ASSUME NEW i \in 1 .. Digits PROVE read[i] = dig[i]
    <3>1. DigitOf(s[i]) = {dig[i]}
      BY <1>3
    <3>2. DigitOf(s[i]) = {read[i]}
      BY <2>1, <3>1
    <3> QED BY <3>1, <3>2
  <2>4. read = [i \in 1 .. Digits |-> read[i]] /\ dig = [i \in 1 .. Digits |-> dig[i]]
    BY <2>1, <2>2
  <2>5. [i \in 1 .. Digits |-> read[i]] = [i \in 1 .. Digits |-> dig[i]]
    BY <2>3
  <2>6. read = dig
    BY <2>4, <2>5, Zenon
  <2> QED BY <2>6 DEF read
<1> QED BY <1>2, <1>3, <1>5, <1>6 DEF s, dig

\* Every value has a spelling of its own, for every size of bytes and digits:
\* encode gives the digits of the number, is_canonical accepts them and decode
\* returns the value again.
THEOREM SpellingRoundTrip ==
  ASSUME NEW bytes \in ByteArrays
  PROVE  LET s == encode(bytes)
         IN  /\ Number([i \in 1 .. Digits |-> CHOOSE d \in DigitOf(s[i]) : TRUE], Radix)
                  = Number(bytes, ByteBase)
             /\ is_canonical(s)
             /\ decode(s) = {bytes}
<1> DEFINE s   == encode(bytes)
           dig == DigitsOf(bytes)
<1>1. /\ Len(s) = Digits
      /\ \A i \in 1 .. Digits : DigitOf(s[i]) = {dig[i]} /\ s[i] = Alphabet[dig[i] + 1]
      /\ DigitsIn(s) = dig
      /\ [i \in 1 .. Digits |-> CHOOSE d \in DigitOf(s[i]) : TRUE] = dig
  BY SpellingRead
<1>2. Prefix(dig, Radix, Digits)[Digits] = Value(bytes)
  BY EncodeValue
<1>3. dig \in [1 .. Digits -> 0 .. Radix - 1] /\ dig[1] \in {0, 1}
  BY EncodeDigits, EncodeFits
<1> HIDE DEF s, dig
<1>4. decode(s) = {bytes}
  <2>1. decode(s) = {a \in ByteArrays :
                       /\ \A i \in 1 .. Digits : DigitOf(s[i]) # {}
                       /\ Value(a) = Value(bytes)}
    <3>1. decode(s) = {a \in ByteArrays :
                         /\ \A i \in 1 .. Digits : DigitOf(s[i]) # {}
                         /\ Value(a) = Prefix(DigitsIn(s), Radix, Digits)[Digits]}
      BY <1>1, DecodeMeans
    <3>2. Prefix(DigitsIn(s), Radix, Digits)[Digits] = Value(bytes)
      BY <1>1, <1>2
    <3> QED BY <3>1, <3>2
  <2>2. \A i \in 1 .. Digits : DigitOf(s[i]) # {}
    BY <1>1
  <2>3. \A a \in ByteArrays : Value(a) = Value(bytes) <=> a = bytes
    BY ValueFacts
  <2> QED BY <2>1, <2>2, <2>3
<1>5. is_canonical(s)
  <2>1. 1 \in 1 .. Digits
    BY Sizes
  <2>2. s[1] = Alphabet[dig[1] + 1] /\ 0 + 1 = 1 /\ 1 + 1 = 2
    BY <1>1, <2>1
  <2>3. s[1] \in {Alphabet[1], Alphabet[2]}
    BY <1>3, <2>2
  <2> QED BY <1>4, <2>3 DEF is_canonical
<1>6. Number(dig, Radix) = Number(bytes, ByteBase)
  <2>1. Len(dig) = Digits
    BY <1>3, Sizes
  <2>2. Number(dig, Radix) = Value(bytes)
    BY <1>2, <2>1, NumberPrefix
  <2> QED BY <2>2, ValueFacts
<1> QED BY <1>1, <1>4, <1>5, <1>6 DEF s

\* A text of as many one-byte characters as a spelling has is taken for an
\* identifier exactly when it is the spelling of a value, for every size of bytes
\* and digits; the test of the first character refuses nothing that decode
\* accepts.
THEOREM SpellingCanonical ==
  ASSUME NEW s \in [1 .. Digits -> 0 .. ByteBase - 1]
  PROVE  /\ is_canonical(s) <=> \E b \in ByteArrays : encode(b) = s
         /\ is_canonical(s) <=> decode(s) # {}
<1>1. ASSUME NEW a \in decode(s) PROVE a \in ByteArrays /\ encode(a) = s
  <2>0. Len(s) = Digits
    BY Sizes
  <2>1. /\ a \in ByteArrays /\ \A i \in 1 .. Digits : DigitOf(s[i]) # {}
        /\ Value(a) = Prefix(DigitsIn(s), Radix, Digits)[Digits]
    BY <1>1, <2>0, DecodeMeans
  <2>2. DigitsIn(s) = DigitsOf(a)
    <3>1. Prefix(DigitsOf(a), Radix, Digits)[Digits] = Prefix(DigitsIn(s), Radix, Digits)[Digits]
      BY <2>1, EncodeValue
    <3>2. DigitsIn(s) \in [1 .. Digits -> 0 .. Radix - 1]
      BY DigitsInFacts
    <3>3. DigitsOf(a) \in [1 .. Digits -> 0 .. Radix - 1]
      BY <2>1, EncodeDigits
    <3>4. Digits \in Nat /\ Radix \in Nat
      BY Sizes
    <3> QED BY <3>1, <3>2, <3>3, <3>4, PrefixInjective
  <2>3. ASSUME NEW i \in 1 .. Digits PROVE Alphabet[DigitsIn(s)[i] + 1] = s[i]
    <3>1. DigitsIn(s)[i] \in DigitOf(s[i])
      <4>1. \A j \in 1 .. Digits : DigitOf(s[j]) # {} => DigitOf(s[j]) = {DigitsIn(s)[j]}
        BY DigitsInFacts
      <4> QED BY <2>1, <4>1
    <3>2. Alphabet[DigitsIn(s)[i] + 1] = s[i] % ByteBase
      BY <3>1 DEF DigitOf
    <3>3. s[i] \in Nat /\ s[i] < ByteBase
      BY Sizes
    <3>4. s[i] % ByteBase = s[i]
      <4> DEFINE x == s[i]
      <4>1. x \in Nat /\ x < ByteBase
        BY <3>3
      <4> HIDE DEF x
      <4>2. x % ByteBase = x
        BY <4>1, Sizes
      <4> QED BY <4>2 DEF x
    <3> QED BY <3>2, <3>4
  <2>4. encode(a) = [i \in 1 .. Digits |-> Alphabet[DigitsIn(s)[i] + 1]]
    BY <2>1, <2>2, EncodeDigits
  <2>5. encode(a) = s
    BY <2>3, <2>4
  <2> QED BY <2>1, <2>5
<1>2. ASSUME NEW b \in ByteArrays, encode(b) = s PROVE is_canonical(s)
  BY <1>2, SpellingRoundTrip
<1>3. is_canonical(s) => decode(s) # {}
  BY DEF is_canonical
<1>4. decode(s) # {} => \E b \in ByteArrays : encode(b) = s
  BY <1>1
<1> QED BY <1>2, <1>3, <1>4

\* IdsRoundTrip holds in every run, for every value of the constants: encode,
\* decode and is_canonical agree on every value.
THEOREM IdsRoundTripSafe == Spec => []IdsRoundTrip
<1> DEFINE InputOK == input.of = "encode" => input.bytes \in ByteArrays
<1>1. Init => InputOK
  BY DEF Init
<1>2. InputOK /\ [Next]_<<input, jsonVars>> => InputOK'
  BY DEF Next
<1>3. InputOK => IdsRoundTrip
  BY SpellingRoundTrip DEF IdsRoundTrip
<1> QED BY <1>1, <1>2, <1>3, PTL DEF Spec

\* IdsCanonical holds in every run, for every value of the constants: a text of
\* one-byte characters is taken for an identifier exactly when it is a spelling.
THEOREM IdsCanonicalSafe == Spec => []IdsCanonical
<1> DEFINE InputOK == input.of = "decode" => input.text \in SpelledInputs
<1>1. Init => InputOK
  BY DEF Init
<1>2. InputOK /\ [Next]_<<input, jsonVars>> => InputOK'
  BY DEF Next
<1>3. InputOK => IdsCanonical
  <2> SUFFICES ASSUME NEW s \in SpelledInputs, \A i \in DOMAIN s : s[i] < ByteBase
               PROVE  /\ is_canonical(s) <=> \E b \in ByteArrays : encode(b) = s
                      /\ is_canonical(s) <=> decode(s) # {}
    BY DEF IdsCanonical
  <2>1. CASE s \in [1 .. Digits -> Characters]
    <3>1. \A c \in Characters : c \in Nat
      BY Sizes, Base32Assumption DEF Characters
    <3>2. \A i \in 1 .. Digits : s[i] \in 0 .. ByteBase - 1
      BY <2>1, <3>1, Sizes
    <3>3. s \in [1 .. Digits -> 0 .. ByteBase - 1]
      BY <2>1, <3>2
    <3> QED BY <3>3, SpellingCanonical
  <2>2. CASE s \in [1 .. Digits - 1 -> {Alphabet[1]}]
    <3>1. Len(s) = Digits - 1 /\ Digits - 1 # Digits /\ DOMAIN s = 1 .. Digits - 1
      BY <2>2, Sizes
    <3>2. decode(s) = {}
      BY <3>1 DEF decode
    <3>3. \A b \in ByteArrays : encode(b) # s
      <4> TAKE b \in ByteArrays
      <4>1. Len(encode(b)) = Digits
        BY SpellingRead
      <4> QED BY <3>1, <4>1
    <3> QED BY <3>2, <3>3 DEF is_canonical
  <2> QED BY <2>1, <2>2 DEF SpelledInputs
<1> QED BY <1>1, <1>2, <1>3, PTL DEF Spec
=============================================================================
