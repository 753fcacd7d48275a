----------------------------- MODULE Discovery -----------------------------
(***************************************************************************)
(* What one node's passes read from the bucket while `wg-server apply`     *)
(* runs: discover_and_download of wg-client composed with Publish.         *)
(*                                                                         *)
(* The node reads current.json, then the file of its host that the         *)
(* `current` entry names; the generation may be retired in between, and    *)
(* then it starts again, at most MAX_DISCOVERY_ROUNDS times.  Each         *)
(* get_object is one step.  Reading changes nothing in the bucket.         *)
(***************************************************************************)
EXTENDS Publish

CONSTANTS
  Me,                 \* this node's hostname
  MaxDiscoveryRounds  \* MAX_DISCOVERY_ROUNDS

VARIABLES
  at,      \* "away", or the object to be read next: "pointer" or "file"
  found,   \* the `current` entry read in this round
  round,   \* rounds of this pass that met a retired generation
  answer,  \* how the last pass ended
  last,    \* the generation the node downloaded last, None before the first
  left,    \* the generations it had before that one
  moves    \* publications since this pass began

readVars == <<at, found, round, answer, last, left, moves>>

ASSUME DiscoveryAssumption ==
  /\ Me \in Hosts
  /\ MaxDiscoveryRounds \in Nat \ {0}
  /\ None \notin Gens
-----------------------------------------------------------------------------
\* discovery::validate.  IDs, digests and hostnames are well formed by type.
ValidEntry(e) == \E h \in Hosts : e.nodes[h] # None
Valid(doc) ==
  /\ doc.current = None => doc.previous = None
  /\ doc.current # None /\ doc.previous # None =>
       doc.current.id # doc.previous.id
  /\ \A e \in {doc.current, doc.previous} \ {None} : ValidEntry(e)

\* discover_and_download returns, or the pass is killed.
Leave(a) ==
  /\ answer' = a
  /\ at' = "away" /\ found' = None /\ round' = 0 /\ moves' = 0

DiscoveryInit ==
  /\ Init
  /\ at = "away" /\ found = None /\ round = 0 /\ answer = "none"
  /\ last = None /\ left = {} /\ moves = 0

Depart ==
  /\ at = "away"
  /\ at' = "pointer" /\ answer' = "none"
  /\ UNCHANGED <<found, round, last, left, moves>>

\* Does the document name a configuration for this node?
Usable(doc) == doc.current # None /\ doc.current.nodes[Me] # None

\* current.json is missing or invalid, has no generation or not this host.
PointerUnusable ==
  /\ at = "pointer"
  /\ IF pointer # None /\ ~Valid(pointer)
     THEN Leave("invalid")
     ELSE (pointer # None => ~Usable(pointer)) /\ Leave("absent")
  /\ UNCHANGED <<last, left>>

PointerRead ==
  /\ at = "pointer"
  /\ pointer # None /\ Valid(pointer) /\ Usable(pointer)
  /\ found' = pointer.current
  /\ at' = "file"
  /\ UNCHANGED <<round, answer, last, left, moves>>

FileStored == files[Key(found.id, Me)]

FileRead ==
  /\ at = "file"
  /\ FileStored # None
  /\ IF FileStored = found.nodes[Me]
     THEN /\ Leave("found")
          /\ last' = found.id
          /\ left' = IF last \in {None, found.id} THEN left ELSE left \cup {last}
     ELSE Leave("mismatch") /\ UNCHANGED <<last, left>>

\* Mutant: one round too many.
FileGoneOnceMore ==
  /\ at = "file"
  /\ FileStored = None
  /\ \/ /\ round < MaxDiscoveryRounds
        /\ round' = round + 1
        /\ at' = "pointer" /\ found' = None
        /\ UNCHANGED <<answer, moves>>
     \/ round >= MaxDiscoveryRounds /\ Leave("exhausted")
  /\ UNCHANGED <<last, left>>

\* A retired generation: discover again, or give up.
FileGone ==
  /\ at = "file"
  /\ FileStored = None
  /\ \/ /\ round + 1 < MaxDiscoveryRounds
        /\ round' = round + 1
        /\ at' = "pointer" /\ found' = None
        /\ UNCHANGED <<answer, moves>>
     \/ round + 1 >= MaxDiscoveryRounds /\ Leave("exhausted")
  /\ UNCHANGED <<last, left>>

\* A get_object fails after the SDK's attempts, or the process ends.
ReadFailed ==
  /\ at # "away"
  /\ Leave("error")
  /\ UNCHANGED <<last, left>>

Read ==
  \/ Depart \/ PointerUnusable \/ PointerRead
  \/ FileRead \/ FileGone \/ ReadFailed

Generation(doc) == IF doc = None \/ doc.current = None
                   THEN None ELSE doc.current.id

\* A step of the server, seen by a pass that is under way.
Served ==
  /\ Next
  /\ moves' = IF at # "away" /\ Generation(pointer') # Generation(pointer)
              THEN moves + 1 ELSE moves
  /\ UNCHANGED <<at, found, round, answer, last, left>>

DiscoveryNext == (Read /\ UNCHANGED vars) \/ Served

DiscoverySpec == DiscoveryInit /\ [][DiscoveryNext]_<<vars, readVars>>
-----------------------------------------------------------------------------
DiscoveryTypeOK ==
  /\ at \in {"away", "pointer", "file"}
  /\ found \in GenerationEntry \cup {None}
  /\ round \in 0 .. MaxDiscoveryRounds - 1
  /\ answer \in {"none", "absent", "invalid", "found", "mismatch",
                 "exhausted", "error"}
  /\ last \in Gens \cup {None}
  /\ left \subseteq Gens
  /\ moves \in Nat

\* Whatever the server does, wherever its runs are killed and whenever its
\* lost requests arrive, a node accepts what it reads: the pointer passes
\* discovery::validate and a file that is there has the digest the pointer
\* gave, even if the pointer has moved on since it was read.
Accepted == answer \notin {"invalid", "mismatch"}

\* A node never goes back to a generation it has left: a late commit of a
\* dead run does not bring an old generation back (put_if_match's ETag).
NeverGoesBack == last \notin left

\* A round is lost only to two publications: the generation a pass has read
\* is retained as `previous` until a second one replaces it, so a pass can
\* give up only if the server publishes twice in each of its rounds.
RoundsPaidFor ==
  [][round' > round \/ (answer' = "exhausted" /\ answer # "exhausted")
       => moves >= 2 * (round + 1)]_<<vars, readVars>>
=============================================================================
