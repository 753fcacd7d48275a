------------------------------ MODULE Publish ------------------------------
(***************************************************************************)
(* The publication protocol of `wg-server apply`: runs of apply() that     *)
(* read current.json, upload one configuration object per host under a     *)
(* fresh generation ID, commit by a conditional replacement of             *)
(* current.json, and then delete the generations that are not retained.    *)
(*                                                                         *)
(* Each storage call is one step.  A call may be answered, refused with    *)
(* 412, or lost: a lost attempt is parked in one of the late* sets and may *)
(* reach the bucket at any later time, even after its job has ended, or    *)
(* never.  A job may fail (storage error, panic, kill) between any two     *)
(* steps.                                                                  *)
(*                                                                         *)
(* Abstracted: a rendered configuration is a member of Contents and its    *)
(* SHA-256 digest is the content itself; an ETag is determined by the      *)
(* object's bytes; base32::random_id never repeats.                        *)
(***************************************************************************)
EXTENDS Integers, FiniteSets

CONSTANTS
  Jobs,               \* invocations of apply that may be alive together
  Hosts,              \* hostnames, numbered in BTreeSet order
  Contents,           \* rendered configuration texts
  None,               \* no object, no generation entry
  Graces,             \* grace periods in use: "default" or "zero"
  DryRuns,            \* values of --dry-run in use
  Serialized,         \* does the scheduler exclude overlapping jobs?
  JobDeadline,        \* does every job end well before the grace period?
  MaxRuns,            \* bound: runs of apply in a behaviour
  MaxPointerRetries,  \* MAX_POINTER_RETRIES
  MaxAttempts,        \* RETRY_MAX_ATTEMPTS of the SDK client
  MaxLate             \* bound: lost requests in flight

VARIABLES
  pointer,      \* current.json, None while the key is absent
  files,        \* nodes/<host>/<id>.conf objects, None where absent
  old,          \* the objects older than the default grace period
  lateInits,    \* put_if_absent(current.json) attempts in flight
  lateCommits,  \* put_if_match(current.json) attempts in flight
  latePuts,     \* put_if_absent(nodes/...) attempts in flight
  lateDeletes,  \* delete attempts in flight
  runs,         \* how many runs of apply have started
  pc,           \* where each job is in apply()
  run,          \* its run number, which its random IDs come from
  want,         \* desired_hostnames
  zero,         \* is its grace period zero (--prune or --rotate)?
  dry,          \* opts.dry_run
  base,         \* the pointer it planned against
  etag,         \* the ETag its next put_if_match names
  intent,       \* final_pointer
  todo,         \* hosts still to upload
  doomed,       \* objects still to delete
  rounds,       \* put_if_match calls made by commit_pointer
  tries,        \* attempts already lost of the current request
  since         \* with JobDeadline: the objects stored since the job began

bucketVars == <<pointer, files, old>>
lateVars   == <<lateInits, lateCommits, latePuts, lateDeletes>>
jobVars    == <<pc, run, want, zero, dry, base, etag, intent, todo, doomed,
                rounds, tries, since>>
planVars   == <<run, want, zero, dry, base>>
vars       == <<bucketVars, lateVars, runs, jobVars>>

ASSUME ConstantsAssumption ==
  /\ Hosts \subseteq Nat
  /\ None \notin Contents
  /\ Graces \subseteq {"default", "zero"}
  /\ DryRuns \subseteq BOOLEAN
  /\ Serialized \in BOOLEAN
  /\ JobDeadline \in BOOLEAN
  /\ MaxRuns \in Nat
  /\ MaxPointerRetries \in Nat
  /\ MaxAttempts \in Nat
  /\ MaxLate \in Nat
-----------------------------------------------------------------------------
\* What the bucket holds.  Generation 0 is what an operator left behind.
Gens   == 0 .. MaxRuns
Keys   == Gens \X Hosts
NodeMap == [Hosts -> Contents \cup {None}]
GenerationEntry == [id : Gens, nodes : NodeMap]
CurrentJson == [revision : Nat,
                current  : GenerationEntry \cup {None},
                previous : GenerationEntry \cup {None}]

ASSUME NoneAssumption == None \notin CurrentJson /\ None \notin GenerationEntry

\* node_object_key
Key(id, h) == <<id, h>>

\* The tag the bucket gives the object that holds these bytes.
ETag(doc) == doc.revision

\* The random IDs drawn by run n: the empty pointer's and the new pointer's
\* revision.  The generation ID of run n is n.
EmptyRevision(n) == 2 * n - 1
NewRevision(n)   == 2 * n

EmptyPointer(n) ==
  [revision |-> EmptyRevision(n), current |-> None, previous |-> None]

\* The configurations render_node_config can produce for these hosts.
Rendered(hosts) ==
  {m \in NodeMap : \A h \in Hosts : (m[h] # None) <=> (h \in hosts)}

\* Mutant: cleanup forgets the previous generation.
RetainedCurrentOnly(doc) ==
  {id \in Gens : doc.current # None /\ doc.current.id = id}

\* The generation IDs retention::cleanup keeps.
Retained(doc) ==
  {id \in Gens : \/ doc.current # None /\ doc.current.id = id
                 \/ doc.previous # None /\ doc.previous.id = id}

\* Are the files of entry e that fetch_reusable_configs reads all stored,
\* with the digest the pointer gives?
Intact(e, hosts) ==
  e # None => \A h \in hosts : e.nodes[h] # None =>
                                 files[Key(e.id, h)] = e.nodes[h]

\* h is the first of a BTreeSet of hostnames.
First(h, S) == h \in S /\ \A g \in S : h =< g

Idle(j) == pc[j] = "idle"
Goto(j, l) == pc' = [pc EXCEPT ![j] = l]
LateCount == Cardinality(lateInits) + Cardinality(lateCommits)
               + Cardinality(latePuts) + Cardinality(lateDeletes)

\* An attempt is answered: the SDK had one left, and the next request
\* starts its own count.
Answered(j) == /\ tries[j] < MaxAttempts
               /\ tries' = [tries EXCEPT ![j] = 0]

\* An attempt is lost; the job is still waiting in the same call.
Lost(j) == /\ tries[j] < MaxAttempts
           /\ LateCount < MaxLate
           /\ tries' = [tries EXCEPT ![j] = @ + 1]

\* An object was stored: it is young, and younger than every live job.
Stored(k) ==
  /\ old' = old \ {k}
  /\ since' = [j \in Jobs |-> IF JobDeadline /\ ~Idle(j)
                              THEN since[j] \cup {k} ELSE since[j]]

\* apply() returns, or its process ends: its memory is gone.
End(j) ==
  /\ Goto(j, "idle")
  /\ run'    = [run EXCEPT ![j] = 0]
  /\ want'   = [want EXCEPT ![j] = {}]
  /\ zero'   = [zero EXCEPT ![j] = FALSE]
  /\ dry'    = [dry EXCEPT ![j] = FALSE]
  /\ base'   = [base EXCEPT ![j] = None]
  /\ etag'   = [etag EXCEPT ![j] = 0]
  /\ intent' = [intent EXCEPT ![j] = None]
  /\ todo'   = [todo EXCEPT ![j] = {}]
  /\ doomed' = [doomed EXCEPT ![j] = {}]
  /\ rounds' = [rounds EXCEPT ![j] = 0]
  /\ tries'  = [tries EXCEPT ![j] = 0]
  /\ since'  = [since EXCEPT ![j] = {}]
-----------------------------------------------------------------------------
Init ==
  /\ pointer = None
  /\ \/ files = [k \in Keys |-> None]
     \/ \E c \in Contents :
          files = [k \in Keys |-> IF k[1] = 0 THEN c ELSE None]
  /\ old = {}
  /\ lateInits = {} /\ lateCommits = {} /\ latePuts = {} /\ lateDeletes = {}
  /\ runs = 0
  /\ pc     = [j \in Jobs |-> "idle"]
  /\ run    = [j \in Jobs |-> 0]
  /\ want   = [j \in Jobs |-> {}]
  /\ zero   = [j \in Jobs |-> FALSE]
  /\ dry    = [j \in Jobs |-> FALSE]
  /\ base   = [j \in Jobs |-> None]
  /\ etag   = [j \in Jobs |-> 0]
  /\ intent = [j \in Jobs |-> None]
  /\ todo   = [j \in Jobs |-> {}]
  /\ doomed = [j \in Jobs |-> {}]
  /\ rounds = [j \in Jobs |-> 0]
  /\ tries  = [j \in Jobs |-> 0]
  /\ since  = [j \in Jobs |-> {}]

(***************************************************************************)
(* main and apply(): the options and the validated topology of a run.      *)
(***************************************************************************)
Start(j) ==
  /\ Idle(j)
  /\ Serialized => \A i \in Jobs : Idle(i)
  /\ runs < MaxRuns
  /\ \E hosts \in (SUBSET Hosts) \ {{}}, g \in Graces, d \in DryRuns :
       /\ want' = [want EXCEPT ![j] = hosts]
       /\ zero' = [zero EXCEPT ![j] = (g = "zero")]
       /\ dry'  = [dry EXCEPT ![j] = d]
  /\ runs' = runs + 1
  /\ run'  = [run EXCEPT ![j] = runs + 1]
  /\ Goto(j, "fetch")
  /\ UNCHANGED <<bucketVars, lateVars, base, etag, intent, todo, doomed,
                 rounds, tries, since>>

(***************************************************************************)
(* fetch_current_pointer                                                   *)
(***************************************************************************)
\* The job takes doc, and its ETag, as what it plans against.
Adopt(j, doc) ==
  /\ base' = [base EXCEPT ![j] = doc]
  /\ etag' = [etag EXCEPT ![j] = ETag(doc)]
  /\ Goto(j, "files")

FetchPointer(j) ==
  /\ pc[j] = "fetch"
  /\ \/ pointer # None /\ Adopt(j, pointer)
     \/ pointer = None /\ Goto(j, "list") /\ UNCHANGED <<base, etag>>
  /\ UNCHANGED <<bucketVars, lateVars, runs, run, want, zero, dry, intent,
                 todo, doomed, rounds, tries, since>>

\* A bucket with node objects but no pointer is refused.
ListOrphaned(j) ==
  /\ pc[j] = "list"
  /\ \E k \in Keys : files[k] # None
  /\ End(j)
  /\ UNCHANGED <<bucketVars, lateVars, runs>>

ListEmpty(j) ==
  /\ pc[j] = "list"
  /\ \A k \in Keys : files[k] = None
  /\ \/ dry[j] /\ Adopt(j, EmptyPointer(run[j]))
     \/ ~dry[j] /\ Goto(j, "init") /\ UNCHANGED <<base, etag>>
  /\ UNCHANGED <<bucketVars, lateVars, runs, run, want, zero, dry, intent,
                 todo, doomed, rounds, tries, since>>

InitWritten(j) ==
  /\ pc[j] = "init"
  /\ pointer = None
  /\ Answered(j)
  /\ pointer' = EmptyPointer(run[j])
  /\ Adopt(j, EmptyPointer(run[j]))
  /\ UNCHANGED <<files, old, lateVars, runs, run, want, zero, dry, intent,
                 todo, doomed, rounds, since>>

\* 412.  Here and below a refusal needs no justification: the bucket may
\* give it to a request whose condition holds, which commit_pointer's retry
\* against an unchanged baseline is there for.
InitRefused(j) ==
  /\ pc[j] = "init"
  /\ Answered(j)
  /\ Goto(j, "init_reread")
  /\ UNCHANGED <<bucketVars, lateVars, runs, planVars, etag, intent, todo,
                 doomed, rounds, since>>

InitLost(j) ==
  /\ pc[j] = "init"
  /\ Lost(j)
  /\ lateInits' = lateInits \cup {EmptyPointer(run[j])}
  /\ UNCHANGED <<bucketVars, lateCommits, latePuts, lateDeletes, runs, pc,
                 planVars, etag, intent, todo, doomed, rounds, since>>

\* The second get_object; its expect() panics if the key is still absent.
InitReread(j) ==
  /\ pc[j] = "init_reread"
  /\ \/ /\ pointer # None
        /\ Adopt(j, pointer)
        /\ UNCHANGED <<run, want, zero, dry, intent, todo, doomed, rounds,
                       tries, since>>
     \/ pointer = None /\ End(j)
  /\ UNCHANGED <<bucketVars, lateVars, runs>>

(***************************************************************************)
(* fetch_reusable_configs, resolve_keys, render and the plan.              *)
(***************************************************************************)
\* A file the pointer references is missing or has another digest.
FilesMissing(j) ==
  /\ pc[j] = "files"
  /\ ~Intact(base[j].current, want[j])
  /\ End(j)
  /\ UNCHANGED <<bucketVars, lateVars, runs>>

\* Mutant: an unchanged pass rewrites the pointer it read.
RefreshedInPlace(j) == base[j]

\* Mutant: an unchanged pass demotes the generation it keeps.
RefreshedDemotes(j) == [revision |-> NewRevision(run[j]),
                        current  |-> base[j].current,
                        previous |-> base[j].current]

\* The pointer of an unchanged pass: only the revision is new.
Refreshed(j) == [revision |-> NewRevision(run[j]),
                 current  |-> base[j].current,
                 previous |-> base[j].previous]

\* The rendered files are those of the current generation.
PlanRefresh(j) ==
  /\ pc[j] = "files"
  /\ Intact(base[j].current, want[j])
  /\ base[j].current # None /\ base[j].current.nodes \in Rendered(want[j])
  /\ intent' = [intent EXCEPT ![j] = Refreshed(j)]
  /\ Goto(j, IF dry[j] THEN "clean" ELSE "commit")
  /\ UNCHANGED <<bucketVars, lateVars, runs, planVars, etag, todo, doomed,
                 rounds, tries, since>>

\* Mutant: the replaced generation is not demoted to `previous`.
NewPointerKeepsPrevious(j, nodes) ==
  [revision |-> NewRevision(run[j]),
   current  |-> [id |-> run[j], nodes |-> nodes],
   previous |-> base[j].previous]

\* The pointer of a changed pass.
NewPointer(j, nodes) == [revision |-> NewRevision(run[j]),
                         current  |-> [id |-> run[j], nodes |-> nodes],
                         previous |-> base[j].current]

PlanGeneration(j, nodes) ==
  /\ pc[j] = "files"
  /\ Intact(base[j].current, want[j])
  /\ base[j].current # None => base[j].current.nodes # nodes
  /\ intent' = [intent EXCEPT ![j] = NewPointer(j, nodes)]
  /\ Goto(j, IF dry[j] THEN "clean" ELSE "upload")
  /\ todo' = [todo EXCEPT ![j] = want[j]]
  /\ UNCHANGED <<bucketVars, lateVars, runs, planVars, etag, doomed, rounds,
                 tries, since>>

(***************************************************************************)
(* The upload loop of apply().                                             *)
(***************************************************************************)
\* Mutant: the body of another host is sent.
BodyOfAnyHost(j, h) ==
  intent[j].current.nodes[CHOOSE g \in Hosts : \A i \in Hosts : i =< g]

\* The rendered text of host h.
Body(j, h) == intent[j].current.nodes[h]

\* Host h is stored; the next host, or the commit once all are.
Uploaded(j, h) ==
  /\ todo' = [todo EXCEPT ![j] = @ \ {h}]
  /\ Goto(j, IF todo[j] = {h} THEN "commit" ELSE "upload")

UploadWritten(j, h) ==
  /\ pc[j] = "upload" /\ First(h, todo[j])
  /\ files[Key(run[j], h)] = None
  /\ Answered(j)
  /\ files' = [files EXCEPT ![Key(run[j], h)] = Body(j, h)]
  /\ Stored(Key(run[j], h))
  /\ Uploaded(j, h)
  /\ UNCHANGED <<pointer, lateVars, runs, planVars, etag, intent, doomed,
                 rounds>>

UploadRefused(j) ==
  /\ pc[j] = "upload"
  /\ Answered(j)
  /\ Goto(j, "upload_reread")
  /\ UNCHANGED <<bucketVars, lateVars, runs, planVars, etag, intent, todo,
                 doomed, rounds, since>>

UploadLost(j, h) ==
  /\ pc[j] = "upload" /\ First(h, todo[j])
  /\ Lost(j)
  /\ latePuts' = latePuts \cup {[key |-> Key(run[j], h), body |-> Body(j, h)]}
  /\ UNCHANGED <<bucketVars, lateInits, lateCommits, lateDeletes, runs, pc,
                 planVars, etag, intent, todo, doomed, rounds, since>>

\* Identical bytes complete the upload, anything else is a collision.
UploadReread(j, h) ==
  /\ pc[j] = "upload_reread" /\ First(h, todo[j])
  /\ \/ /\ files[Key(run[j], h)] = Body(j, h)
        /\ Uploaded(j, h)
        /\ UNCHANGED <<planVars, etag, intent, doomed, rounds, tries, since>>
     \/ files[Key(run[j], h)] # Body(j, h) /\ End(j)
  /\ UNCHANGED <<bucketVars, lateVars, runs>>

(***************************************************************************)
(* commit_pointer                                                          *)
(***************************************************************************)
CommitWritten(j) ==
  /\ pc[j] = "commit"
  /\ pointer # None /\ ETag(pointer) = etag[j]
  /\ Answered(j)
  /\ pointer' = intent[j]
  /\ Goto(j, "clean")
  /\ UNCHANGED <<files, old, lateVars, runs, planVars, etag, intent, todo,
                 doomed, rounds, since>>

\* Mutant: the rounds of commit_pointer are not counted.
CommitRefusedUncounted(j) ==
  /\ pc[j] = "commit"
  /\ Answered(j)
  /\ Goto(j, "reread")
  /\ UNCHANGED <<bucketVars, lateVars, runs, planVars, etag, intent, todo,
                 doomed, rounds, since>>

CommitRefused(j) ==
  /\ pc[j] = "commit"
  /\ Answered(j)
  /\ rounds' = [rounds EXCEPT ![j] = @ + 1]
  /\ Goto(j, "reread")
  /\ UNCHANGED <<bucketVars, lateVars, runs, planVars, etag, intent, todo,
                 doomed, since>>

CommitLost(j) ==
  /\ pc[j] = "commit"
  /\ Lost(j)
  /\ lateCommits' = lateCommits \cup {[etag |-> etag[j], doc |-> intent[j]]}
  /\ UNCHANGED <<bucketVars, lateInits, latePuts, lateDeletes, runs, pc,
                 planVars, etag, intent, todo, doomed, rounds, since>>

\* The intended bytes are there: an earlier attempt did land.
RereadCommitted(j) ==
  /\ pc[j] = "reread"
  /\ pointer = intent[j]
  /\ Goto(j, "clean")
  /\ UNCHANGED <<bucketVars, lateVars, runs, planVars, etag, intent, todo,
                 doomed, rounds, tries, since>>

\* Mutant: retry against whatever pointer is there.
RereadAnything(j) ==
  /\ pc[j] = "reread"
  /\ pointer # None /\ pointer # intent[j]
  /\ rounds[j] < MaxPointerRetries
  /\ etag' = [etag EXCEPT ![j] = ETag(pointer)]
  /\ Goto(j, "commit")
  /\ UNCHANGED <<bucketVars, lateVars, runs, planVars, intent, todo, doomed,
                 rounds, tries, since>>

\* The baseline is still there: try again, at most MaxPointerRetries times.
RereadBaseline(j) ==
  /\ pc[j] = "reread"
  /\ pointer # None /\ pointer # intent[j]
  /\ pointer.revision = base[j].revision
  /\ \/ /\ rounds[j] < MaxPointerRetries
        /\ etag' = [etag EXCEPT ![j] = ETag(pointer)]
        /\ Goto(j, "commit")
        /\ UNCHANGED <<planVars, intent, todo, doomed, rounds, tries, since>>
     \/ rounds[j] >= MaxPointerRetries /\ End(j)
  /\ UNCHANGED <<bucketVars, lateVars, runs>>

\* PointerConflict, or PointerCommitUnknown when the key has vanished.
RereadConflict(j) ==
  /\ pc[j] = "reread"
  /\ pointer # intent[j]
  /\ pointer # None => pointer.revision # base[j].revision
  /\ End(j)
  /\ UNCHANGED <<bucketVars, lateVars, runs>>

(***************************************************************************)
(* retention::cleanup                                                      *)
(***************************************************************************)
\* Mutant: the age of an object is not looked at.
ExpiredAtAnyAge(j) ==
  {k \in Keys : files[k] # None /\ k[1] \notin Retained(intent[j])}

\* What cleanup deletes of a listing taken now.
Expired(j) == {k \in Keys : /\ files[k] # None
                            /\ k[1] \notin Retained(intent[j])
                            /\ zero[j] \/ k \in old}

CleanList(j) ==
  /\ pc[j] = "clean"
  /\ \/ dry[j] /\ End(j)
     \/ /\ ~dry[j]
        /\ doomed' = [doomed EXCEPT ![j] = Expired(j)]
        /\ Goto(j, "delete")
        /\ UNCHANGED <<planVars, etag, intent, todo, rounds, tries, since>>
  /\ UNCHANGED <<bucketVars, lateVars, runs>>

DeleteDone(j, k) ==
  /\ pc[j] = "delete" /\ k \in doomed[j]
  /\ Answered(j)
  /\ files' = [files EXCEPT ![k] = None]
  /\ old' = old \ {k}
  /\ doomed' = [doomed EXCEPT ![j] = @ \ {k}]
  /\ UNCHANGED <<pointer, lateVars, runs, pc, planVars, etag, intent, todo,
                 rounds, since>>

DeleteLost(j, k) ==
  /\ pc[j] = "delete" /\ k \in doomed[j]
  /\ Lost(j)
  /\ lateDeletes' = lateDeletes \cup {k}
  /\ UNCHANGED <<bucketVars, lateInits, lateCommits, latePuts, runs, pc,
                 planVars, etag, intent, todo, doomed, rounds, since>>

CleanDone(j) ==
  /\ pc[j] = "delete" /\ doomed[j] = {}
  /\ End(j)
  /\ UNCHANGED <<bucketVars, lateVars, runs>>

\* A storage error returned by `?`, or the end of the process.
Fail(j) ==
  /\ ~Idle(j)
  /\ End(j)
  /\ UNCHANGED <<bucketVars, lateVars, runs>>

(***************************************************************************)
(* The environment: lost attempts that reach the bucket, and time.         *)
(***************************************************************************)
LandInit(doc) ==
  /\ doc \in lateInits
  /\ lateInits' = lateInits \ {doc}
  /\ pointer' = IF pointer = None THEN doc ELSE pointer
  /\ UNCHANGED <<files, old, lateCommits, latePuts, lateDeletes, runs, jobVars>>

\* Mutant: the pointer is replaced without If-Match.
LandCommitUnconditional(c) ==
  /\ c \in lateCommits
  /\ lateCommits' = lateCommits \ {c}
  /\ pointer' = c.doc
  /\ UNCHANGED <<files, old, lateInits, latePuts, lateDeletes, runs, jobVars>>

LandCommit(c) ==
  /\ c \in lateCommits
  /\ lateCommits' = lateCommits \ {c}
  /\ pointer' = IF pointer # None /\ ETag(pointer) = c.etag
                THEN c.doc ELSE pointer
  /\ UNCHANGED <<files, old, lateInits, latePuts, lateDeletes, runs, jobVars>>

LandPut(p) ==
  /\ p \in latePuts
  /\ latePuts' = latePuts \ {p}
  /\ \/ /\ files[p.key] = None
        /\ files' = [files EXCEPT ![p.key] = p.body]
        /\ Stored(p.key)
     \/ files[p.key] # None /\ UNCHANGED <<files, old, since>>
  /\ UNCHANGED <<pointer, lateInits, lateCommits, lateDeletes, runs, pc,
                 planVars, etag, intent, todo, doomed, rounds, tries>>

LandDelete(k) ==
  /\ k \in lateDeletes
  /\ lateDeletes' = lateDeletes \ {k}
  /\ files' = [files EXCEPT ![k] = None]
  /\ old' = old \ {k}
  /\ UNCHANGED <<pointer, lateInits, lateCommits, latePuts, runs, jobVars>>

\* Object k outlives the default grace period.  With JobDeadline no job
\* that was alive when k was stored can still be alive by then.
Age(k) ==
  /\ "default" \in Graces
  /\ files[k] # None /\ k \notin old
  /\ \A j \in Jobs : k \notin since[j]
  /\ old' = old \cup {k}
  /\ UNCHANGED <<pointer, files, lateVars, runs, jobVars>>

-----------------------------------------------------------------------------
JobStep(j) ==
  \/ FetchPointer(j) \/ ListOrphaned(j) \/ ListEmpty(j)
  \/ InitWritten(j) \/ InitRefused(j) \/ InitLost(j) \/ InitReread(j)
  \/ FilesMissing(j) \/ PlanRefresh(j)
  \/ \E nodes \in Rendered(want[j]) : PlanGeneration(j, nodes)
  \/ UploadRefused(j)
  \/ \E h \in Hosts :
       UploadWritten(j, h) \/ UploadLost(j, h) \/ UploadReread(j, h)
  \/ CommitWritten(j) \/ CommitRefused(j) \/ CommitLost(j)
  \/ RereadCommitted(j) \/ RereadBaseline(j) \/ RereadConflict(j)
  \/ CleanList(j) \/ CleanDone(j)
  \/ \E k \in Keys : DeleteDone(j, k) \/ DeleteLost(j, k)
  \/ Fail(j)

Land ==
  \/ \E doc \in lateInits : LandInit(doc)
  \/ \E c \in lateCommits : LandCommit(c)
  \/ \E p \in latePuts : LandPut(p)
  \/ \E k \in lateDeletes : LandDelete(k)

Next ==
  \/ \E j \in Jobs : Start(j) \/ JobStep(j)
  \/ Land
  \/ \E k \in Keys : Age(k)

Spec == Init /\ [][Next]_vars

\* A job that is running keeps running: nothing in apply() waits for
\* another job, and the SDK bounds the attempts of every call.
FairSpec == Spec /\ \A j \in Jobs : WF_vars(JobStep(j))

-----------------------------------------------------------------------------
Labels == {"idle", "fetch", "list", "init", "init_reread", "files", "upload",
           "upload_reread", "commit", "reread", "clean", "delete"}

TypeOK ==
  /\ pointer \in CurrentJson \cup {None}
  /\ files \in [Keys -> Contents \cup {None}]
  /\ old \subseteq Keys
  /\ lateInits \subseteq CurrentJson
  /\ lateCommits \subseteq [etag : Nat, doc : CurrentJson]
  /\ latePuts \subseteq [key : Keys, body : Contents]
  /\ lateDeletes \subseteq Keys
  /\ runs \in Gens
  /\ pc \in [Jobs -> Labels]
  /\ run \in [Jobs -> Gens]
  /\ want \in [Jobs -> SUBSET Hosts]
  /\ zero \in [Jobs -> BOOLEAN]
  /\ dry \in [Jobs -> BOOLEAN]
  /\ base \in [Jobs -> CurrentJson \cup {None}]
  /\ etag \in [Jobs -> Nat]
  /\ intent \in [Jobs -> CurrentJson \cup {None}]
  /\ todo \in [Jobs -> SUBSET Hosts]
  /\ doomed \in [Jobs -> SUBSET Keys]
  /\ rounds \in [Jobs -> Nat]
  /\ tries \in [Jobs -> Nat]
  /\ since \in [Jobs -> SUBSET Keys]

\* Every file that current.json names, in `current` and in `previous`, is
\* in the bucket with the digest the pointer gives: a client that follows
\* the pointer never meets a missing or a foreign file, whatever requests
\* were lost, delayed or repeated and wherever a run of apply was killed.
PointerIntact ==
  pointer # None => /\ Intact(pointer.current, Hosts)
                    /\ Intact(pointer.previous, Hosts)

\* While a job deletes, the pointer is the one it derived the retained set
\* from, and no commit of a dead job that is still in flight can replace
\* it: the refreshed revision has invalidated them all.
CleanupFenced ==
  \A j \in Jobs : pc[j] \in {"clean", "delete"} /\ ~dry[j] =>
    /\ pointer = intent[j]
    /\ \A c \in lateCommits : c.etag # ETag(pointer)

\* No publication is lost: whoever replaces the pointer either keeps both
\* entries or demotes exactly the `current` entry it replaces, even when
\* jobs overlap and late commits arrive.
NoLostPublication ==
  [][pointer # None /\ pointer' # pointer =>
       \/ pointer'.previous = pointer.current
       \/ /\ pointer'.current = pointer.current
          /\ pointer'.previous = pointer.previous]_vars

\* Cleanup never condemns an object of another job that is still running.
CleanupSparesRunningJobs ==
  \A i, j \in Jobs : i # j /\ ~Idle(i) /\ ~dry[i] =>
    \A k \in doomed[j] : k[1] # run[i]

\* Every run of apply ends, whatever the bucket answers: the retries of
\* commit_pointer and of the SDK client are bounded.
JobsEnd == \A j \in Jobs : ~Idle(j) ~> Idle(j)

\* What a host downloads when it follows an entry of the pointer.
Follow(e) == [h \in Hosts |-> IF e = None THEN None
                              ELSE IF e.nodes[h] = None THEN None
                              ELSE files[Key(e.id, h)]]

\* What the bucket serves: a publication is atomic for all hosts.
P == INSTANCE Publication WITH
       served   <- Follow(IF pointer = None THEN None ELSE pointer.current),
       fallback <- Follow(IF pointer = None THEN None ELSE pointer.previous)

\* The protocol implements atomic publication: uploads, refreshes, failures
\* and deletions change nothing of what hosts see, a commit changes all.
AtomicPublication == P!Spec
=============================================================================
