--------------------------- MODULE PublishProofs ---------------------------
(***************************************************************************)
(* Proofs about Publish, for every number of jobs, hosts and contents and  *)
(* every value of the bounds.                                              *)
(***************************************************************************)
EXTENDS Publish, TLAPS

(***************************************************************************)
(* The inductive invariant.  PointerIntact alone is not inductive: whether *)
(* a commit in flight is harmless depends on which pointer it replaces.    *)
(* A commit is live while the pointer still carries the ETag it names.     *)
(* The argument: pointer revisions only grow, so a commit that has been    *)
(* overtaken stays dead, and whatever a live commit would publish is       *)
(* completely stored and condemned by nobody.                              *)
(***************************************************************************)
Planning(j)   == pc[j] \in {"fetch", "list", "init", "init_reread", "files"}
Uploading(j)  == pc[j] \in {"upload", "upload_reread"}
Committing(j) == pc[j] \in {"commit", "reread"}
Cleaning(j)   == pc[j] \in {"clean", "delete"} /\ ~dry[j]

Complete(doc) == Intact(doc.current, Hosts) /\ Intact(doc.previous, Hosts)
Live(t)       == pointer # None /\ t = pointer.revision

\* What the memory of a job holds at each place of apply().
Shape ==
  \A j \in Jobs :
    /\ ~Idle(j) => run[j] # 0
    /\ pc[j] = "files" => base[j] \in CurrentJson
    /\ Uploading(j) \/ Committing(j) \/ pc[j] \in {"clean", "delete"} =>
         intent[j] \in CurrentJson
    /\ Uploading(j) => /\ intent[j].current \in GenerationEntry
                       /\ \A h \in todo[j] : intent[j].current.nodes[h] # None

TypeInv == TypeOK /\ Shape

\* At most one job is alive, and it is the latest run.
OneJob ==
  /\ \A i, j \in Jobs : ~Idle(i) /\ ~Idle(j) => i = j
  /\ \A j \in Jobs : ~Idle(j) => run[j] = runs

\* Only the reading part of apply() runs before the pointer exists.
BeforePointer ==
  pointer = None =>
    /\ lateCommits = {}
    /\ \A j \in Jobs : \/ pc[j] \in {"idle", "fetch", "list", "init",
                                     "init_reread"}
                       \/ dry[j]

\* Revisions grow: a commit names an older revision than it writes, and no
\* revision of the run that is still planning is in use.
Revisions ==
  /\ pointer # None => pointer.revision =< 2 * runs
  /\ \A d \in lateInits : /\ d.revision =< 2 * runs
                          /\ d.current = None /\ d.previous = None
  /\ \A c \in lateCommits : /\ c.etag < c.doc.revision
                            /\ c.doc.revision =< 2 * runs
                            /\ c.etag =< pointer.revision
  /\ \A j \in Jobs : Planning(j) =>
       /\ pointer # None => pointer.revision < 2 * run[j]
       /\ \A d \in lateInits : d.revision < 2 * run[j]
       /\ \A c \in lateCommits : c.doc.revision < 2 * run[j]

\* The generation ID of a run is new until the run uploads.
FreshIds ==
  /\ \A k \in lateDeletes : k[1] =< runs
  /\ \A j \in Jobs : \A k \in doomed[j] : k[1] =< runs
  /\ \A k \in Keys : files[k] # None => k[1] =< runs
  /\ \A p \in latePuts : p.key[1] =< runs
  /\ \A j \in Jobs : Planning(j) =>
       /\ \A k \in lateDeletes : k[1] < run[j]
       /\ \A k \in Keys : files[k] # None => k[1] < run[j]
       /\ \A p \in latePuts : p.key[1] < run[j]

\* What a job planned against, and whether that is still the pointer.
Baseline ==
  \A j \in Jobs :
    (pc[j] = "files" /\ ~dry[j]) \/ Uploading(j) \/ Committing(j) =>
      /\ base[j] \in CurrentJson
      /\ etag[j] = base[j].revision
      /\ etag[j] < 2 * run[j]
      /\ etag[j] =< pointer.revision
      /\ etag[j] = pointer.revision => pointer = base[j]

\* What a job means to publish is stored as far as it has got.
Staged ==
  \A j \in Jobs :
    /\ Uploading(j) \/ Committing(j) => /\ ~dry[j]
                                        /\ intent[j].revision = 2 * run[j]
    /\ Uploading(j) /\ Live(etag[j]) =>
         /\ intent[j].current.id = run[j]
         /\ \A h \in Hosts : intent[j].current.nodes[h] # None /\ h \notin todo[j] =>
              files[Key(run[j], h)] = intent[j].current.nodes[h]
         /\ Intact(intent[j].previous, Hosts)
    /\ Committing(j) /\ Live(etag[j]) => Complete(intent[j])

\* A late commit that can still succeed publishes a complete set.
LateCommitsComplete ==
  \A c \in lateCommits : Live(c.etag) => Complete(c.doc)

\* No deletion, issued or in flight, can hit what is or may be published.
DeletesHarmless ==
  /\ \A k \in lateDeletes :
       /\ pointer # None => k[1] \notin Retained(pointer)
       /\ \A c \in lateCommits : Live(c.etag) => k[1] \notin Retained(c.doc)
       /\ \A j \in Jobs : (Uploading(j) \/ Committing(j)) /\ Live(etag[j]) =>
                            k[1] \notin Retained(intent[j])
  /\ \A j \in Jobs : \A k \in doomed[j] :
       Cleaning(j) /\ k[1] \notin Retained(intent[j])

\* A job that cleans has overtaken every late commit.
Fence ==
  \A j \in Jobs : Cleaning(j) =>
    /\ pointer = intent[j]
    /\ \A c \in lateCommits : c.etag < pointer.revision

Inv ==
  /\ OneJob
  /\ BeforePointer
  /\ Revisions
  /\ FreshIds
  /\ Baseline
  /\ Staged
  /\ LateCommitsComplete
  /\ DeletesHarmless
  /\ Fence
  /\ PointerIntact

-----------------------------------------------------------------------------
(***************************************************************************)
(* Type correctness.                                                       *)
(***************************************************************************)
USE DEF bucketVars, lateVars, jobVars, planVars, Idle, Goto

\* The empty pointer and the revisions a run draws are well formed.
LEMMA IdTypes ==
  ASSUME NEW n \in Gens, n # 0
  PROVE  /\ EmptyRevision(n) \in Nat /\ NewRevision(n) \in Nat
         /\ EmptyPointer(n) \in CurrentJson
BY ConstantsAssumption DEF Gens, EmptyRevision, NewRevision, EmptyPointer,
   CurrentJson

\* A job that ends leaves well-formed state behind.
LEMMA EndType ==
  ASSUME TypeInv, NEW j \in Jobs, End(j), UNCHANGED <<bucketVars, lateVars, runs>>
  PROVE  TypeInv'
<1>1. TypeOK'
  BY ConstantsAssumption DEF TypeInv, TypeOK, End, Labels, Gens
<1>2. Shape'
  BY DEF TypeInv, TypeOK, Shape, End, Uploading, Committing
<1> QED BY <1>1, <1>2 DEF TypeInv

\* A job that plans against a well-formed pointer stays well formed.
LEMMA AdoptType ==
  ASSUME TypeInv, NEW j \in Jobs, ~Idle(j), NEW doc \in CurrentJson, Adopt(j, doc),
         UNCHANGED <<run, want, zero, dry, intent, todo, doomed, rounds, since>>
  PROVE  /\ pc' \in [Jobs -> Labels] /\ etag' \in [Jobs -> Nat]
         /\ base' \in [Jobs -> CurrentJson \cup {None}]
         /\ Shape'
<1>1. pc' \in [Jobs -> Labels] /\ base' \in [Jobs -> CurrentJson \cup {None}]
  BY DEF TypeInv, TypeOK, Adopt, Labels
<1>2. etag' \in [Jobs -> Nat]
  BY DEF TypeInv, TypeOK, Adopt, ETag, CurrentJson
<1>3. Shape'
  BY DEF TypeInv, TypeOK, Shape, Adopt, Uploading, Committing
<1> QED BY <1>1, <1>2, <1>3

\* The empty bucket and the idle jobs are well formed.
LEMMA InitType == Init => TypeInv
<1> SUFFICES ASSUME Init PROVE TypeInv
  OBVIOUS
<1>1. files \in [Keys -> Contents \cup {None}]
  BY DEF Init
<1>2. TypeOK
  BY <1>1, ConstantsAssumption DEF Init, TypeOK, Labels, Gens
<1>3. Shape
  BY DEF Init, Shape, Uploading, Committing
<1> QED BY <1>2, <1>3 DEF TypeInv

\* Every step of a job, of the bucket and of time keeps that.
LEMMA StepType == TypeInv /\ [Next]_vars => TypeInv'
<1> SUFFICES ASSUME TypeInv, [Next]_vars PROVE TypeInv'
  OBVIOUS
<1> USE ConstantsAssumption
<1>a. ASSUME NEW j \in Jobs, Start(j) PROVE TypeInv'
  <2>1. TypeOK'
    BY <1>a DEF TypeInv, TypeOK, Start, Labels, Gens
  <2>2. Shape'
    BY <1>a DEF TypeInv, TypeOK, Shape, Start, Uploading, Committing, Gens
  <2> QED BY <2>1, <2>2 DEF TypeInv
<1>b. ASSUME NEW j \in Jobs, FetchPointer(j) PROVE TypeInv'
  <2>1. CASE pointer # None
    <3>1. Adopt(j, pointer) /\ ~Idle(j) /\ pointer \in CurrentJson
      BY <1>b, <2>1 DEF FetchPointer, TypeInv, TypeOK
    <3> QED BY <3>1, <1>b, AdoptType DEF FetchPointer, TypeInv, TypeOK
  <2>2. CASE pointer = None
    <3>1. TypeOK'
      BY <1>b, <2>2 DEF TypeInv, TypeOK, FetchPointer, Labels
    <3>2. Shape'
      BY <1>b, <2>2 DEF TypeInv, TypeOK, Shape, FetchPointer, Uploading, Committing
    <3> QED BY <3>1, <3>2 DEF TypeInv
  <2> QED BY <2>1, <2>2
<1>c. ASSUME NEW j \in Jobs, ListEmpty(j) PROVE TypeInv'
  <2>1. ~Idle(j) /\ EmptyPointer(run[j]) \in CurrentJson
    BY <1>c, IdTypes DEF ListEmpty, TypeInv, TypeOK, Shape
  <2>2. CASE dry[j]
    BY <2>1, <2>2, <1>c, AdoptType DEF ListEmpty, TypeInv, TypeOK
  <2>3. CASE ~dry[j]
    <3>1. TypeOK'
      BY <1>c, <2>3 DEF TypeInv, TypeOK, ListEmpty, Labels
    <3>2. Shape'
      BY <1>c, <2>3 DEF TypeInv, TypeOK, Shape, ListEmpty, Uploading, Committing
    <3> QED BY <3>1, <3>2 DEF TypeInv
  <2> QED BY <2>2, <2>3
<1>d. ASSUME NEW j \in Jobs, InitWritten(j) PROVE TypeInv'
  <2>1. ~Idle(j) /\ EmptyPointer(run[j]) \in CurrentJson
    BY <1>d, IdTypes DEF InitWritten, TypeInv, TypeOK, Shape
  <2> QED BY <2>1, <1>d, AdoptType DEF InitWritten, TypeInv, TypeOK, Answered
<1>e. ASSUME NEW j \in Jobs, InitRefused(j) PROVE TypeInv'
  BY <1>e DEF TypeInv, TypeOK, Shape, InitRefused, Answered, Labels, Uploading,
     Committing
<1>f. ASSUME NEW j \in Jobs, InitLost(j) PROVE TypeInv'
  <2>1. EmptyPointer(run[j]) \in CurrentJson
    BY <1>f, IdTypes DEF InitLost, TypeInv, TypeOK, Shape
  <2> QED BY <2>1, <1>f DEF TypeInv, TypeOK, Shape, InitLost, Lost, Uploading, Committing
<1>g. ASSUME NEW j \in Jobs, InitReread(j) PROVE TypeInv'
  <2>1. CASE pointer # None
    <3>1. Adopt(j, pointer) /\ ~Idle(j) /\ pointer \in CurrentJson
      BY <1>g, <2>1 DEF InitReread, TypeInv, TypeOK
    <3> QED BY <3>1, <2>1, <1>g, AdoptType DEF InitReread, TypeInv, TypeOK
  <2>2. CASE pointer = None
    BY <2>2, <1>g, EndType DEF InitReread
  <2> QED BY <2>1, <2>2
<1>h. ASSUME NEW j \in Jobs, PlanRefresh(j) PROVE TypeInv'
  <2>1. base[j] \in CurrentJson /\ run[j] \in Gens /\ run[j] # 0
    BY <1>h DEF PlanRefresh, TypeInv, TypeOK, Shape
  <2>2. Refreshed(j) \in CurrentJson
    BY <2>1, IdTypes DEF Refreshed, CurrentJson
  <2>3. TypeOK'
    BY <1>h, <2>2 DEF PlanRefresh, TypeInv, TypeOK, Labels
  <2>4. Shape'
    BY <1>h, <2>2 DEF PlanRefresh, TypeInv, TypeOK, Shape, Uploading, Committing
  <2> QED BY <2>3, <2>4 DEF TypeInv
<1>i. ASSUME NEW j \in Jobs, NEW nodes \in Rendered(want[j]), PlanGeneration(j, nodes)
      PROVE  TypeInv'
  <2>1. base[j] \in CurrentJson /\ run[j] \in Gens /\ run[j] # 0
    BY <1>i DEF PlanGeneration, TypeInv, TypeOK, Shape
  <2>2. /\ NewPointer(j, nodes) \in CurrentJson
        /\ NewPointer(j, nodes).current \in GenerationEntry
        /\ \A h \in want[j] : NewPointer(j, nodes).current.nodes[h] # None
    BY <2>1, IdTypes DEF NewPointer, CurrentJson, GenerationEntry, Rendered,
       TypeInv, TypeOK
  <2>3. TypeOK'
    BY <1>i, <2>2 DEF PlanGeneration, TypeInv, TypeOK, Labels
  <2>4. Shape'
    BY <1>i, <2>2 DEF PlanGeneration, TypeInv, TypeOK, Shape, Uploading, Committing
  <2> QED BY <2>3, <2>4 DEF TypeInv
<1>j. ASSUME NEW j \in Jobs, NEW h \in Hosts, UploadWritten(j, h) PROVE TypeInv'
  <2>1. /\ intent[j].current.nodes[h] \in Contents
        /\ Key(run[j], h) \in Keys
    BY <1>j DEF UploadWritten, First, TypeInv, TypeOK, Shape, Uploading,
       GenerationEntry, NodeMap, Key, Keys
  <2>2. TypeOK'
    BY <1>j, <2>1 DEF UploadWritten, Uploaded, Stored, Body, Answered, TypeInv,
       TypeOK, Labels
  <2>3. Shape'
    BY <1>j DEF UploadWritten, Uploaded, TypeInv, TypeOK, Shape, Uploading,
       Committing
  <2> QED BY <2>2, <2>3 DEF TypeInv
<1>k. ASSUME NEW j \in Jobs, UploadRefused(j) PROVE TypeInv'
  BY <1>k DEF TypeInv, TypeOK, Shape, UploadRefused, Answered, Labels, Uploading,
     Committing
<1>l. ASSUME NEW j \in Jobs, NEW h \in Hosts, UploadLost(j, h) PROVE TypeInv'
  <2>1. /\ intent[j].current.nodes[h] \in Contents
        /\ Key(run[j], h) \in Keys
    BY <1>l DEF UploadLost, First, TypeInv, TypeOK, Shape, Uploading,
       GenerationEntry, NodeMap, Key, Keys
  <2> QED BY <1>l, <2>1 DEF UploadLost, Body, Lost, TypeInv, TypeOK, Shape,
             Uploading, Committing
<1>m. ASSUME NEW j \in Jobs, NEW h \in Hosts, UploadReread(j, h) PROVE TypeInv'
  <2>1. CASE files[Key(run[j], h)] # Body(j, h)
    BY <2>1, <1>m, EndType DEF UploadReread
  <2>2. CASE files[Key(run[j], h)] = Body(j, h)
    <3>1. /\ pc[j] = "upload_reread" /\ Uploaded(j, h)
          /\ UNCHANGED <<bucketVars, lateVars, runs, planVars, etag, intent, doomed,
                         rounds, tries, since>>
      BY <1>m, <2>2 DEF UploadReread
    <3>2. TypeOK'
      BY <3>1 DEF Uploaded, TypeInv, TypeOK, Labels
    <3>3. Shape'
      BY <3>1, ZenonT(40) DEF Uploaded, TypeInv, TypeOK, Shape, Uploading, Committing
    <3> QED BY <3>2, <3>3 DEF TypeInv
  <2> QED BY <2>1, <2>2
<1>n. ASSUME NEW j \in Jobs, CommitWritten(j) PROVE TypeInv'
  BY <1>n DEF TypeInv, TypeOK, Shape, CommitWritten, Answered, Labels, Uploading,
     Committing
<1>o. ASSUME NEW j \in Jobs, CommitRefused(j) PROVE TypeInv'
  BY <1>o DEF TypeInv, TypeOK, Shape, CommitRefused, Answered, Labels, Uploading,
     Committing
<1>p. ASSUME NEW j \in Jobs, CommitLost(j) PROVE TypeInv'
  BY <1>p DEF TypeInv, TypeOK, Shape, CommitLost, Lost, Uploading, Committing
<1>q. ASSUME NEW j \in Jobs, RereadCommitted(j) PROVE TypeInv'
  BY <1>q DEF TypeInv, TypeOK, Shape, RereadCommitted, Labels, Uploading, Committing
<1>r. ASSUME NEW j \in Jobs, RereadBaseline(j) PROVE TypeInv'
  <2>1. CASE rounds[j] >= MaxPointerRetries
    BY <2>1, <1>r, EndType DEF RereadBaseline, TypeInv, TypeOK
  <2>2. CASE ~(rounds[j] >= MaxPointerRetries)
    <3>1. /\ pc[j] = "reread" /\ Goto(j, "commit")
          /\ etag' = [etag EXCEPT ![j] = ETag(pointer)]
          /\ ETag(pointer) \in Nat
          /\ UNCHANGED <<bucketVars, lateVars, runs, planVars, intent, todo, doomed,
                         rounds, tries, since>>
      BY <1>r, <2>2 DEF RereadBaseline, TypeInv, TypeOK, ETag, CurrentJson
    <3> QED BY <3>1 DEF TypeInv, TypeOK, Shape, Labels, Uploading, Committing
  <2> QED BY <2>1, <2>2
<1>s. ASSUME NEW j \in Jobs, CleanList(j) PROVE TypeInv'
  <2>1. CASE dry[j]
    BY <2>1, <1>s, EndType DEF CleanList
  <2>2. CASE ~dry[j]
    <3>1. /\ pc[j] = "clean" /\ Goto(j, "delete")
          /\ doomed' = [doomed EXCEPT ![j] = Expired(j)]
          /\ UNCHANGED <<bucketVars, lateVars, runs, planVars, etag, intent, todo,
                         rounds, tries, since>>
      BY <1>s, <2>2 DEF CleanList
    <3>2. Expired(j) \subseteq Keys
      BY DEF Expired
    <3> QED BY <3>1, <3>2 DEF TypeInv, TypeOK, Shape, Labels, Uploading, Committing
  <2> QED BY <2>1, <2>2
<1>t. ASSUME NEW j \in Jobs, NEW k \in Keys, DeleteDone(j, k) PROVE TypeInv'
  BY <1>t DEF DeleteDone, Answered, TypeInv, TypeOK, Shape, Uploading, Committing
<1>u. ASSUME NEW j \in Jobs, NEW k \in Keys, DeleteLost(j, k) PROVE TypeInv'
  BY <1>u DEF DeleteLost, Lost, TypeInv, TypeOK, Shape, Uploading, Committing
<1>v. ASSUME NEW j \in Jobs,
             \/ ListOrphaned(j) \/ FilesMissing(j) \/ RereadConflict(j)
             \/ CleanDone(j) \/ Fail(j)
      PROVE  TypeInv'
  BY <1>v, EndType DEF ListOrphaned, FilesMissing, RereadConflict, CleanDone, Fail
<1>w. ASSUME NEW doc \in lateInits, LandInit(doc) PROVE TypeInv'
  BY <1>w DEF LandInit, TypeInv, TypeOK, Shape, Uploading, Committing
<1>x. ASSUME NEW c \in lateCommits, LandCommit(c) PROVE TypeInv'
  BY <1>x DEF LandCommit, TypeInv, TypeOK, Shape, Uploading, Committing
<1>y. ASSUME NEW p \in latePuts, LandPut(p) PROVE TypeInv'
  <2>1. TypeOK'
    BY <1>y DEF LandPut, Stored, TypeInv, TypeOK
  <2>2. Shape'
    BY <1>y DEF LandPut, TypeInv, TypeOK, Shape, Uploading, Committing
  <2> QED BY <2>1, <2>2 DEF TypeInv
<1>z. ASSUME NEW k \in lateDeletes, LandDelete(k) PROVE TypeInv'
  BY <1>z DEF LandDelete, TypeInv, TypeOK, Shape, Uploading, Committing
<1>A. ASSUME NEW k \in Keys, Age(k) PROVE TypeInv'
  BY <1>A DEF Age, TypeInv, TypeOK, Shape, Uploading, Committing
<1>B. CASE UNCHANGED vars
  BY <1>B DEF vars, TypeInv, TypeOK, Shape, Uploading, Committing
<1> QED
  BY <1>a, <1>b, <1>c, <1>d, <1>e, <1>f, <1>g, <1>h, <1>i, <1>j, <1>k, <1>l,
     <1>m, <1>n, <1>o, <1>p, <1>q, <1>r, <1>s, <1>t, <1>u, <1>v, <1>w, <1>x,
     <1>y, <1>z, <1>A, <1>B, Zenon DEF Next, JobStep, Land

\* Every value current.json, the objects, the requests in flight and the
\* memory of apply() can hold is well formed, with or without overlap.
THEOREM TypeCorrect == Spec => []TypeInv
<1> QED BY InitType, StepType, PTL DEF Spec

\* The part of it that the runs check: the range of every variable.
THEOREM TypesHold == Spec => []TypeOK
<1>1. TypeInv => TypeOK
  BY DEF TypeInv
<1> QED BY <1>1, TypeCorrect, PTL

-----------------------------------------------------------------------------
(***************************************************************************)
(* The inductive invariant under serialized execution, action by action.   *)
(***************************************************************************)
\* The invariant holds of an empty bucket.
LEMMA InitInv == Init => Inv
<1> SUFFICES ASSUME Init PROVE Inv
  OBVIOUS
<1>1. OneJob /\ BeforePointer /\ Revisions /\ Baseline
  BY DEF Init, OneJob, BeforePointer, Revisions, Baseline, Planning, Uploading,
     Committing
<1>2. FreshIds
  <2>1. \A k \in Keys : files[k] # None => k[1] =< runs
    BY ConstantsAssumption DEF Init, Keys, Gens
  <2> QED BY <2>1 DEF Init, FreshIds, Planning
<1>3. Staged /\ LateCommitsComplete /\ DeletesHarmless /\ Fence /\ PointerIntact
  BY DEF Init, Staged, LateCommitsComplete, DeletesHarmless, Fence, PointerIntact,
     Uploading, Committing, Cleaning
<1> QED BY <1>1, <1>2, <1>3 DEF Inv

\* A job that returns, fails or is killed leaves the invariant intact.
LEMMA EndInv ==
  ASSUME TypeInv, Inv, NEW j \in Jobs, End(j), UNCHANGED <<bucketVars, lateVars, runs>>
  PROVE  Inv'
<1> USE DEF TypeInv, TypeOK, Inv, End
<1>1. OneJob'
  BY DEF OneJob
<1>2. BeforePointer'
  BY DEF BeforePointer
<1>3. Revisions'
  BY DEF Revisions, Planning
<1>4. FreshIds'
  BY DEF FreshIds, Planning
<1>5. Baseline'
  BY SMTT(30) DEF Baseline, Uploading, Committing
<1>6. Staged'
  <2>1. ~Uploading(j)' /\ ~Committing(j)'
    BY DEF Uploading, Committing
  <2>2. ASSUME NEW i \in Jobs, i # j
        PROVE  /\ UNCHANGED <<pc[i], dry[i], run[i], etag[i], intent[i], todo[i]>>
               /\ UNCHANGED <<pointer, files>>
    BY <2>2
  <2>3. Staged
    OBVIOUS
  <2> HIDE DEF TypeInv, TypeOK, Inv, End
  <2> QED BY <2>1, <2>2, <2>3
          DEF Staged, Uploading, Committing, Live, Complete, Intact
<1>7. LateCommitsComplete'
  BY SMTT(20) DEF LateCommitsComplete, Live, Complete, Intact
<1>8. DeletesHarmless'
  BY DEF DeletesHarmless, Live, Retained, Uploading, Committing, Cleaning
<1>9. Fence'
  BY DEF Fence, Cleaning
<1>10. PointerIntact'
  BY DEF PointerIntact, Intact
<1> QED BY <1>1, <1>2, <1>3, <1>4, <1>5, <1>6, <1>7, <1>8, <1>9, <1>10

\* A step that touches neither the bucket nor the requests in flight.
LEMMA QuietInv ==
  ASSUME Inv, UNCHANGED <<bucketVars, lateVars>>
  PROVE  LateCommitsComplete' /\ PointerIntact'
BY DEF Inv, LateCommitsComplete, PointerIntact, Live, Complete, Intact

\* A run starts: its IDs are newer than everything in the bucket.
LEMMA StartInv ==
  ASSUME Serialized, TypeInv, Inv, NEW j \in Jobs, Start(j)
  PROVE  Inv'
<1> USE ConstantsAssumption DEF TypeInv, TypeOK, Inv, Start
<1>0. \A i \in Jobs : Idle(i) /\ pc'[i] = IF i = j THEN "fetch" ELSE "idle"
  OBVIOUS
<1>1. OneJob'
  BY <1>0 DEF OneJob
<1>2. BeforePointer'
  BY <1>0 DEF BeforePointer
<1>3. Revisions'
  BY <1>0 DEF Revisions, Planning, Gens, CurrentJson
<1>4. FreshIds'
  BY <1>0 DEF FreshIds, Planning, Gens, Keys
<1>5. Baseline' /\ Staged' /\ Fence'
  BY <1>0 DEF Baseline, Staged, Fence, Uploading, Committing, Cleaning
<1>6. DeletesHarmless'
  BY <1>0 DEF DeletesHarmless, Live, Retained, Uploading, Committing, Cleaning
<1> QED BY <1>1, <1>2, <1>3, <1>4, <1>5, <1>6, QuietInv

\* Reading the pointer makes it the baseline.
LEMMA AdoptInv ==
  ASSUME TypeInv, Inv, NEW j \in Jobs, Planning(j), pointer # None, Adopt(j, pointer),
         UNCHANGED <<bucketVars, lateVars, runs, run, want, zero, dry, intent,
                     todo, doomed, rounds, since>>
  PROVE  Inv'
<1> USE DEF TypeInv, TypeOK, Inv, Adopt, Planning
<1>1. OneJob' /\ BeforePointer'
  BY DEF OneJob, BeforePointer
<1>2. Revisions' /\ FreshIds'
  BY DEF Revisions, FreshIds
<1>3. Baseline'
  BY DEF Baseline, Revisions, Uploading, Committing, ETag, CurrentJson
<1>4. Staged'
  BY DEF Staged, Uploading, Committing, Live, Complete, Intact
<1>5. DeletesHarmless' /\ Fence'
  BY DEF DeletesHarmless, Fence, Live, Retained, Uploading, Committing, Cleaning
<1> QED BY <1>1, <1>2, <1>3, <1>4, <1>5, QuietInv

\* Moving between two places of the planning part.
LEMMA PlanningInv ==
  ASSUME TypeInv, Inv, NEW j \in Jobs, Planning(j),
         NEW l \in {"list", "init", "init_reread"}, Goto(j, l),
         UNCHANGED <<bucketVars, lateVars, runs, run, want, zero, dry, base, etag,
                     intent, todo, doomed>>
  PROVE  Inv'
<1> USE DEF TypeInv, TypeOK, Inv, Planning
<1>1. OneJob' /\ BeforePointer'
  BY DEF OneJob, BeforePointer
<1>2. Revisions' /\ FreshIds'
  BY DEF Revisions, FreshIds
<1>3. Baseline'
  BY DEF Baseline, Uploading, Committing
<1>4. Staged'
  BY DEF Staged, Uploading, Committing, Live, Complete, Intact
<1>5. DeletesHarmless' /\ Fence'
  BY DEF DeletesHarmless, Fence, Live, Retained, Uploading, Committing, Cleaning
<1> QED BY <1>1, <1>2, <1>3, <1>4, <1>5, QuietInv

\* fetch_current_pointer reads the pointer.
LEMMA FetchPointerInv ==
  ASSUME TypeInv, Inv, NEW j \in Jobs, FetchPointer(j)
  PROVE  Inv'
<1>1. Planning(j)
  BY DEF FetchPointer, Planning
<1>2. CASE pointer # None
  BY <1>1, <1>2, AdoptInv DEF FetchPointer
<1>3. CASE pointer = None
  BY <1>1, <1>3, PlanningInv DEF FetchPointer
<1> QED BY <1>2, <1>3

\* An empty bucket is initialised, or in a dry run only imagined.
LEMMA ListEmptyInv ==
  ASSUME TypeInv, Inv, NEW j \in Jobs, ListEmpty(j)
  PROVE  Inv'
<1>1. Planning(j)
  BY DEF ListEmpty, Planning
<1>2. CASE ~dry[j]
  BY <1>1, <1>2, PlanningInv DEF ListEmpty
<1>3. CASE dry[j]
  <2> USE <1>1, <1>3 DEF TypeInv, TypeOK, Inv, ListEmpty, Adopt, Planning
  <2>1. OneJob' /\ BeforePointer'
    BY DEF OneJob, BeforePointer
  <2>2. Revisions' /\ FreshIds'
    BY DEF Revisions, FreshIds
  <2>3. Baseline'
    BY DEF Baseline, Uploading, Committing
  <2>4. Staged'
    BY DEF Staged, Uploading, Committing, Live, Complete, Intact
  <2>5. DeletesHarmless' /\ Fence'
    BY SMTT(30) DEF DeletesHarmless, Fence, Live, Retained, Uploading, Committing, Cleaning
  <2> QED BY <2>1, <2>2, <2>3, <2>4, <2>5, QuietInv
<1> QED BY <1>2, <1>3

\* put_if_absent writes the first, empty pointer.
LEMMA InitWrittenInv ==
  ASSUME TypeInv, Inv, NEW j \in Jobs, InitWritten(j)
  PROVE  Inv'
<1> USE DEF TypeInv, TypeOK, Inv, InitWritten, Adopt, Planning
<1>0. /\ lateCommits = {} /\ run[j] = runs /\ run[j] \in Nat /\ run[j] # 0
      /\ \A i \in Jobs : i # j => pc[i] = "idle"
      /\ pointer' = EmptyPointer(run[j]) /\ pointer'.revision = 2 * run[j] - 1
      /\ pointer'.current = None /\ pointer'.previous = None
  BY DEF BeforePointer, OneJob, Shape, Gens, EmptyPointer, EmptyRevision
<1>1. OneJob' /\ BeforePointer'
  BY <1>0, IdTypes, NoneAssumption DEF OneJob, BeforePointer
<1>2. Revisions' /\ FreshIds'
  BY <1>0 DEF Revisions, FreshIds
<1>3. Baseline'
  BY <1>0, IdTypes DEF Baseline, Uploading, Committing, ETag
<1>4. Staged' /\ LateCommitsComplete' /\ Fence'
  BY <1>0 DEF Staged, LateCommitsComplete, Fence, Uploading, Committing, Cleaning
<1>5. DeletesHarmless'
  BY <1>0 DEF DeletesHarmless, Retained, Uploading, Committing, Cleaning
<1>6. PointerIntact'
  BY <1>0 DEF PointerIntact, Intact
<1> QED BY <1>1, <1>2, <1>3, <1>4, <1>5, <1>6

\* An attempt to write the empty pointer is lost.
LEMMA InitLostInv ==
  ASSUME TypeInv, Inv, NEW j \in Jobs, InitLost(j)
  PROVE  Inv'
<1> USE DEF TypeInv, TypeOK, Inv, InitLost, Planning
<1>0. /\ run[j] = runs /\ run[j] \in Nat /\ run[j] # 0
      /\ \A i \in Jobs : i # j => pc[i] = "idle"
      /\ EmptyPointer(run[j]).revision = 2 * run[j] - 1
      /\ EmptyPointer(run[j]).current = None /\ EmptyPointer(run[j]).previous = None
  BY DEF OneJob, Shape, Gens, EmptyPointer, EmptyRevision
<1>1. OneJob' /\ BeforePointer'
  BY DEF OneJob, BeforePointer
<1>2. Revisions'
  BY <1>0 DEF Revisions
<1>3. FreshIds' /\ Baseline'
  BY DEF FreshIds, Baseline, Uploading, Committing
<1>4. Staged' /\ LateCommitsComplete' /\ Fence'
  BY DEF Staged, LateCommitsComplete, Fence, Uploading, Committing, Cleaning, Live,
     Complete, Intact
<1>5. DeletesHarmless' /\ PointerIntact'
  BY DEF DeletesHarmless, Retained, Uploading, Committing, Cleaning, Live,
     PointerIntact, Intact
<1> QED BY <1>1, <1>2, <1>3, <1>4, <1>5

\* The pointer of a concurrent initialisation is read.
LEMMA InitRereadInv ==
  ASSUME TypeInv, Inv, NEW j \in Jobs, InitReread(j)
  PROVE  Inv'
<1>1. Planning(j)
  BY DEF InitReread, Planning
<1>2. CASE pointer # None
  BY <1>1, <1>2, AdoptInv DEF InitReread
<1>3. CASE pointer = None
  BY <1>3, EndInv DEF InitReread
<1> QED BY <1>2, <1>3

\* An unchanged pass plans a pointer with a new revision.
LEMMA PlanRefreshInv ==
  ASSUME TypeInv, Inv, NEW j \in Jobs, PlanRefresh(j)
  PROVE  Inv'
<1> USE DEF TypeInv, TypeOK, Inv, PlanRefresh, Planning
<1>0. /\ run[j] = runs /\ run[j] \in Nat
      /\ \A i \in Jobs : i # j => pc[i] = "idle"
      /\ base[j] \in CurrentJson
      /\ intent'[j].current = base[j].current
      /\ intent'[j].previous = base[j].previous
      /\ intent'[j].revision = 2 * run[j]
      /\ pc'[j] = IF dry[j] THEN "clean" ELSE "commit"
  BY DEF OneJob, Shape, Gens, Refreshed, NewRevision
<1>1. OneJob' /\ BeforePointer'
  BY <1>0 DEF OneJob, BeforePointer
<1>2. Revisions' /\ FreshIds'
  BY <1>0 DEF Revisions, FreshIds
<1>3. Baseline'
  BY <1>0 DEF Baseline, Uploading, Committing
<1>4. Staged'
  BY <1>0 DEF Staged, Baseline, PointerIntact, Uploading, Committing, Live, Complete,
     Intact
<1>5. DeletesHarmless'
  BY <1>0 DEF DeletesHarmless, Baseline, Retained, Uploading, Committing, Cleaning,
     Live
<1>6. Fence'
  BY <1>0 DEF Fence, Cleaning
<1> QED BY <1>1, <1>2, <1>3, <1>4, <1>5, <1>6, QuietInv

\* A changed pass plans a generation under a fresh ID.
LEMMA PlanGenerationInv ==
  ASSUME TypeInv, Inv, NEW j \in Jobs, NEW nodes \in Rendered(want[j]),
         PlanGeneration(j, nodes)
  PROVE  Inv'
<1> USE DEF TypeInv, TypeOK, Inv, PlanGeneration, Planning
<1>0. /\ run[j] = runs /\ run[j] \in Nat
      /\ \A i \in Jobs : i # j => pc[i] = "idle"
      /\ base[j] \in CurrentJson
      /\ intent'[j].current.id = run[j]
      /\ intent'[j].current.nodes = nodes
      /\ intent'[j].previous = base[j].current
      /\ intent'[j].revision = 2 * run[j]
      /\ pc'[j] = IF dry[j] THEN "clean" ELSE "upload"
  BY DEF OneJob, Shape, Gens, NewPointer, NewRevision
<1>1. OneJob' /\ BeforePointer'
  BY <1>0 DEF OneJob, BeforePointer
<1>2. Revisions' /\ FreshIds'
  BY <1>0 DEF Revisions, FreshIds
<1>3. Baseline'
  BY <1>0 DEF Baseline, Uploading, Committing
<1>4. Staged'
  <2>1. \A h \in Hosts : nodes[h] # None => h \in todo'[j]
    BY DEF Rendered
  <2> QED BY <1>0, <2>1 DEF Staged, Baseline, PointerIntact, Uploading, Committing,
             Live, Intact
<1>5. DeletesHarmless'
  <2>1. \A k \in lateDeletes : k[1] # run[j]
    BY <1>0 DEF FreshIds, Gens, Keys
  <2> QED BY <1>0, <2>1, SMTT(30) DEF DeletesHarmless, Baseline, Retained, Uploading, Committing,
             Cleaning, Live
<1>6. Fence'
  BY <1>0 DEF Fence, Cleaning
<1> QED BY <1>1, <1>2, <1>3, <1>4, <1>5, <1>6, QuietInv

\* Storing an object where there was none cannot break what is complete.
LEMMA StoreKeepsIntact ==
  ASSUME TypeOK, NEW k \in Keys, files[k] = None, NEW b,
         files' = [files EXCEPT ![k] = b],
         NEW e \in GenerationEntry \cup {None}, NEW hosts, hosts \subseteq Hosts,
         Intact(e, hosts)
  PROVE  Intact(e, hosts)'
BY DEF TypeOK, Intact, Key, Keys, GenerationEntry

\* Deleting an object of a generation that a document does not retain.
LEMMA DeleteKeepsComplete ==
  ASSUME TypeOK, NEW k \in Keys, files' = [files EXCEPT ![k] = None],
         NEW doc \in CurrentJson, k[1] \notin Retained(doc), Complete(doc)
  PROVE  Complete(doc)'
<1> USE DEF TypeOK, CurrentJson, GenerationEntry
<1>1. doc.current # None => doc.current.id # k[1]
  BY DEF Retained, Keys
<1>2. doc.previous # None => doc.previous.id # k[1]
  BY DEF Retained, Keys
<1> QED BY <1>1, <1>2 DEF Complete, Intact, Key, Keys

\* Host h of the candidate generation is stored; the job moves on.
LEMMA UploadedInv ==
  ASSUME TypeInv, Inv, NEW j \in Jobs, NEW h \in Hosts, Uploading(j), Uploaded(j, h),
         \/ files' = files /\ files[Key(run[j], h)] = Body(j, h)
         \/ /\ files[Key(run[j], h)] = None
            /\ files' = [files EXCEPT ![Key(run[j], h)] = Body(j, h)],
         UNCHANGED <<pointer, lateVars, runs, planVars, etag, intent, doomed, rounds>>
  PROVE  Inv'
<1> USE DEF TypeInv, TypeOK, Inv, Uploading, Uploaded
<1>0. /\ run[j] = runs /\ run[j] \in Gens
      /\ \A i \in Jobs : i # j => pc[i] = "idle"
      /\ intent[j] \in CurrentJson /\ intent[j].current \in GenerationEntry
      /\ pc'[j] \in {"upload", "commit"}
      /\ pc'[j] = "commit" => todo[j] = {h}
      /\ Key(run[j], h) \in Keys
  BY DEF OneJob, Shape, Key, Keys
<1>1. OneJob' /\ BeforePointer'
  BY <1>0 DEF OneJob, BeforePointer
<1>2. Revisions'
  BY <1>0 DEF Revisions, Planning
<1>3. FreshIds'
  BY <1>0 DEF FreshIds, Planning, Key, Keys, Gens
<1>4. Baseline'
  BY <1>0 DEF Baseline, Committing
<1>a. ASSUME NEW e \in GenerationEntry \cup {None}, Intact(e, Hosts)
      PROVE  Intact(e, Hosts)'
  <2>1. CASE files' = files
    BY <1>a, <2>1 DEF Intact
  <2>2. CASE ~(files' = files)
    BY <1>a, <2>2, <1>0, StoreKeepsIntact
  <2> QED BY <2>1, <2>2
<1>5. Staged'
  <2>1. ~dry[j] /\ intent[j].revision = 2 * run[j]
    BY DEF Staged
  <2>2. ASSUME Live(etag[j])
        PROVE  /\ intent[j].current.id = run[j]
               /\ \A g \in Hosts :
                    intent[j].current.nodes[g] # None /\ g \notin todo'[j] =>
                      files'[Key(run[j], g)] = intent[j].current.nodes[g]
               /\ Intact(intent[j].previous, Hosts)'
    <3>1. /\ intent[j].current.id = run[j]
          /\ \A g \in Hosts : intent[j].current.nodes[g] # None /\ g \notin todo[j] =>
               files[Key(run[j], g)] = intent[j].current.nodes[g]
          /\ Intact(intent[j].previous, Hosts)
      BY <2>2 DEF Staged
    <3>2. Intact(intent[j].previous, Hosts)'
      BY <3>1, <1>0, <1>a DEF CurrentJson
    <3>3. files'[Key(run[j], h)] = intent[j].current.nodes[h]
      BY <1>0 DEF Body
    <3>4. \A g \in Hosts : files[Key(run[j], g)] # None =>
                             files'[Key(run[j], g)] = files[Key(run[j], g)]
      BY <1>0 DEF Key, Keys
    <3> QED BY <3>1, <3>2, <3>3, <3>4
  <2>3. (Uploading(j) /\ Live(etag[j]))' =>
           /\ intent[j].current.id = run[j]
           /\ \A g \in Hosts : intent[j].current.nodes[g] # None /\ g \notin todo'[j] =>
                files'[Key(run[j], g)] = intent[j].current.nodes[g]
           /\ Intact(intent[j].previous, Hosts)'
    BY <2>2 DEF Live
  <2>4. (Committing(j) /\ Live(etag[j]))' => Complete(intent[j])'
    <3> SUFFICES ASSUME (Committing(j) /\ Live(etag[j]))' PROVE Complete(intent[j])'
      OBVIOUS
    <3>1. todo'[j] = {} /\ Live(etag[j])
      BY <1>0 DEF Committing, Live
    <3> QED BY <2>2, <3>1 DEF Complete, Intact
  <2> QED BY <1>0, <2>1, <2>3, <2>4 DEF Staged, Committing
<1>6. LateCommitsComplete'
  BY <1>a DEF LateCommitsComplete, Live, Complete, CurrentJson
<1>7. DeletesHarmless'
  BY <1>0 DEF DeletesHarmless, Retained, Committing, Cleaning, Live
<1>8. Fence'
  BY <1>0 DEF Fence, Cleaning
<1>9. PointerIntact'
  BY <1>a DEF PointerIntact, CurrentJson
<1> QED BY <1>1, <1>2, <1>3, <1>4, <1>5, <1>6, <1>7, <1>8, <1>9

\* Moving between the put and the reread of the same call.
LEMMA SamePhaseInv ==
  ASSUME TypeInv, Inv, NEW j \in Jobs, NEW l \in Labels, Goto(j, l),
         \/ Uploading(j) /\ l \in {"upload", "upload_reread"}
         \/ Committing(j) /\ l \in {"commit", "reread"},
         UNCHANGED <<bucketVars, lateVars, runs, planVars, etag, intent, todo, doomed>>
  PROVE  Inv'
<1> USE DEF TypeInv, TypeOK, Inv, Uploading, Committing
<1>1. OneJob' /\ BeforePointer'
  BY DEF OneJob, BeforePointer
<1>2. Revisions' /\ FreshIds'
  BY DEF Revisions, FreshIds, Planning
<1>3. Baseline'
  BY DEF Baseline
<1>4. Staged'
  BY DEF Staged, Live, Complete, Intact
<1>5. DeletesHarmless' /\ Fence'
  BY DEF DeletesHarmless, Fence, Live, Retained, Cleaning
<1> QED BY <1>1, <1>2, <1>3, <1>4, <1>5, QuietInv

\* An attempt to upload a file is lost.
LEMMA UploadLostInv ==
  ASSUME TypeInv, Inv, NEW j \in Jobs, NEW h \in Hosts, UploadLost(j, h)
  PROVE  Inv'
<1> USE DEF TypeInv, TypeOK, Inv, UploadLost
<1>0. /\ run[j] = runs /\ run[j] \in Nat
      /\ \A i \in Jobs : i # j => pc[i] = "idle"
  BY DEF OneJob, Gens
<1>1. OneJob' /\ BeforePointer' /\ Revisions'
  BY DEF OneJob, BeforePointer, Revisions, Planning
<1>2. FreshIds'
  BY <1>0 DEF FreshIds, Planning, Key
<1>3. Baseline' /\ Fence'
  BY DEF Baseline, Fence, Uploading, Committing, Cleaning
<1>4. Staged' /\ LateCommitsComplete'
  BY DEF Staged, LateCommitsComplete, Uploading, Committing, Live, Complete, Intact
<1>5. DeletesHarmless' /\ PointerIntact'
  BY DEF DeletesHarmless, Retained, Uploading, Committing, Cleaning, Live,
     PointerIntact, Intact
<1> QED BY <1>1, <1>2, <1>3, <1>4, <1>5

\* A refused upload is compared with what is stored.
LEMMA UploadRereadInv ==
  ASSUME TypeInv, Inv, NEW j \in Jobs, NEW h \in Hosts, UploadReread(j, h)
  PROVE  Inv'
<1>1. CASE files[Key(run[j], h)] # Body(j, h)
  BY <1>1, EndInv DEF UploadReread
<1>2. CASE files[Key(run[j], h)] = Body(j, h)
  BY <1>2, UploadedInv DEF UploadReread, Uploading
<1> QED BY <1>1, <1>2

\* The conditional replacement of the pointer succeeds.
LEMMA CommitWrittenInv ==
  ASSUME TypeInv, Inv, NEW j \in Jobs, CommitWritten(j)
  PROVE  Inv'
<1> USE DEF TypeInv, TypeOK, Inv, CommitWritten, Committing
<1>0. /\ run[j] = runs /\ run[j] \in Nat
      /\ \A i \in Jobs : i # j => pc[i] = "idle"
      /\ intent[j] \in CurrentJson /\ pointer \in CurrentJson /\ pointer # None
      /\ intent[j].revision = 2 * run[j] /\ ~dry[j]
      /\ Live(etag[j]) /\ Complete(intent[j])
      /\ pointer.revision < intent[j].revision
  BY DEF OneJob, Shape, Gens, Staged, Baseline, Live, ETag
<1>1. OneJob' /\ BeforePointer'
  BY <1>0, NoneAssumption DEF OneJob, BeforePointer
<1>2. Revisions'
  BY <1>0 DEF Revisions, Planning, CurrentJson
<1>3. FreshIds' /\ Baseline'
  BY <1>0 DEF FreshIds, Baseline, Planning, Uploading
<1>4. Staged'
  BY <1>0 DEF Staged, Uploading
<1>5. LateCommitsComplete'
  BY <1>0 DEF LateCommitsComplete, Revisions, Live, CurrentJson
<1>6. DeletesHarmless'
  <2>1. \A c \in lateCommits : ~Live(c.etag)'
    BY <1>0 DEF Revisions, Live, CurrentJson
  <2> QED BY <1>0, <2>1 DEF DeletesHarmless, Retained, Uploading, Cleaning
<1>7. Fence'
  BY <1>0 DEF Fence, Revisions, Cleaning, CurrentJson
<1>8. PointerIntact'
  BY <1>0 DEF PointerIntact, Complete, Intact
<1> QED BY <1>1, <1>2, <1>3, <1>4, <1>5, <1>6, <1>7, <1>8

\* An attempt to replace the pointer is lost.
LEMMA CommitLostInv ==
  ASSUME TypeInv, Inv, NEW j \in Jobs, CommitLost(j)
  PROVE  Inv'
<1> USE DEF TypeInv, TypeOK, Inv, CommitLost, Committing
<1> DEFINE new == [etag |-> etag[j], doc |-> intent[j]]
<1>0. /\ run[j] = runs /\ run[j] \in Nat
      /\ \A i \in Jobs : i # j => pc[i] = "idle"
      /\ intent[j].revision = 2 * run[j] /\ ~dry[j]
      /\ etag[j] < intent[j].revision /\ etag[j] =< pointer.revision
      /\ new.etag = etag[j] /\ new.doc = intent[j]
      /\ lateCommits' = lateCommits \cup {new}
  BY DEF OneJob, Shape, Gens, Staged, Baseline
<1> HIDE DEF new
<1>1. OneJob' /\ BeforePointer'
  BY <1>0 DEF OneJob, BeforePointer
<1>2. Revisions'
  BY <1>0 DEF Revisions, Planning
<1>3. FreshIds' /\ Baseline'
  BY <1>0 DEF FreshIds, Baseline, Planning, Uploading
<1>4. Staged'
  BY <1>0 DEF Staged, Uploading, Live, Complete, Intact
<1>5. LateCommitsComplete'
  BY <1>0 DEF LateCommitsComplete, Staged, Live, Complete, Intact
<1>6. DeletesHarmless'
  BY <1>0 DEF DeletesHarmless, Retained, Uploading, Cleaning, Live
<1>7. Fence' /\ PointerIntact'
  BY <1>0 DEF Fence, Cleaning, PointerIntact, Intact
<1> QED BY <1>1, <1>2, <1>3, <1>4, <1>5, <1>6, <1>7

\* Finding one's own pointer proves that every late commit is overtaken.
LEMMA RereadCommittedInv ==
  ASSUME TypeInv, Inv, NEW j \in Jobs, RereadCommitted(j)
  PROVE  Inv'
<1> USE DEF TypeInv, TypeOK, Inv, RereadCommitted, Committing
<1>0. /\ run[j] = runs /\ run[j] \in Nat
      /\ \A i \in Jobs : i # j => pc[i] = "idle"
      /\ intent[j].revision = 2 * run[j] /\ ~dry[j]
      /\ pointer \in CurrentJson
  BY DEF OneJob, Shape, Gens, Staged
<1>1. OneJob' /\ BeforePointer'
  BY <1>0, NoneAssumption DEF OneJob, BeforePointer
<1>2. Revisions' /\ FreshIds'
  BY <1>0 DEF Revisions, FreshIds, Planning
<1>3. Baseline' /\ Staged'
  BY <1>0 DEF Baseline, Staged, Uploading
<1>4. DeletesHarmless'
  BY <1>0 DEF DeletesHarmless, Retained, Uploading, Cleaning, Live
<1>5. Fence'
  BY <1>0 DEF Fence, Revisions, Cleaning, CurrentJson
<1> QED BY <1>1, <1>2, <1>3, <1>4, <1>5, QuietInv

\* commit_pointer finds its baseline and tries again.
LEMMA RereadBaselineInv ==
  ASSUME TypeInv, Inv, NEW j \in Jobs, RereadBaseline(j)
  PROVE  Inv'
<1> USE ConstantsAssumption DEF TypeInv, TypeOK
<1>1. CASE rounds[j] >= MaxPointerRetries
  BY <1>1, EndInv DEF RereadBaseline
<1>2. CASE ~(rounds[j] >= MaxPointerRetries)
  <2>1. /\ Goto(j, "commit") /\ Committing(j) /\ "commit" \in Labels
        /\ etag' = [etag EXCEPT ![j] = ETag(pointer)]
        /\ pointer.revision = base[j].revision
        /\ UNCHANGED <<bucketVars, lateVars, runs, planVars, intent, todo, doomed>>
    BY <1>2 DEF RereadBaseline, Committing, Labels
  <2>2. etag[j] = base[j].revision
    BY <2>1 DEF Inv, Baseline
  <2>3. etag' = etag
    BY <2>1, <2>2 DEF ETag
  <2> QED BY <2>1, <2>3, SamePhaseInv
<1> QED BY <1>1, <1>2

\* cleanup condemns what the committed pointer does not retain.
LEMMA CleanListInv ==
  ASSUME TypeInv, Inv, NEW j \in Jobs, CleanList(j)
  PROVE  Inv'
<1>1. CASE dry[j]
  BY <1>1, EndInv DEF CleanList
<1>2. CASE ~dry[j]
  <2>0. /\ pc[j] = "clean" /\ Goto(j, "delete")
        /\ doomed' = [doomed EXCEPT ![j] = Expired(j)]
        /\ UNCHANGED <<bucketVars, lateVars, runs, planVars, etag, intent, todo>>
    BY <1>2 DEF CleanList
  <2>a. \A k \in Expired(j) : k[1] \notin Retained(intent[j]) /\ k[1] =< runs
    BY DEF Expired, Inv, FreshIds
  <2> USE <2>0, <1>2 DEF TypeInv, TypeOK, Inv
  <2>1. OneJob' /\ BeforePointer'
    BY DEF OneJob, BeforePointer
  <2>2. Revisions' /\ FreshIds'
    BY <2>a DEF Revisions, FreshIds, Planning
  <2>3. Baseline' /\ Fence'
    BY DEF Baseline, Fence, Uploading, Committing, Cleaning
  <2>4. Staged'
    BY DEF Staged, Uploading, Committing, Live, Complete, Intact
  <2>5. DeletesHarmless'
    BY <2>a DEF DeletesHarmless, Retained, Uploading, Committing, Cleaning, Live
  <2> QED BY <2>1, <2>2, <2>3, <2>4, <2>5, QuietInv
<1> QED BY <1>1, <1>2

\* A condemned object is deleted.
LEMMA DeleteDoneInv ==
  ASSUME TypeInv, Inv, NEW j \in Jobs, NEW k \in Keys, DeleteDone(j, k)
  PROVE  Inv'
<1> USE DEF TypeInv, TypeOK, Inv, DeleteDone
<1>0. /\ Cleaning(j) /\ pointer = intent[j] /\ k[1] \notin Retained(intent[j])
      /\ \A i \in Jobs : i # j => pc[i] = "idle"
      /\ \A c \in lateCommits : c.etag < pointer.revision
      /\ pointer \in CurrentJson
  BY DEF OneJob, DeletesHarmless, Fence, Shape
<1>1. OneJob' /\ BeforePointer' /\ Revisions'
  BY DEF OneJob, BeforePointer, Revisions, Planning
<1>2. FreshIds' /\ Baseline'
  BY <1>0 DEF FreshIds, Baseline, Planning, Uploading, Committing
<1>3. Staged' /\ Fence'
  BY <1>0 DEF Staged, Fence, Uploading, Committing, Cleaning
<1>4. LateCommitsComplete'
  BY <1>0 DEF LateCommitsComplete, Live, CurrentJson
<1>5. DeletesHarmless'
  BY <1>0 DEF DeletesHarmless, Retained, Uploading, Committing, Cleaning, Live
<1>6. PointerIntact'
  BY <1>0, DeleteKeepsComplete DEF PointerIntact, Complete
<1> QED BY <1>1, <1>2, <1>3, <1>4, <1>5, <1>6

\* An attempt to delete an object is lost.
LEMMA DeleteLostInv ==
  ASSUME TypeInv, Inv, NEW j \in Jobs, NEW k \in Keys, DeleteLost(j, k)
  PROVE  Inv'
<1> USE DEF TypeInv, TypeOK, Inv, DeleteLost
<1>0. /\ Cleaning(j) /\ pointer = intent[j] /\ k[1] \notin Retained(intent[j])
      /\ \A i \in Jobs : i # j => pc[i] = "idle"
      /\ \A c \in lateCommits : c.etag < pointer.revision
      /\ pointer \in CurrentJson
  BY DEF OneJob, DeletesHarmless, Fence, Shape
<1>1. OneJob' /\ BeforePointer' /\ Revisions'
  BY DEF OneJob, BeforePointer, Revisions, Planning
<1>2. FreshIds'
  BY <1>0 DEF FreshIds, Planning, OneJob
<1>3. Baseline' /\ Fence'
  BY <1>0 DEF Baseline, Fence, Uploading, Committing, Cleaning
<1>4. Staged' /\ LateCommitsComplete'
  BY <1>0 DEF Staged, LateCommitsComplete, Uploading, Committing, Live, Complete,
     Intact
<1>5. DeletesHarmless'
  BY <1>0 DEF DeletesHarmless, Retained, Uploading, Committing, Cleaning, Live,
     CurrentJson
<1>6. PointerIntact'
  BY DEF PointerIntact, Intact
<1> QED BY <1>1, <1>2, <1>3, <1>4, <1>5, <1>6

\* A lost initialisation reaches the bucket.
LEMMA LandInitInv ==
  ASSUME TypeInv, Inv, NEW doc \in lateInits, LandInit(doc)
  PROVE  Inv'
<1> USE DEF TypeInv, TypeOK, Inv, LandInit
<1>1. CASE pointer # None
  <2> USE <1>1
  <2>1. OneJob' /\ BeforePointer' /\ Revisions' /\ FreshIds'
    BY DEF OneJob, BeforePointer, Revisions, FreshIds, Planning
  <2>2. Baseline' /\ Fence' /\ PointerIntact'
    BY DEF Baseline, Fence, PointerIntact, Intact, Uploading, Committing, Cleaning
  <2>3. Staged' /\ LateCommitsComplete'
    BY DEF Staged, LateCommitsComplete, Uploading, Committing, Live, Complete, Intact
  <2>4. DeletesHarmless'
    BY DEF DeletesHarmless, Retained, Uploading, Committing, Cleaning, Live
  <2> QED BY <2>1, <2>2, <2>3, <2>4
<1>2. CASE pointer = None
  <2>0. /\ pointer' = doc /\ doc \in CurrentJson
        /\ doc.current = None /\ doc.previous = None /\ doc.revision =< 2 * runs
        /\ lateCommits = {} /\ lateCommits' = {}
        /\ \A j \in Jobs : \/ pc[j] \in {"idle", "fetch", "list", "init",
                                         "init_reread"}
                           \/ dry[j]
        /\ \A j \in Jobs : ~Uploading(j) /\ ~Committing(j) /\ ~Cleaning(j)
    BY <1>2 DEF Revisions, BeforePointer, Staged, Uploading, Committing, Cleaning
  <2>1. OneJob' /\ BeforePointer'
    BY <2>0 DEF OneJob, BeforePointer
  <2>2. Revisions' /\ FreshIds'
    BY <2>0 DEF Revisions, FreshIds, Planning
  <2>3. Baseline'
    BY <2>0 DEF Baseline, Uploading, Committing
  <2>4. Staged' /\ LateCommitsComplete' /\ Fence'
    BY <2>0 DEF Staged, LateCommitsComplete, Fence, Uploading, Committing, Cleaning
  <2>5. DeletesHarmless' /\ PointerIntact'
    BY <2>0 DEF DeletesHarmless, Retained, Uploading, Committing, Cleaning,
       PointerIntact, Intact
  <2> QED BY <2>1, <2>2, <2>3, <2>4, <2>5
<1> QED BY <1>1, <1>2

\* A lost commit reaches the bucket, live or overtaken.
LEMMA LandCommitInv ==
  ASSUME TypeInv, Inv, NEW c \in lateCommits, LandCommit(c)
  PROVE  Inv'
<1> USE DEF TypeInv, TypeOK, Inv, LandCommit
<1>1. CASE ~Live(c.etag)
  <2> USE <1>1
  <2>0. pointer' = pointer
    BY DEF Live, ETag
  <2>1. OneJob' /\ BeforePointer' /\ Revisions' /\ FreshIds'
    BY <2>0 DEF OneJob, BeforePointer, Revisions, FreshIds, Planning
  <2>2. Baseline' /\ Fence' /\ PointerIntact'
    BY <2>0 DEF Baseline, Fence, PointerIntact, Intact, Uploading, Committing, Cleaning
  <2>3. Staged' /\ LateCommitsComplete'
    BY <2>0 DEF Staged, LateCommitsComplete, Uploading, Committing, Live, Complete,
       Intact
  <2>4. DeletesHarmless'
    BY <2>0 DEF DeletesHarmless, Retained, Uploading, Committing, Cleaning, Live
  <2> QED BY <2>1, <2>2, <2>3, <2>4
<1>2. CASE Live(c.etag)
  <2>0. /\ pointer' = c.doc /\ c.doc \in CurrentJson /\ pointer \in CurrentJson
        /\ pointer.revision < c.doc.revision /\ c.doc.revision =< 2 * runs
        /\ Complete(c.doc)
        /\ \A d \in lateCommits : d.etag =< pointer.revision
        /\ \A j \in Jobs : ~Cleaning(j)
    BY <1>2 DEF Live, ETag, Revisions, LateCommitsComplete, Fence
  <2>a. \A t \in Nat : t =< pointer.revision => ~Live(t)'
    BY <2>0 DEF Live, CurrentJson
  <2>1. OneJob' /\ BeforePointer' /\ FreshIds'
    BY <2>0, NoneAssumption DEF OneJob, BeforePointer, FreshIds, Planning
  <2>2. Revisions'
    BY <2>0 DEF Revisions, Planning, CurrentJson
  <2>3. Baseline'
    BY <2>0, NoneAssumption DEF Baseline, BeforePointer, Uploading, Committing,
       CurrentJson
  <2>4. Staged'
    BY <2>0, <2>a DEF Staged, Baseline, Uploading, Committing
  <2>5. LateCommitsComplete'
    BY <2>0, <2>a DEF LateCommitsComplete
  <2>6. DeletesHarmless'
    BY <1>2, <2>0, <2>a DEF DeletesHarmless, Baseline, Retained, Uploading,
       Committing, Cleaning
  <2>7. Fence'
    BY <2>0 DEF Fence, Cleaning
  <2>8. PointerIntact'
    BY <2>0 DEF PointerIntact, Complete, Intact
  <2> QED BY <2>1, <2>2, <2>3, <2>4, <2>5, <2>6, <2>7, <2>8
<1> QED BY <1>1, <1>2

\* A lost upload reaches the bucket.
LEMMA LandPutInv ==
  ASSUME TypeInv, Inv, NEW p \in latePuts, LandPut(p)
  PROVE  Inv'
<1> USE DEF TypeInv, TypeOK, Inv, LandPut
<1>0. /\ p.key \in Keys /\ p.key[1] =< runs
      /\ \A k \in Keys : files[k] # None => files'[k] = files[k]
      /\ \A k \in Keys : files'[k] # None => files[k] # None \/ k = p.key
  BY DEF FreshIds
<1>a. ASSUME NEW e \in GenerationEntry \cup {None}, Intact(e, Hosts)
      PROVE  Intact(e, Hosts)'
  BY <1>0, <1>a DEF Intact, Key, Keys, GenerationEntry, NodeMap
<1>1. OneJob' /\ BeforePointer' /\ Revisions'
  BY DEF OneJob, BeforePointer, Revisions, Planning
<1>2. FreshIds'
  BY <1>0 DEF FreshIds, Planning
<1>3. Baseline' /\ Fence'
  BY DEF Baseline, Fence, Uploading, Committing, Cleaning
<1>4. Staged'
  <2>1. ASSUME NEW j \in Jobs, Committing(j), Live(etag[j])
        PROVE  Complete(intent[j])'
    BY <1>a, <2>1 DEF Staged, Shape, Complete, CurrentJson
  <2>2. ASSUME NEW j \in Jobs, Uploading(j), Live(etag[j])
        PROVE  /\ intent[j].current.id = run[j]
               /\ \A h \in Hosts :
                    intent[j].current.nodes[h] # None /\ h \notin todo[j] =>
                      files'[Key(run[j], h)] = intent[j].current.nodes[h]
               /\ Intact(intent[j].previous, Hosts)'
    <3>1. Intact(intent[j].previous, Hosts)'
      BY <1>a, <2>2 DEF Staged, Shape, CurrentJson
    <3> QED BY <3>1, <1>0, <2>2 DEF Staged, Shape, Key, Keys
  <2> QED BY <2>1, <2>2 DEF Staged, Uploading, Committing, Live
<1>5. LateCommitsComplete' /\ PointerIntact'
  BY <1>a DEF LateCommitsComplete, PointerIntact, Live, Complete, CurrentJson
<1>6. DeletesHarmless'
  BY DEF DeletesHarmless, Retained, Uploading, Committing, Cleaning, Live
<1> QED BY <1>1, <1>2, <1>3, <1>4, <1>5, <1>6

\* A lost deletion reaches the bucket.
LEMMA LandDeleteInv ==
  ASSUME TypeInv, Inv, NEW k \in lateDeletes, LandDelete(k)
  PROVE  Inv'
<1> USE DEF TypeInv, TypeOK, Inv, LandDelete
<1>0. k \in Keys
  OBVIOUS
<1>1. OneJob' /\ BeforePointer' /\ Revisions'
  BY DEF OneJob, BeforePointer, Revisions, Planning
<1>2. FreshIds'
  BY <1>0 DEF FreshIds, Planning
<1>3. Baseline' /\ Fence'
  BY DEF Baseline, Fence, Uploading, Committing, Cleaning
<1>4. Staged'
  <2>1. ASSUME NEW j \in Jobs, Committing(j), Live(etag[j])
        PROVE  Complete(intent[j])'
    BY <1>0, <2>1, DeleteKeepsComplete DEF Staged, Shape, DeletesHarmless
  <2>2. ASSUME NEW j \in Jobs, Uploading(j), Live(etag[j])
        PROVE  /\ intent[j].current.id = run[j]
               /\ \A h \in Hosts :
                    intent[j].current.nodes[h] # None /\ h \notin todo[j] =>
                      files'[Key(run[j], h)] = intent[j].current.nodes[h]
               /\ Intact(intent[j].previous, Hosts)'
    <3>1. /\ intent[j].current.id = run[j] /\ intent[j].current # None
          /\ \A h \in Hosts : intent[j].current.nodes[h] # None /\ h \notin todo[j] =>
               files[Key(run[j], h)] = intent[j].current.nodes[h]
          /\ Intact(intent[j].previous, Hosts)
          /\ k[1] \notin Retained(intent[j])
          /\ intent[j] \in CurrentJson
      BY <2>2, NoneAssumption DEF Staged, Shape, DeletesHarmless
    <3>2. k[1] # run[j] /\ (intent[j].previous # None => intent[j].previous.id # k[1])
      BY <1>0, <3>1 DEF Retained, Keys
    <3>3. Intact(intent[j].previous, Hosts)'
      BY <1>0, <3>1, <3>2 DEF Intact, Key, Keys, CurrentJson, GenerationEntry
    <3> QED BY <1>0, <3>1, <3>2, <3>3 DEF Key, Keys
  <2> QED BY <2>1, <2>2 DEF Staged, Uploading, Committing, Live
<1>5. LateCommitsComplete'
  BY <1>0, DeleteKeepsComplete DEF LateCommitsComplete, DeletesHarmless, Live
<1>6. PointerIntact'
  BY <1>0, DeleteKeepsComplete DEF PointerIntact, DeletesHarmless, Complete
<1>7. DeletesHarmless'
  BY DEF DeletesHarmless, Retained, Uploading, Committing, Cleaning, Live
<1> QED BY <1>1, <1>2, <1>3, <1>4, <1>5, <1>6, <1>7

\* A step that leaves alone everything the invariant speaks of.
LEMMA IdleInv ==
  ASSUME TypeInv, Inv,
         UNCHANGED <<pointer, files, lateVars, runs, pc, planVars, etag, intent, todo,
                     doomed>>
  PROVE  Inv'
<1> USE DEF TypeInv, TypeOK, Inv
<1>1. OneJob' /\ BeforePointer' /\ Revisions' /\ FreshIds'
  BY DEF OneJob, BeforePointer, Revisions, FreshIds, Planning
<1>2. Baseline' /\ Fence' /\ PointerIntact'
  BY DEF Baseline, Fence, PointerIntact, Intact, Uploading, Committing, Cleaning
<1>3. Staged' /\ LateCommitsComplete'
  BY DEF Staged, LateCommitsComplete, Uploading, Committing, Live, Complete, Intact
<1>4. DeletesHarmless'
  BY DEF DeletesHarmless, Retained, Uploading, Committing, Cleaning, Live
<1> QED BY <1>1, <1>2, <1>3, <1>4

\* Every step of serialised jobs preserves the invariant.
LEMMA StepInv == Serialized /\ TypeInv /\ Inv /\ [Next]_vars => Inv'
<1> SUFFICES ASSUME Serialized, TypeInv, Inv, [Next]_vars PROVE Inv'
  OBVIOUS
<1>1. ASSUME NEW j \in Jobs, InitRefused(j) PROVE Inv'
  BY <1>1, PlanningInv DEF InitRefused, Planning
<1>2. ASSUME NEW j \in Jobs, NEW h \in Hosts, UploadWritten(j, h) PROVE Inv'
  BY <1>2, UploadedInv DEF UploadWritten, Uploading
<1>3. ASSUME NEW j \in Jobs, UploadRefused(j) PROVE Inv'
  BY <1>3, SamePhaseInv DEF UploadRefused, Uploading, Labels
<1>4. ASSUME NEW j \in Jobs, CommitRefused(j) PROVE Inv'
  BY <1>4, SamePhaseInv DEF CommitRefused, Committing, Labels
<1>5. ASSUME NEW j \in Jobs,
             \/ ListOrphaned(j) \/ FilesMissing(j) \/ RereadConflict(j)
             \/ CleanDone(j) \/ Fail(j)
      PROVE  Inv'
  BY <1>5, EndInv DEF ListOrphaned, FilesMissing, RereadConflict, CleanDone, Fail
<1>6. ASSUME NEW k \in Keys, Age(k) PROVE Inv'
  BY <1>6, IdleInv DEF Age
<1>7. CASE UNCHANGED vars
  BY <1>7, IdleInv DEF vars
<1> QED
  BY <1>1, <1>2, <1>3, <1>4, <1>5, <1>6, <1>7, StartInv, FetchPointerInv,
     ListEmptyInv, InitWrittenInv, InitLostInv, InitRereadInv, PlanRefreshInv,
     PlanGenerationInv, UploadLostInv, UploadRereadInv, CommitWrittenInv,
     CommitLostInv, RereadCommittedInv, RereadBaselineInv, CleanListInv,
     DeleteDoneInv, DeleteLostInv, LandInitInv, LandCommitInv, LandPutInv,
     LandDeleteInv, Zenon DEF Next, JobStep, Land

\* The invariant holds throughout when jobs are serialised.
LEMMA InvHolds == Serialized => (Spec => []Inv)
<1>1. ASSUME Serialized PROVE Spec => []Inv
  <2>1. TypeInv /\ Inv /\ [Next]_vars => Inv'
    BY <1>1, StepInv
  <2> QED BY <2>1, InitInv, TypeCorrect, PTL DEF Spec
<1> QED BY <1>1

\* When the scheduler serializes jobs, current.json never names a file that
\* is missing or differs from its digest, however requests are lost or late
\* and wherever jobs are killed, with no grace period needed.
THEOREM PublishedFilesPresent == Serialized => (Spec => []PointerIntact)
<1>1. Inv => PointerIntact
  BY DEF Inv
<1>2. ASSUME Serialized PROVE Spec => []PointerIntact
  BY <1>1, <1>2, InvHolds, PTL
<1> QED BY <1>2

\* When the scheduler serializes jobs, a job that deletes works from the
\* pointer in the bucket and no commit in flight can still replace it.
THEOREM CleanupIsFenced == Serialized => (Spec => []CleanupFenced)
<1>1. TypeInv /\ Inv => CleanupFenced
  BY DEF TypeInv, TypeOK, Inv, Fence, CleanupFenced, Cleaning, ETag, CurrentJson,
     Shape
<1>2. ASSUME Serialized PROVE Spec => []CleanupFenced
  BY <1>1, <1>2, InvHolds, TypeCorrect, PTL
<1> QED BY <1>2
=============================================================================
