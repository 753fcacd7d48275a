--------------------------- MODULE DiscoveryProofs ---------------------------
(***************************************************************************)
(* Proofs about Discovery: what a node's passes can meet while runs of     *)
(* wg-server apply publish, fail, overlap and delete.  What a node accepts *)
(* and the order of what it sees rest on the IDs and the conditional       *)
(* writes alone; how often it must start again also needs the published    *)
(* files to stay, as PublishOverlapProofs and PublishProofs show they do.  *)
(***************************************************************************)
EXTENDS Discovery, PublishOverlapProofs

USE DEF bucketVars, lateVars, jobVars, planVars, Idle, Goto

(***************************************************************************)
(* The server does not notice the node.                                    *)
(***************************************************************************)
\* Every step is one of the server's or leaves the server alone.
LEMMA ServerStep == [DiscoveryNext]_<<vars, readVars>> => [Next]_vars
BY DEF DiscoveryNext, Served

\* So the server behaves as it does without the node.
LEMMA ServerUnderneath == DiscoverySpec => Spec
<1>1. DiscoveryInit => Init
  BY DEF DiscoveryInit
<1> QED BY <1>1, ServerStep, PTL DEF DiscoverySpec, Spec

(***************************************************************************)
(* Types.                                                                  *)
(***************************************************************************)
\* Between the two reads a pass holds an entry that names this host.
FoundShape ==
  at = "file" => found \in GenerationEntry /\ found.nodes[Me] # None

ReadInv == DiscoveryTypeOK /\ FoundShape

\* Every step keeps what a pass remembers well formed.
LEMMA StepRead ==
  TypeInv /\ ReadInv /\ [DiscoveryNext]_<<vars, readVars>> => ReadInv'
<1> SUFFICES ASSUME TypeInv, ReadInv, [DiscoveryNext]_<<vars, readVars>> PROVE ReadInv'
  OBVIOUS
<1> USE DiscoveryAssumption, ConstantsAssumption DEF ReadInv, DiscoveryTypeOK, FoundShape
<1>1. ASSUME NEW a \in {"absent", "invalid", "exhausted", "error"}, Leave(a),
             UNCHANGED <<last, left>>
      PROVE  ReadInv'
  BY <1>1 DEF Leave
<1>2. CASE Depart
  BY <1>2 DEF Depart
<1>3. CASE PointerUnusable
  BY <1>3, <1>1 DEF PointerUnusable
<1>4. CASE PointerRead
  BY <1>4 DEF PointerRead, Usable, TypeInv, TypeOK, CurrentJson
<1>5. CASE FileRead
  BY <1>5 DEF FileRead, Leave, GenerationEntry
<1>6. CASE FileGone
  BY <1>6, <1>1 DEF FileGone
<1>7. CASE ReadFailed
  BY <1>7, <1>1 DEF ReadFailed
<1>8. CASE Served
  BY <1>8 DEF Served
<1>9. CASE UNCHANGED readVars
  BY <1>9 DEF readVars
<1> QED BY <1>2, <1>3, <1>4, <1>5, <1>6, <1>7, <1>8, <1>9 DEF DiscoveryNext, Read

\* What a pass remembers is well formed throughout.
LEMMA ReadHolds == DiscoverySpec => []ReadInv
<1>1. DiscoveryInit => ReadInv
  BY DiscoveryAssumption DEF DiscoveryInit, ReadInv, DiscoveryTypeOK, FoundShape
<1> QED BY <1>1, StepRead, ServerUnderneath, TypeCorrect, PTL DEF DiscoverySpec

\* discover_and_download keeps its state well formed, its rounds within
\* MAX_DISCOVERY_ROUNDS, however the server's steps interleave with it.
THEOREM DiscoveryTypeCorrect == DiscoverySpec => []DiscoveryTypeOK
<1>1. ReadInv => DiscoveryTypeOK
  BY DEF ReadInv
<1> QED BY <1>1, ReadHolds, PTL

-----------------------------------------------------------------------------
(***************************************************************************)
(* What a node reads it accepts.                                           *)
(***************************************************************************)
\* The generation of entry e is taken: its objects are absent or what e
\* says, and so is all that is on its way to them.
Settled(e) ==
  /\ e.id =< runs
  /\ \A j \in Jobs : Planning(j) => run[j] # e.id
  /\ \A j \in Jobs : Uploading(j) /\ run[j] = e.id => intent[j].current = e
  /\ \A h \in Hosts : e.nodes[h] # None =>
       /\ files[Key(e.id, h)] \in {None, e.nodes[h]}
       /\ \A p \in latePuts : p.key = Key(e.id, h) => p.body = e.nodes[h]

\* The entries of documents are settled.
LEMMA DocumentSettled ==
  ASSUME TypeInv, RaceInv, NEW d \in Documents, NEW e \in EntriesOf(d)
  PROVE  Settled(e)
<1>1. e \in GenerationEntry
  BY DocumentType
<1>2. e.id =< runs
  BY <1>1, ConstantsAssumption DEF RaceInv, RunsFresh, Unused, GenerationEntry, Gens, TypeInv,
     TypeOK
<1>3. \A j \in Jobs : Planning(j) => run[j] # e.id
  BY DEF RaceInv, RunsFresh, Unused
<1>4. ASSUME NEW j \in Jobs, Uploading(j), run[j] = e.id PROVE intent[j].current = e
  <2>1. intent[j] \in Documents /\ intent[j].current \in EntriesOf(intent[j])
    BY <1>4, SomeDocuments, NoneAssumption DEF TypeInv, Shape, EntriesOf
  <2>2. intent[j].current.id = e.id
    BY <1>4 DEF RaceInv, Planned
  <2> QED BY <2>1, <2>2 DEF RaceInv, OneEntry
<1> QED BY <1>2, <1>3, <1>4 DEF Settled, RaceInv, FilesMatch

\* Jobs that go on as they are, start under a new number or end settle
\* nothing anew.
LEMMA SettledJobs ==
  ASSUME TypeInv, NEW e \in GenerationEntry, Settled(e), runs' >= runs, runs' \in Nat,
         latePuts' \subseteq latePuts, \A k \in Keys : files'[k] \in {None, files[k]},
         \A i \in Jobs :
           /\ Planning(i)' => (Planning(i) /\ run'[i] = run[i]) \/ run'[i] = runs + 1
           /\ Uploading(i)' =>
                /\ run'[i] = run[i]
                /\ Planning(i) \/ (Uploading(i) /\ intent'[i] = intent[i])
  PROVE  Settled(e)'
<1> USE ConstantsAssumption
<1>1. e.id =< runs' /\ e.id \in Nat /\ runs \in Nat
  BY DEF Settled, TypeInv, TypeOK, Gens, GenerationEntry
<1>2. \A j \in Jobs : Planning(j)' => run'[j] # e.id
  BY <1>1 DEF Settled
<1>3. \A j \in Jobs : Uploading(j)' /\ run'[j] = e.id => intent'[j].current = e
  BY DEF Settled
<1>4. \A h \in Hosts : Key(e.id, h) \in Keys
  BY DEF Key, Keys, GenerationEntry
<1> QED BY <1>1, <1>2, <1>3, <1>4 DEF Settled

\* An upload writes, or leaves in flight, what the settled entry says.
LEMMA SettledUpload ==
  ASSUME TypeInv, NEW e \in GenerationEntry, Settled(e), NEW j \in Jobs, NEW h \in Hosts,
         UploadWritten(j, h) \/ UploadLost(j, h)
  PROVE  Settled(e)'
<1>0. /\ Uploading(j) /\ Key(run[j], h) \in Keys
      /\ \A g \in Hosts : Key(e.id, g) = Key(run[j], h) => run[j] = e.id /\ g = h
      /\ \A g \in Hosts : Key(e.id, g) \in Keys
  BY DEF UploadWritten, UploadLost, Uploading, Key, Keys, TypeInv, TypeOK, GenerationEntry
<1>1. run[j] = e.id => Body(j, h) = e.nodes[h]
  BY <1>0 DEF Settled, Body
<1>2. /\ UNCHANGED <<runs, run, intent>>
      /\ \A i \in Jobs : (Planning(i)' => Planning(i)) /\ (Uploading(i)' => Uploading(i))
  BY <1>0 DEF UploadWritten, UploadLost, Uploaded, Uploading, Planning, TypeInv, TypeOK
<1>3. \A g \in Hosts : e.nodes[g] # None => files'[Key(e.id, g)] \in {None, e.nodes[g]}
  <2>1. CASE UploadWritten(j, h)
    BY <1>0, <1>1, <2>1 DEF UploadWritten, Settled, TypeInv, TypeOK
  <2>2. CASE UploadLost(j, h)
    BY <2>2 DEF UploadLost, Settled
  <2> QED BY <2>1, <2>2
<1>4. \A g \in Hosts : e.nodes[g] # None =>
        \A p \in latePuts' : p.key = Key(e.id, g) => p.body = e.nodes[g]
  <2>1. CASE UploadWritten(j, h)
    BY <2>1 DEF UploadWritten, Settled
  <2>2. CASE UploadLost(j, h)
    BY <1>0, <1>1, <2>2 DEF UploadLost, Settled
  <2> QED BY <2>1, <2>2
<1> QED BY <1>2, <1>3, <1>4 DEF Settled

\* So does a late upload that lands.
LEMMA SettledLandPut ==
  ASSUME TypeInv, NEW e \in GenerationEntry, Settled(e), NEW p \in latePuts, LandPut(p)
  PROVE  Settled(e)'
<1>1. p.key \in Keys /\ \A g \in Hosts : Key(e.id, g) \in Keys
  BY DEF Key, Keys, TypeInv, TypeOK, GenerationEntry
<1>2. \A g \in Hosts : e.nodes[g] # None => files'[Key(e.id, g)] \in {None, e.nodes[g]}
  BY <1>1 DEF LandPut, Settled, TypeInv, TypeOK
<1>3. /\ UNCHANGED <<runs, pc, run, intent>> /\ latePuts' \subseteq latePuts
  BY DEF LandPut
<1> QED BY <1>2, <1>3 DEF Settled, Planning, Uploading

\* Every step of the server leaves a settled entry settled.
LEMMA EntryStaysSettled ==
  ASSUME TypeInv, NEW e \in GenerationEntry, Settled(e), [Next]_vars
  PROVE  Settled(e)'
<1> USE ConstantsAssumption
<1>t. runs \in Nat /\ MaxRuns \in Nat
  BY DEF TypeInv, TypeOK, Gens
<1>u. ASSUME UNCHANGED <<runs, files, latePuts>>, NEW j \in Jobs,
             \A i \in Jobs : i # j => /\ pc'[i] = pc[i] /\ run'[i] = run[i]
                                      /\ intent'[i] = intent[i],
             Planning(j)' => Planning(j) /\ run'[j] = run[j],
             Uploading(j)' => /\ run'[j] = run[j]
                              /\ Planning(j) \/ (Uploading(j) /\ intent'[j] = intent[j])
      PROVE  Settled(e)'
  <2>1. \A i \in Jobs :
          /\ Planning(i)' => (Planning(i) /\ run'[i] = run[i]) \/ run'[i] = runs + 1
          /\ Uploading(i)' =>
               /\ run'[i] = run[i]
               /\ Planning(i) \/ (Uploading(i) /\ intent'[i] = intent[i])
    BY <1>u DEF Planning, Uploading
  <2> QED BY <1>t, <1>u, <2>1, SettledJobs
<1>s. ASSUME UNCHANGED <<runs, pc, run, intent>>, latePuts' \subseteq latePuts,
             \A k \in Keys : files'[k] \in {None, files[k]}
      PROVE  Settled(e)'
  BY <1>t, <1>s, SettledJobs DEF Planning, Uploading
<1>e. ASSUME NEW j \in Jobs, End(j), UNCHANGED <<bucketVars, lateVars, runs>>
      PROVE  Settled(e)'
  BY <1>e, <1>u DEF End, Planning, Uploading, TypeInv, TypeOK
<1>a. ASSUME NEW j \in Jobs, Start(j) PROVE Settled(e)'
  <2>1. /\ runs' = runs + 1 /\ run'[j] = runs + 1 /\ UNCHANGED <<files, latePuts, intent>>
        /\ pc'[j] = "fetch"
        /\ \A i \in Jobs : i # j => pc'[i] = pc[i] /\ run'[i] = run[i]
    BY <1>a DEF Start, TypeInv, TypeOK
  <2>2. \A i \in Jobs :
          /\ Planning(i)' => (Planning(i) /\ run'[i] = run[i]) \/ run'[i] = runs + 1
          /\ Uploading(i)' =>
               /\ run'[i] = run[i]
               /\ Planning(i) \/ (Uploading(i) /\ intent'[i] = intent[i])
    BY <2>1 DEF Planning, Uploading
  <2> QED BY <1>t, <2>1, <2>2, SettledJobs
<1>b. ASSUME NEW j \in Jobs,
             \/ FetchPointer(j) \/ ListEmpty(j) \/ InitWritten(j) \/ InitRefused(j)
             \/ PlanRefresh(j) \/ UploadRefused(j) \/ CommitWritten(j)
             \/ CommitRefused(j) \/ RereadCommitted(j)
      PROVE  Settled(e)'
  <2>1. /\ UNCHANGED <<runs, files, latePuts, run>>
        /\ \A i \in Jobs : i # j => pc'[i] = pc[i] /\ intent'[i] = intent[i]
    BY <1>b DEF FetchPointer, ListEmpty, InitWritten, InitRefused, Adopt, PlanRefresh,
       UploadRefused, CommitWritten, CommitRefused, RereadCommitted, TypeInv, TypeOK
  <2>2. /\ Planning(j)' => Planning(j)
        /\ Uploading(j)' => Uploading(j) /\ intent' = intent
    BY <1>b DEF Planning, Uploading, FetchPointer, ListEmpty, InitWritten, InitRefused, Adopt,
       PlanRefresh, UploadRefused, CommitWritten, CommitRefused, RereadCommitted, TypeInv,
       TypeOK
  <2> QED BY <2>1, <2>2, <1>u
<1>c. ASSUME NEW j \in Jobs, NEW nodes \in Rendered(want[j]), PlanGeneration(j, nodes)
      PROVE  Settled(e)'
  BY <1>c, <1>u DEF PlanGeneration, Planning, Uploading, TypeInv, TypeOK
<1>d. ASSUME NEW j \in Jobs, NEW h \in Hosts, UploadReread(j, h) PROVE Settled(e)'
  <2>1. CASE files[Key(run[j], h)] # Body(j, h)
    BY <1>d, <2>1, <1>e DEF UploadReread
  <2>2. CASE files[Key(run[j], h)] = Body(j, h)
    BY <1>d, <2>2, <1>u DEF UploadReread, Uploaded, Planning, Uploading, TypeInv, TypeOK
  <2> QED BY <2>1, <2>2
<1>f. ASSUME NEW j \in Jobs, InitReread(j) PROVE Settled(e)'
  <2>1. CASE pointer = None
    BY <1>f, <2>1, <1>e DEF InitReread
  <2>2. CASE pointer # None
    BY <1>f, <2>2, <1>u DEF InitReread, Adopt, Planning, Uploading, TypeInv, TypeOK
  <2> QED BY <2>1, <2>2
<1>g. ASSUME NEW j \in Jobs, RereadBaseline(j) PROVE Settled(e)'
  <2>1. CASE rounds[j] >= MaxPointerRetries
    BY <1>g, <2>1, <1>e DEF RereadBaseline, TypeInv, TypeOK
  <2>2. CASE ~(rounds[j] >= MaxPointerRetries)
    BY <1>g, <2>2, <1>u DEF RereadBaseline, Planning, Uploading, TypeInv, TypeOK
  <2> QED BY <2>1, <2>2
<1>h. ASSUME NEW j \in Jobs, CleanList(j) PROVE Settled(e)'
  <2>1. CASE dry[j]
    BY <1>h, <2>1, <1>e DEF CleanList
  <2>2. CASE ~dry[j]
    BY <1>h, <2>2, <1>u DEF CleanList, Planning, Uploading, TypeInv, TypeOK
  <2> QED BY <2>1, <2>2
<1>i. ASSUME NEW j \in Jobs,
             \/ ListOrphaned(j) \/ FilesMissing(j) \/ RereadConflict(j)
             \/ CleanDone(j) \/ Fail(j)
      PROVE  Settled(e)'
  BY <1>i, <1>e DEF ListOrphaned, FilesMissing, RereadConflict, CleanDone, Fail
<1>j. ASSUME NEW j \in Jobs, InitLost(j) \/ CommitLost(j) PROVE Settled(e)'
  BY <1>j, <1>s DEF InitLost, CommitLost
<1>k. ASSUME NEW j \in Jobs, NEW k \in Keys, DeleteDone(j, k) \/ DeleteLost(j, k)
      PROVE  Settled(e)'
  BY <1>k, <1>s DEF DeleteDone, DeleteLost, TypeInv, TypeOK
<1>l. ASSUME NEW doc \in lateInits, LandInit(doc) PROVE Settled(e)'
  BY <1>l, <1>s DEF LandInit
<1>m. ASSUME NEW c \in lateCommits, LandCommit(c) PROVE Settled(e)'
  BY <1>m, <1>s DEF LandCommit
<1>n. ASSUME NEW k \in lateDeletes, LandDelete(k) PROVE Settled(e)'
  BY <1>n, <1>s DEF LandDelete, TypeInv, TypeOK
<1>o. ASSUME NEW k \in Keys, Age(k) PROVE Settled(e)'
  BY <1>o, <1>s DEF Age
<1>p. CASE UNCHANGED vars
  BY <1>p, <1>s DEF vars
<1> QED
  BY <1>a, <1>b, <1>c, <1>d, <1>f, <1>g, <1>h, <1>i, <1>j, <1>k, <1>l, <1>m, <1>n,
     <1>o, <1>p, SettledUpload, SettledLandPut, Zenon DEF Next, JobStep, Land

\* What a pass has found is settled, and it has refused nothing.
AcceptInv == Accepted /\ (at = "file" => Settled(found))

\* Every step keeps that.
LEMMA StepAccept ==
  TypeInv /\ RaceInv /\ ReadInv /\ AcceptInv /\ [DiscoveryNext]_<<vars, readVars>> => AcceptInv'
<1> SUFFICES ASSUME TypeInv, RaceInv, ReadInv, AcceptInv, [DiscoveryNext]_<<vars, readVars>>
             PROVE  AcceptInv'
  OBVIOUS
<1>n. [Next]_vars
  BY ServerStep
<1>s. ASSUME found' = found, at' = "file", at = "file" PROVE Settled(found)'
  <2>1. Settled(found) /\ found \in GenerationEntry
    BY <1>s DEF AcceptInv, ReadInv, FoundShape
  <2>2. \A e \in GenerationEntry : Settled(e) => Settled(e)'
    BY <1>n, EntryStaysSettled
  <2>3. \A e : e = found => Settled(e)'
    BY <2>1, <2>2
  <2> QED BY <1>s, <2>3 DEF Settled
<1>1. CASE Depart
  BY <1>1 DEF Depart, AcceptInv, Accepted
<1>2. CASE PointerUnusable
  <2>1. pointer # None => Valid(pointer)
    BY SomeDocuments DEF RaceInv, DocumentsValid, WellFormed, EntriesOf, Valid, ValidEntry
  <2> QED BY <1>2, <2>1 DEF PointerUnusable, Leave, AcceptInv, Accepted
<1>3. CASE PointerRead /\ UNCHANGED vars
  <2>1. pointer \in Documents /\ pointer.current \in EntriesOf(pointer)
    BY <1>3, SomeDocuments DEF PointerRead, Usable, EntriesOf
  <2>2. Settled(pointer.current)
    BY <2>1, DocumentSettled
  <2>3. Settled(found)'
    BY <1>3, <2>2 DEF PointerRead, Settled, vars, Planning, Uploading
  <2> QED BY <1>3, <2>3 DEF PointerRead, AcceptInv, Accepted
<1>4. CASE FileRead
  <2>1. FileStored = found.nodes[Me]
    BY <1>4, DiscoveryAssumption DEF FileRead, FileStored, AcceptInv, Settled, ReadInv, FoundShape
  <2> QED BY <1>4, <2>1 DEF FileRead, Leave, AcceptInv, Accepted
<1>5. CASE FileGone
  BY <1>5 DEF FileGone, Leave, AcceptInv, Accepted
<1>6. CASE ReadFailed
  BY <1>6 DEF ReadFailed, Leave, AcceptInv, Accepted
<1>7. CASE Served
  BY <1>7, <1>s DEF Served, AcceptInv, Accepted
<1>8. CASE UNCHANGED <<vars, readVars>>
  BY <1>8, <1>s DEF readVars, AcceptInv, Accepted
<1> QED BY <1>1, <1>2, <1>3, <1>4, <1>5, <1>6, <1>7, <1>8 DEF DiscoveryNext, Read

\* Even when runs of apply() overlap and delete without a grace period, a
\* node never meets a current.json that discovery::validate refuses, nor a
\* file whose digest is not the one its pointer gave.
THEOREM NodesAccept == DiscoverySpec => []Accepted
<1>1. DiscoveryInit => AcceptInv
  BY DEF DiscoveryInit, AcceptInv, Accepted
<1>2. AcceptInv => Accepted
  BY DEF AcceptInv
<1> QED BY <1>1, <1>2, StepAccept, ReadHolds, ServerUnderneath, RaceHolds, TypeCorrect, PTL
        DEF DiscoverySpec

-----------------------------------------------------------------------------
(***************************************************************************)
(* A node never goes back.                                                 *)
(***************************************************************************)
\* The generations in gone have been current and can not be again.
Retired(gone) ==
  /\ \A d : MayServe(d) => Generation(d) \notin gone
  /\ \A n \in gone : n =< runs
  /\ \A j \in Jobs : Planning(j) => run[j] \notin gone

\* What the node has left is gone; what it had last, and what it has found
\* since, is gone or current, in this order.
ReadOrder(gone) ==
  /\ left \subseteq gone
  /\ last \notin left
  /\ last \in gone \cup {Generation(pointer), None}
  /\ at = "file" => /\ found.id \in gone \cup {Generation(pointer)}
                    /\ found.id \notin left
                    /\ last \in gone \cup {None, found.id}

ForwardInv == \E gone \in SUBSET Gens : Retired(gone) /\ ReadOrder(gone)

\* No step makes a job plan under a number that is taken.
LEMMA PlanningStep ==
  ASSUME TypeInv, RaceInv, HistoryInv, [Next]_vars
  PROVE  /\ runs' >= runs
         /\ \A j \in Jobs : Planning(j)' => (Planning(j) /\ run'[j] = run[j]) \/ run'[j] > runs
<1> USE ConstantsAssumption
<1>t. TypeInv' /\ runs \in Nat
  BY StepType DEF TypeInv, TypeOK, Gens
<1>1. CASE pointer' = pointer
  BY <1>t, <1>1, HandsAlways DEF HandsStep, HandStep
<1>2. CASE pointer' # pointer /\ pointer # None
  <2>1. PICK past \in SUBSET Nat : Overtaken(past)
    BY DEF HistoryInv
  <2> QED BY <1>t, <1>2, <2>1, NothingLive
<1>3. CASE pointer' # pointer /\ pointer = None
  <2>1. ASSUME NEW j \in Jobs, InitWritten(j) PROVE runs' = runs /\ run' = run
              /\ \A i \in Jobs : Planning(i)' => Planning(i)
    BY <2>1 DEF InitWritten, Adopt, Planning, TypeInv, TypeOK
  <2>2. ASSUME NEW doc \in lateInits, LandInit(doc) PROVE runs' = runs /\ run' = run
              /\ \A i \in Jobs : Planning(i)' => Planning(i)
    BY <2>2 DEF LandInit, Planning
  <2>3. /\ \A j \in Jobs : ~CommitWritten(j)
        /\ \A c \in lateCommits : ~(LandCommit(c) /\ pointer' # pointer)
    BY <1>3 DEF CommitWritten, LandCommit
  <2>4. runs' = runs /\ run' = run /\ \A i \in Jobs : Planning(i)' => Planning(i)
    BY <1>3, <2>1, <2>2, <2>3, PointerWriters
  <2> QED BY <1>t, <2>4
<1> QED BY <1>1, <1>2, <1>3

\* The generation a document names, if any, is of an entry of it.
LEMMA GenerationOf ==
  ASSUME TypeInv, NEW d \in Documents
  PROVE  /\ Generation(d) \in Gens \cup {None}
         /\ Generation(d) # None => d.current \in EntriesOf(d) /\ Generation(d) = d.current.id
BY DocumentType DEF Generation, EntriesOf, GenerationEntry

\* A step that leaves the generation current retires nothing.
LEMMA RetiredStays ==
  ASSUME TypeInv, RaceInv, HistoryInv, InitsEmpty, [Next]_vars,
         NEW gone \in SUBSET Gens, Retired(gone)
  PROVE  Retired(gone)'
<1> USE ConstantsAssumption
<1>t. TypeInv' /\ runs \in Nat /\ runs' \in Nat /\ gone \subseteq Nat
  BY StepType DEF TypeInv, TypeOK, Gens
<1>1. ASSUME NEW d, MayServe(d)' PROVE Generation(d) \notin gone
  <2>1. CASE MayServe(d)
    BY <2>1 DEF Retired
  <2>2. CASE EntriesOf(d) = {}
    BY <2>2, DiscoveryAssumption DEF EntriesOf, Generation
  <2>3. ASSUME pointer # None, NEW i \in Jobs, PlannedNow(i, d)
        PROVE  Generation(d) \notin gone
    <3>1. Generation(pointer) \notin gone
      BY <2>3 DEF Retired, MayServe
    <3>2. run[i] \notin gone
      BY <2>3 DEF Retired, PlannedNow
    <3> QED BY <2>3, <3>1, <3>2, DiscoveryAssumption DEF PlannedNow, Generation
  <2> QED BY <1>1, <1>t, <2>1, <2>2, <2>3, ServeSame, ServeChanged
<1>2. \A n \in gone : n =< runs'
  BY <1>t, PlanningStep DEF Retired
<1>3. \A j \in Jobs : Planning(j)' => run'[j] \notin gone
  BY <1>t, PlanningStep, SMTT(30) DEF Retired, TypeInv, TypeOK, Gens
<1> QED BY <1>1, <1>2, <1>3 DEF Retired, Generation

\* A step that makes another generation current retires the one it was.
LEMMA RetiredGrows ==
  ASSUME TypeInv, RaceInv, HistoryInv, InitsEmpty, [Next]_vars,
         NEW gone \in SUBSET Gens, Retired(gone), pointer # None,
         Generation(pointer) # None, Generation(pointer') # Generation(pointer),
         NEW more \in SUBSET Gens, more = gone \cup {Generation(pointer)}
  PROVE  Retired(more)'
<1> USE ConstantsAssumption
<1>0. Retired(gone)' /\ pointer' # pointer
  BY RetiredStays
<1>1. ASSUME NEW d, MayServe(d)' PROVE Generation(d) \notin more
  BY <1>0, <1>1, ServeChanged DEF Retired, Generation
<1>2. pointer \in Documents /\ Generation(pointer) = pointer.current.id
      /\ pointer.current \in EntriesOf(pointer)
  BY SomeDocuments, GenerationOf
<1>3. Settled(pointer.current)
  BY <1>2, DocumentSettled
<1>4. runs' >= runs /\ \A j \in Jobs : Planning(j)' => (Planning(j) /\ run'[j] = run[j]) \/ run'[j] > runs
  BY PlanningStep
<1>5. /\ Generation(pointer) \in Nat /\ runs \in Nat /\ runs' \in Nat
      /\ \A j \in Jobs : run'[j] \in Nat
  BY StepType DEF TypeInv, TypeOK, Gens
<1>6. \A n \in more : n =< runs'
  BY <1>0, <1>2, <1>3, <1>4, <1>5 DEF Retired, Settled
<1>7. \A j \in Jobs : Planning(j)' => run'[j] \notin more
  BY <1>0, <1>2, <1>3, <1>4, <1>5 DEF Retired, Settled
<1> QED BY <1>1, <1>6, <1>7 DEF Retired, Generation

\* What a pass reads keeps the order.
LEMMA ReadForward ==
  ASSUME TypeInv, RaceInv, ReadInv, NEW gone \in SUBSET Gens, Retired(gone), ReadOrder(gone),
         Read \/ UNCHANGED readVars, pointer' = pointer
  PROVE  ReadOrder(gone)'
<1>0. Generation(pointer)' = Generation(pointer)
  BY DEF Generation
<1>1. CASE Depart
  BY <1>0, <1>1 DEF Depart, ReadOrder
<1>2. CASE PointerUnusable \/ FileGone \/ ReadFailed
  BY <1>0, <1>2 DEF PointerUnusable, FileGone, ReadFailed, Leave, ReadOrder
<1>3. CASE PointerRead
  <2>1. found' = pointer.current /\ found'.id = Generation(pointer) /\ pointer # None
    BY <1>3 DEF PointerRead, Usable, Generation
  <2>2. Generation(pointer) \notin gone
    BY <2>1 DEF Retired, MayServe
  <2> QED BY <1>0, <1>3, <2>1, <2>2 DEF PointerRead, ReadOrder
<1>4. CASE FileRead
  <2>1. at = "file" /\ at' = "away"
    BY <1>4 DEF FileRead, Leave
  <2>2. CASE FileStored = found.nodes[Me]
    BY <1>0, <1>4, <2>1, <2>2 DEF FileRead, ReadOrder
  <2>3. CASE FileStored # found.nodes[Me]
    BY <1>0, <1>4, <2>1, <2>3 DEF FileRead, ReadOrder
  <2> QED BY <2>2, <2>3
<1>5. CASE UNCHANGED readVars
  BY <1>0, <1>5 DEF readVars, ReadOrder
<1> QED BY <1>1, <1>2, <1>3, <1>4, <1>5 DEF Read

\* Every step of the server and of the pass keeps it.
LEMMA StepForward ==
  TypeInv /\ RaceInv /\ HistoryInv /\ InitsEmpty /\ ReadInv /\ ForwardInv
    /\ [DiscoveryNext]_<<vars, readVars>> => ForwardInv'
<1> SUFFICES ASSUME TypeInv, RaceInv, HistoryInv, InitsEmpty, ReadInv, ForwardInv,
                    [DiscoveryNext]_<<vars, readVars>>
             PROVE  ForwardInv'
  OBVIOUS
<1>n. [Next]_vars
  BY ServerStep
<1>g. PICK gone \in SUBSET Gens : Retired(gone) /\ ReadOrder(gone)
  BY DEF ForwardInv
<1>r. Retired(gone)'
  BY <1>n, <1>g, RetiredStays
<1>1. CASE (Read \/ UNCHANGED readVars) /\ pointer' = pointer
  BY <1>g, <1>r, <1>1, ReadForward DEF ForwardInv
<1>2. CASE Served
  <2>0. UNCHANGED <<at, found, last, left>>
    BY <1>2 DEF Served
  <2>1. CASE Generation(pointer') = Generation(pointer)
    <3>1. ReadOrder(gone)'
      BY <1>g, <2>0, <2>1 DEF ReadOrder, Generation
    <3> QED BY <1>r, <3>1 DEF ForwardInv
  <2>2. CASE Generation(pointer') # Generation(pointer) /\ Generation(pointer) = None
    <3>1. at = "file" => found.id \in Gens
      BY DEF ReadInv, FoundShape, GenerationEntry
    <3>2. ReadOrder(gone)'
      BY <1>g, <2>0, <2>2, <3>1, DiscoveryAssumption DEF ReadOrder
    <3> QED BY <1>r, <3>2 DEF ForwardInv
  <2>3. CASE Generation(pointer') # Generation(pointer) /\ Generation(pointer) # None
    <3>1. pointer # None
      BY <2>3 DEF Generation
    <3>2. gone \cup {Generation(pointer)} \in SUBSET Gens
      BY <2>3, <3>1, SomeDocuments, GenerationOf
    <3>3. ASSUME NEW more \in SUBSET Gens, more = gone \cup {Generation(pointer)}
          PROVE  Retired(more)' /\ ReadOrder(more)'
      <4>1. Retired(more)'
        BY <1>n, <1>g, <2>3, <3>1, <3>3, RetiredGrows
      <4>2. ReadOrder(more)'
        BY <1>g, <2>0, <3>3 DEF ReadOrder
      <4> QED BY <4>1, <4>2
    <3> QED BY <3>2, <3>3 DEF ForwardInv
  <2> QED BY <2>1, <2>2, <2>3
<1> QED BY <1>1, <1>2 DEF DiscoveryNext, vars

\* However runs of apply() overlap and whenever their lost commits land, a
\* node never downloads a generation again that it has left for another.
THEOREM NodesGoForward == DiscoverySpec => []NeverGoesBack
<1>1. DiscoveryInit => ForwardInv
  <2> SUFFICES ASSUME DiscoveryInit PROVE Retired({}) /\ ReadOrder({})
    BY DEF ForwardInv
  <2> QED BY DEF DiscoveryInit, Retired, ReadOrder
<1>2. ForwardInv => NeverGoesBack
  BY DEF ForwardInv, ReadOrder, NeverGoesBack
<1>3. Init => InitsEmpty
  BY DEF Init, InitsEmpty
<1>4. Spec => []InitsEmpty
  BY <1>3, InitsStep, TypeCorrect, PTL DEF Spec
<1> QED BY <1>1, <1>2, <1>4, StepForward, ReadHolds, ServerUnderneath, HistoryHolds, RaceHolds,
           TypeCorrect, PTL DEF DiscoverySpec

-----------------------------------------------------------------------------
(***************************************************************************)
(* How often a node must start again.                                      *)
(***************************************************************************)
\* What a pass has found is current, or previous since one publication, or
\* two publications have been made in this round.
PaidInv ==
  /\ 2 * round =< moves
  /\ at = "file" =>
       \/ pointer # None /\ found = pointer.current
       \/ pointer # None /\ found = pointer.previous /\ moves >= 2 * round + 1
       \/ moves >= 2 * round + 2

\* While the published files stay a round is lost only after two.
LEMMA GonePaid ==
  ASSUME ReadInv, PointerIntact, PaidInv, FileGone
  PROVE  moves >= 2 * (round + 1)
<1>1. FileStored = None /\ at = "file" /\ found # None /\ found.nodes[Me] # None
  BY NoneAssumption DEF FileGone, ReadInv, FoundShape
<1>2. ~(pointer # None /\ (found = pointer.current \/ found = pointer.previous))
  BY <1>1, DiscoveryAssumption DEF PointerIntact, Intact, FileStored
<1> QED BY <1>1, <1>2, DiscoveryAssumption DEF PaidInv, ReadInv, DiscoveryTypeOK

\* A publication is counted by a pass that is under way.
LEMMA StepPaid ==
  TypeInv /\ RaceInv /\ InitsEmpty /\ ReadInv /\ PointerIntact /\ PaidInv
    /\ RaceInv' /\ [DiscoveryNext]_<<vars, readVars>> => PaidInv'
<1> SUFFICES ASSUME TypeInv, RaceInv, InitsEmpty, ReadInv, PointerIntact, PaidInv, RaceInv',
                    [DiscoveryNext]_<<vars, readVars>>
             PROVE  PaidInv'
  OBVIOUS
<1> USE DiscoveryAssumption
<1>n. [Next]_vars
  BY ServerStep
<1>t. round \in Nat /\ moves \in Nat /\ TypeInv'
  BY <1>n, StepType DEF ReadInv, DiscoveryTypeOK
<1>1. CASE Depart
  BY <1>1, <1>t DEF Depart, PaidInv
<1>2. CASE PointerUnusable \/ ReadFailed \/ FileRead
  BY <1>2 DEF PointerUnusable, ReadFailed, FileRead, Leave, PaidInv
<1>3. CASE PointerRead /\ UNCHANGED vars
  BY <1>3, <1>t DEF PointerRead, PaidInv, vars
<1>4. CASE FileGone
  <2>1. moves >= 2 * (round + 1)
    BY <1>4, GonePaid
  <2> QED BY <1>4, <1>t, <2>1 DEF FileGone, Leave, PaidInv
<1>5. CASE Served
  <2>0. /\ UNCHANGED <<at, found, round>>
        /\ moves' = IF at # "away" /\ Generation(pointer') # Generation(pointer)
                    THEN moves + 1 ELSE moves
    BY <1>5 DEF Served
  <2>1. CASE pointer' = pointer
    BY <1>t, <2>0, <2>1 DEF PaidInv
  <2>2. CASE pointer' # pointer /\ pointer = None
    BY <1>t, <2>0, <2>2 DEF PaidInv
  <2>3. CASE pointer' # pointer /\ pointer # None /\ Keeps(pointer', pointer)
    BY <1>n, <1>t, <2>0, <2>3, PointerStep DEF PaidInv, Keeps
  <2>4. CASE pointer' # pointer /\ pointer # None /\ Demotes(pointer', pointer)
    <3>1. /\ pointer' # None /\ pointer'.previous = pointer.current /\ pointer'.current # None
          /\ pointer' \in Documents'
      BY <1>n, <2>4, PointerStep DEF Demotes, Documents
    <3>2. pointer.current # None => pointer'.current.id # pointer.current.id
      BY <3>1 DEF RaceInv, DocumentsValid, WellFormed
    <3>3. at = "file" => found # None
      BY NoneAssumption DEF ReadInv, FoundShape
    <3>4. CASE pointer.current = None
      <4>1. pointer.previous = None
        BY <2>4, <3>4, SomeDocuments DEF RaceInv, DocumentsValid, WellFormed
      <4> QED BY <1>t, <2>0, <3>3, <3>4, <4>1 DEF PaidInv
    <3>5. CASE pointer.current # None
      <4>1. Generation(pointer') # Generation(pointer)
        BY <2>4, <3>1, <3>2, <3>5 DEF Generation
      <4> QED BY <1>t, <2>0, <3>1, <4>1 DEF PaidInv
    <3> QED BY <3>4, <3>5
  <2> QED BY <1>n, <2>1, <2>2, <2>3, <2>4, PointerStep DEF Succeeds
<1>6. CASE UNCHANGED <<vars, readVars>>
  BY <1>6 DEF vars, readVars, PaidInv
<1> QED BY <1>1, <1>2, <1>3, <1>4, <1>5, <1>6 DEF DiscoveryNext, Read

\* If the scheduler serializes the runs of apply(), or if every run ends
\* before its objects expire and none skips the grace period, a pass loses
\* a round, or gives up, only to two publications in each of its rounds.
THEOREM RoundsArePaidFor == Serialized \/ Graced => (DiscoverySpec => RoundsPaidFor)
<1>1. ASSUME Serialized \/ Graced PROVE Spec => []PointerIntact
  BY <1>1, PublishedFilesPresent, OverlapKeepsFiles
<1>2. Init => InitsEmpty
  BY DEF Init, InitsEmpty
<1>3. Spec => []InitsEmpty
  BY <1>2, InitsStep, TypeCorrect, PTL DEF Spec
<1>4. DiscoveryInit => PaidInv
  BY DEF DiscoveryInit, PaidInv
<1>5. ReadInv /\ PointerIntact /\ PaidInv /\ [DiscoveryNext]_<<vars, readVars>> =>
        [round' > round \/ (answer' = "exhausted" /\ answer # "exhausted")
           => moves >= 2 * (round + 1)]_<<vars, readVars>>
  <2> SUFFICES ASSUME ReadInv, PointerIntact, PaidInv, DiscoveryNext,
                      round' > round \/ (answer' = "exhausted" /\ answer # "exhausted")
               PROVE  moves >= 2 * (round + 1)
    OBVIOUS
  <2>1. round \in Nat
    BY DiscoveryAssumption DEF ReadInv, DiscoveryTypeOK
  <2>2. FileGone
    BY <2>1 DEF DiscoveryNext, Served, Read, Depart, PointerUnusable, PointerRead, FileRead,
       ReadFailed, Leave
  <2> QED BY <2>2, GonePaid
<1>6. ASSUME Serialized \/ Graced PROVE DiscoverySpec => RoundsPaidFor
  <2>1. Spec => []PointerIntact
    BY <1>1, <1>6
  <2> QED BY <1>3, <1>4, <1>5, <2>1, StepPaid, ReadHolds, ServerUnderneath, RaceHolds,
             TypeCorrect, PTL DEF DiscoverySpec, RoundsPaidFor
<1> QED BY <1>6
=============================================================================
