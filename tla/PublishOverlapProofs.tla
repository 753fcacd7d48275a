------------------------ MODULE PublishOverlapProofs ------------------------
(***************************************************************************)
(* Proofs about Publish when runs of apply() overlap.  First, when they do *)
(* so freely: nothing assumes that the scheduler serializes them, a grace  *)
(* period or a deadline.  What holds the protocol together then is that    *)
(* every document and every generation is written under an ID of its own,  *)
(* so an ETag names one document for ever, and that a pointer once         *)
(* replaced never comes back.  Then, when each run ends well before the    *)
(* grace period of retention::cleanup, which is never zero; and the proof  *)
(* that Publish implements atomic publication, under this discipline or    *)
(* when the scheduler serializes the runs.                                 *)
(***************************************************************************)
EXTENDS PublishProofs

\* The documents that are stored, on their way or in the memory of a job,
\* and the empty pointers, which every run may come to write.
Documents ==
  ({pointer} \cup lateInits \cup {c.doc : c \in lateCommits}
     \cup {base[j] : j \in Jobs} \cup {intent[j] : j \in Jobs}
     \cup {EmptyPointer(n) : n \in Gens \ {0}}) \ {None}

\* The entries of a document.
EntriesOf(d) == {d.current, d.previous} \ {None}

\* Document d keeps the entries of b, or demotes its current one below a
\* generation that is not empty.
Keeps(d, b)    == d.current = b.current /\ d.previous = b.previous
Demotes(d, b)  == /\ d.previous = b.current
                  /\ d.current # None
                  /\ \E h \in Hosts : d.current.nodes[h] # None
Succeeds(d, b) == Keeps(d, b) \/ Demotes(d, b)

\* The IDs of run n name nothing yet.
Unused(n) ==
  /\ \A d \in Documents : /\ d.revision # NewRevision(n)
                          /\ \A e \in EntriesOf(d) : e.id # n
  /\ \A c \in lateCommits : c.etag # NewRevision(n)
  /\ \A k \in Keys : k[1] = n => files[k] = None
  /\ \A p \in latePuts : p.key[1] # n

\* Jobs that are alive have run numbers of their own and something to do.
RunsDistinct ==
  \A i \in Jobs : ~Idle(i) =>
    /\ run[i] =< runs
    /\ want[i] # {}
    /\ \A j \in Jobs : ~Idle(j) /\ run[i] = run[j] => i = j

\* A run's IDs are unused until it has planned.
RunsFresh ==
  /\ \A n \in Gens : n > runs => Unused(n)
  /\ \A j \in Jobs : Planning(j) => Unused(run[j])

\* A revision names one document and a generation ID one entry.
OneDocument ==
  \A d, b \in Documents : d.revision = b.revision => d = b

OneEntry ==
  \A d, b \in Documents :
    \A e \in EntriesOf(d), f \in EntriesOf(b) :
      e.id = f.id => e = f

\* Every document is one that discovery::validate accepts, and no entry
\* names the objects an operator left behind.
WellFormed(d) ==
  /\ d.current = None => d.previous = None
  /\ d.current # None /\ d.previous # None => d.current.id # d.previous.id
  /\ \A e \in EntriesOf(d) :
       e.id # 0 /\ \E h \in Hosts : e.nodes[h] # None

DocumentsValid == \A d \in Documents : WellFormed(d)

\* An object is either absent or what every document says it is, and so it
\* stays when the uploads in flight arrive.
FilesMatch ==
  \A d \in Documents : \A e \in EntriesOf(d) :
    \A h \in Hosts : e.nodes[h] # None =>
      /\ files[Key(e.id, h)] \in {None, e.nodes[h]}
      /\ \A p \in latePuts : p.key = Key(e.id, h) => p.body = e.nodes[h]

\* What a job means to write succeeds what it planned against.
Planned ==
  \A j \in Jobs :
    /\ pc[j] = "files" \/ Uploading(j) \/ Committing(j) =>
         base[j] \in CurrentJson /\ etag[j] = base[j].revision
    /\ Uploading(j) \/ Committing(j) =>
         /\ ~dry[j]
         /\ intent[j].revision = NewRevision(run[j])
         /\ Succeeds(intent[j], base[j])
    /\ Uploading(j) => intent[j].current.id = run[j]

\* A late commit succeeds every document it could replace.
LateSucceed ==
  \A c \in lateCommits : \A d \in Documents :
    d.revision = c.etag => Succeeds(c.doc, d)

RaceInv ==
  /\ RunsDistinct
  /\ RunsFresh
  /\ OneDocument
  /\ OneEntry
  /\ DocumentsValid
  /\ FilesMatch
  /\ Planned
  /\ LateSucceed

\* Only empty pointers are written where there was none.
InitsEmpty == \A d \in lateInits : d.current = None /\ d.previous = None

\* A job that has read the pointer, and one that has a document to write.
InHand(j)  == (pc[j] = "files" /\ ~dry[j]) \/ Uploading(j) \/ Committing(j)
Writing(j) == Uploading(j) \/ Committing(j)

\* The revisions in past have been replaced for good: whatever is to be
\* written names a revision that was the pointer's at some time, and if it
\* has been the pointer itself, that revision is past.
Overtaken(past) ==
  /\ pointer = None =>
       past = {} /\ lateCommits = {} /\ \A j \in Jobs : ~InHand(j)
  /\ pointer # None =>
       LET seen == past \cup {pointer.revision}
       IN  /\ pointer.revision \notin past
           /\ \A c \in lateCommits :
                /\ c.etag \in seen
                /\ c.doc.revision \in seen => c.etag \in past
           /\ \A j \in Jobs :
                /\ InHand(j) => etag[j] \in seen
                /\ Writing(j) => (intent[j].revision \in seen => etag[j] \in past)
  /\ \A n \in Gens : n > runs => NewRevision(n) \notin past
  /\ \A j \in Jobs : Planning(j) => NewRevision(run[j]) \notin past

HistoryInv == \E past \in SUBSET Nat : Overtaken(past)
-----------------------------------------------------------------------------
(***************************************************************************)
(* Documents.                                                              *)
(***************************************************************************)
USE DEF bucketVars, lateVars, jobVars, planVars, Idle, Goto

\* Documents are well typed.
LEMMA DocumentType ==
  ASSUME TypeInv
  PROVE  /\ Documents \subseteq CurrentJson
         /\ \A d \in Documents : EntriesOf(d) \subseteq GenerationEntry
<1>1. \A n \in Gens \ {0} : EmptyPointer(n) \in CurrentJson
  BY IdTypes
<1>2. Documents \subseteq CurrentJson
  BY <1>1 DEF TypeInv, TypeOK, Documents
<1> QED BY <1>2 DEF CurrentJson, EntriesOf

\* What a step must show to add no document.
LEMMA NoNewDocument ==
  ASSUME pointer' \in Documents \cup {None},
         lateInits' \subseteq Documents,
         \A c \in lateCommits' : c.doc \in Documents,
         \A j \in Jobs : /\ base'[j] \in Documents \cup {None}
                         /\ intent'[j] \in Documents \cup {None}
  PROVE  Documents' \subseteq Documents
<1>1. \A n \in Gens \ {0} : EmptyPointer(n) # None => EmptyPointer(n) \in Documents
  BY DEF Documents
<1> QED BY <1>1 DEF Documents

\* What the documents are, one source at a time.
LEMMA SomeDocuments ==
  ASSUME TypeInv
  PROVE  /\ pointer \in Documents \cup {None}
         /\ lateInits \subseteq Documents
         /\ \A c \in lateCommits : c.doc \in Documents
         /\ \A j \in Jobs : /\ base[j] \in Documents \cup {None}
                            /\ intent[j] \in Documents \cup {None}
         /\ \A n \in Gens \ {0} : EmptyPointer(n) \in Documents
<1>1. \A n \in Gens \ {0} : EmptyPointer(n) \in CurrentJson
  BY IdTypes
<1>2. None \notin lateInits /\ \A c \in lateCommits : c.doc # None
  BY NoneAssumption DEF TypeInv, TypeOK
<1> QED BY <1>1, <1>2, NoneAssumption DEF Documents

\* With no new document, object or request what was true of them stays so.
LEMMA GlobalStep ==
  ASSUME TypeInv, TypeInv', RaceInv, Documents' \subseteq Documents,
         lateCommits' \subseteq lateCommits, latePuts' \subseteq latePuts,
         \A k \in Keys : files'[k] \in {None, files[k]}
  PROVE  /\ OneDocument' /\ OneEntry' /\ DocumentsValid' /\ FilesMatch' /\ LateSucceed'
         /\ \A n \in Gens : Unused(n) => Unused(n)'
<1>1. OneDocument' /\ OneEntry'
  BY DEF RaceInv, OneDocument, OneEntry, EntriesOf
<1>2. DocumentsValid' /\ LateSucceed'
  BY DEF RaceInv, DocumentsValid, LateSucceed, WellFormed, Succeeds, Keeps, Demotes,
     EntriesOf
<1>3. FilesMatch'
  <2> SUFFICES ASSUME NEW d \in Documents, NEW e \in EntriesOf(d), NEW h \in Hosts,
                      e.nodes[h] # None
               PROVE  /\ files'[Key(e.id, h)] \in {None, e.nodes[h]}
                      /\ \A p \in latePuts : p.key = Key(e.id, h) => p.body = e.nodes[h]
    BY DEF FilesMatch, EntriesOf
  <2>1. Key(e.id, h) \in Keys
    BY DocumentType DEF GenerationEntry, Key, Keys
  <2> QED BY <2>1 DEF RaceInv, FilesMatch
<1>4. \A n \in Gens : Unused(n) => Unused(n)'
  BY DEF Unused, EntriesOf
<1> QED BY <1>1, <1>2, <1>3, <1>4

\* No job plans anew and none takes another run number.
SameRuns ==
  /\ runs' = runs
  /\ \A i \in Jobs : \/ pc'[i] = "idle"
                     \/ /\ ~Idle(i) /\ run'[i] = run[i] /\ want'[i] = want[i]
                        /\ Planning(i)' => Planning(i)

\* Such a step keeps run numbers apart, and fresh IDs fresh.
LEMMA RunsStep ==
  ASSUME TypeInv, TypeInv', RaceInv, SameRuns,
         \A n \in Gens : Unused(n) => Unused(n)'
  PROVE  RunsDistinct' /\ RunsFresh'
<1>1. RunsDistinct'
  BY DEF RaceInv, RunsDistinct, SameRuns
<1>2. ASSUME NEW j \in Jobs, Planning(j)' PROVE Unused(run[j])'
  <2>1. Planning(j) /\ run'[j] = run[j] /\ run[j] \in Gens
    BY <1>2 DEF SameRuns, Planning, TypeInv, TypeOK
  <2>2. Unused(run[j])
    BY <2>1 DEF RaceInv, RunsFresh
  <2>3. \A n \in Gens : n = run[j] => Unused(n)'
    BY <2>2
  <2> QED BY <2>1, <2>3 DEF Unused
<1>3. \A n \in Gens : n > runs' => Unused(n)'
  BY DEF RaceInv, RunsFresh, SameRuns
<1> QED BY <1>1, <1>2, <1>3 DEF RunsFresh

\* A step that adds nothing anywhere.
LEMMA SettledStep ==
  ASSUME TypeInv, TypeInv', RaceInv, SameRuns, Documents' \subseteq Documents,
         lateCommits' \subseteq lateCommits, latePuts' \subseteq latePuts,
         \A k \in Keys : files'[k] \in {None, files[k]},
         Planned'
  PROVE  RaceInv'
BY GlobalStep, RunsStep DEF RaceInv

-----------------------------------------------------------------------------
(***************************************************************************)
(* The invariant, action by action.                                        *)
(***************************************************************************)
\* It holds of an empty bucket.
LEMMA InitRace == Init => RaceInv
<1> SUFFICES ASSUME Init PROVE RaceInv
  OBVIOUS
<1>t. TypeInv
  BY InitType
<1>d. \A d \in Documents : \E n \in Gens \ {0} : d = EmptyPointer(n)
  BY DEF Init, Documents
<1>e. \A d \in Documents : /\ d.current = None /\ d.previous = None
                           /\ \E n \in Gens \ {0} : d = EmptyPointer(n) /\ d.revision = 2 * n - 1
  BY <1>d DEF EmptyPointer, EmptyRevision
<1>1. RunsDistinct /\ Planned /\ LateSucceed
  BY DEF Init, RunsDistinct, Planned, LateSucceed, Uploading, Committing
<1>2. OneDocument
  BY <1>e, ConstantsAssumption DEF OneDocument, Gens
<1>3. OneEntry /\ DocumentsValid /\ FilesMatch
  BY <1>e DEF OneEntry, DocumentsValid, WellFormed, FilesMatch, EntriesOf
<1>4. RunsFresh
  <2>1. ASSUME NEW n \in Gens, n > runs PROVE Unused(n)
    <3>1. \A d \in Documents : d.revision # NewRevision(n) /\ EntriesOf(d) = {}
      BY <1>e, ConstantsAssumption DEF NewRevision, Gens, EntriesOf
    <3>2. \A k \in Keys : k[1] = n => files[k] = None
      BY <2>1, ConstantsAssumption DEF Init, Gens, Keys
    <3> QED BY <3>1, <3>2 DEF Unused, Init
  <2> QED BY <2>1 DEF RunsFresh, Planning, Init
<1> QED BY <1>1, <1>2, <1>3, <1>4 DEF RaceInv

\* A job ends.
LEMMA EndRace ==
  ASSUME TypeInv, RaceInv, NEW j \in Jobs, End(j), UNCHANGED <<bucketVars, lateVars, runs>>
  PROVE  RaceInv'
<1>1. TypeInv'
  BY EndType
<1>2. SameRuns
  BY DEF SameRuns, End, TypeInv, TypeOK, Planning
<1>3. Documents' \subseteq Documents
  <2>1. \A i \in Jobs : base'[i] \in {base[i], None} /\ intent'[i] \in {intent[i], None}
    BY DEF End, TypeInv, TypeOK
  <2> QED BY <2>1, SomeDocuments, NoNewDocument
<1>4. Planned'
  BY DEF RaceInv, Planned, End, TypeInv, TypeOK, Uploading, Committing, Succeeds, Keeps,
     Demotes
<1> QED BY <1>1, <1>2, <1>3, <1>4, SettledStep

\* A job reads or writes the document it plans against.
LEMMA AdoptRace ==
  ASSUME TypeInv, TypeInv', RaceInv, NEW j \in Jobs, Planning(j),
         NEW doc \in Documents, Adopt(j, doc), pointer' \in {pointer, doc},
         UNCHANGED <<files, lateVars, runs, run, want, zero, dry, intent, todo, doomed>>
  PROVE  RaceInv'
<1>1. SameRuns
  BY DEF SameRuns, Adopt, TypeInv, TypeOK, Planning
<1>2. Documents' \subseteq Documents
  <2>1. \A i \in Jobs : base'[i] \in {base[i], doc} /\ intent'[i] = intent[i]
    BY DEF Adopt, TypeInv, TypeOK
  <2> QED BY <2>1, SomeDocuments, NoNewDocument
<1>3. Planned'
  <2>1. doc \in CurrentJson
    BY DocumentType
  <2> QED BY <2>1 DEF RaceInv, Planned, Adopt, ETag, TypeInv, TypeOK, Uploading,
             Committing, Succeeds, Keeps, Demotes
<1> QED BY <1>1, <1>2, <1>3, SettledStep

\* A job moves on without planning.
LEMMA MoveRace ==
  ASSUME TypeInv, TypeInv', RaceInv, NEW j \in Jobs, ~Idle(j),
         NEW l \in Labels, Goto(j, l),
         \/ Planning(j) /\ l \in {"list", "init", "init_reread"}
         \/ Uploading(j) /\ l \in {"upload", "upload_reread", "commit"}
         \/ Committing(j) /\ l \in {"commit", "reread", "clean"}
         \/ l = "delete",
         pointer' \in {pointer, intent[j]},
         UNCHANGED <<files, lateVars, runs, planVars, etag, intent>>
  PROVE  RaceInv'
<1>1. SameRuns
  BY DEF SameRuns, TypeInv, TypeOK, Planning
<1>2. Documents' \subseteq Documents
  BY SomeDocuments, NoNewDocument
<1>3. Planned'
  BY DEF RaceInv, Planned, TypeInv, TypeOK, Uploading, Committing, Planning, Succeeds, Keeps,
     Demotes
<1> QED BY <1>1, <1>2, <1>3, SettledStep

\* A request is parked or lands, an object is deleted, time passes.
LEMMA BucketRace ==
  ASSUME TypeInv, TypeInv', RaceInv, UNCHANGED <<runs, pc, planVars, etag, intent>>,
         pointer' \in Documents \cup {None}, lateInits' \subseteq Documents,
         lateCommits' \subseteq lateCommits, latePuts' \subseteq latePuts,
         \A k \in Keys : files'[k] \in {None, files[k]}
  PROVE  RaceInv'
<1>1. SameRuns
  BY DEF SameRuns, Planning
<1>2. Documents' \subseteq Documents
  BY SomeDocuments, NoNewDocument
<1>3. Planned'
  BY DEF RaceInv, Planned, Uploading, Committing, Succeeds, Keeps, Demotes
<1> QED BY <1>1, <1>2, <1>3, SettledStep

\* A run starts with IDs that nothing uses.
LEMMA StartRace ==
  ASSUME TypeInv, TypeInv', RaceInv, NEW j \in Jobs, Start(j)
  PROVE  RaceInv'
<1> USE ConstantsAssumption
<1>1. Documents' \subseteq Documents
  BY SomeDocuments, NoNewDocument DEF Start
<1>2. \A k \in Keys : files'[k] \in {None, files[k]}
  BY DEF Start
<1>3. /\ OneDocument' /\ OneEntry' /\ DocumentsValid' /\ FilesMatch' /\ LateSucceed'
      /\ \A n \in Gens : Unused(n) => Unused(n)'
  BY <1>1, <1>2, GlobalStep DEF Start
<1>4. RunsDistinct'
  <2>0. PICK hosts \in (SUBSET Hosts) \ {{}} : want' = [want EXCEPT ![j] = hosts]
    BY DEF Start
  <2>1. /\ pc[j] = "idle" /\ runs' = runs + 1 /\ runs \in Nat
        /\ run'[j] = runs + 1
    BY DEF Start, TypeInv, TypeOK, Gens
  <2>3. want'[j] # {}
    BY <2>0 DEF TypeInv, TypeOK
  <2>2. \A i \in Jobs : i # j => /\ pc'[i] = pc[i] /\ run'[i] = run[i] /\ want'[i] = want[i]
                                 /\ run[i] \in Nat
    BY DEF Start, TypeInv, TypeOK, Gens
  <2> QED BY <2>1, <2>2, <2>3 DEF RaceInv, RunsDistinct
<1>5. RunsFresh'
  <2>1. \A n \in Gens : n > runs => Unused(n)'
    BY <1>3 DEF RaceInv, RunsFresh
  <2>2. runs' \in Gens /\ runs' > runs /\ run'[j] = runs'
    BY DEF Start, TypeInv, TypeOK, Gens
  <2>3. \A n \in Gens : n = runs' => Unused(n)'
    BY <2>1, <2>2
  <2>4. ASSUME NEW i \in Jobs, i # j, Planning(i)' PROVE Unused(run[i])'
    <3>1. Planning(i) /\ run'[i] = run[i] /\ run[i] \in Gens
      BY <2>4 DEF Planning, Start, TypeInv, TypeOK
    <3>2. Unused(run[i])
      BY <3>1 DEF RaceInv, RunsFresh
    <3>3. \A n \in Gens : n = run[i] => Unused(n)'
      BY <3>2, <1>3
    <3> QED BY <3>1, <3>3 DEF Unused
  <2>5. Unused(run[j])'
    BY <2>2, <2>3 DEF Unused
  <2>6. \A n \in Gens : n > runs' => Unused(n)'
    BY <2>1, <2>2 DEF Gens, TypeInv, TypeOK
  <2>7. \A i \in Jobs : Planning(i)' => Unused(run[i])'
    BY <2>4, <2>5
  <2> QED BY <2>6, <2>7 DEF RunsFresh
<1>6. Planned'
  BY DEF RaceInv, Planned, Start, TypeInv, TypeOK, Uploading, Committing, Succeeds, Keeps,
     Demotes
<1> QED BY <1>3, <1>4, <1>5, <1>6 DEF RaceInv

\* A job plans document D, under its own revision, with known entries or a
\* new one under its own generation ID.
LEMMA PlanRace ==
  ASSUME TypeInv, TypeInv', RaceInv, NEW j \in Jobs, pc[j] = "files",
         NEW D \in CurrentJson, D.revision = NewRevision(run[j]), WellFormed(D),
         \A e \in EntriesOf(D) : e.id = run[j] \/ e \in EntriesOf(base[j]),
         D.previous # None => D.previous \in EntriesOf(base[j]),
         intent' = [intent EXCEPT ![j] = D],
         NEW l, Goto(j, l), Planned',
         l \in {"upload", "commit", "clean"},
         UNCHANGED <<bucketVars, lateVars, runs, planVars, etag>>
  PROVE  RaceInv'
<1> USE ConstantsAssumption
<1>0. /\ Unused(run[j]) /\ run[j] \in Gens /\ base[j] \in Documents
      /\ Documents' \subseteq Documents \cup {D}
  <2>1. Unused(run[j])
    BY DEF RaceInv, RunsFresh, Planning
  <2>2. run[j] \in Gens
    BY DEF TypeInv, TypeOK
  <2>3. base[j] \in Documents
    BY NoneAssumption, SomeDocuments DEF TypeInv, Shape
  <2>4. \A i \in Jobs : intent'[i] \in {intent[i], D}
    BY DEF TypeInv, TypeOK
  <2>5. Documents' \subseteq Documents \cup {D}
    BY <2>4 DEF Documents
  <2> QED BY <2>1, <2>2, <2>3, <2>5
<1>1. OneDocument'
  BY <1>0 DEF RaceInv, OneDocument, Unused
<1>2. OneEntry'
  BY <1>0 DEF RaceInv, OneEntry, Unused, EntriesOf
<1>3. DocumentsValid'
  BY <1>0 DEF RaceInv, DocumentsValid
<1>4. LateSucceed'
  BY <1>0 DEF RaceInv, LateSucceed, Unused, Succeeds, Keeps, Demotes
<1>5. FilesMatch'
  <2>1. ASSUME NEW e \in EntriesOf(D), NEW h \in Hosts, e.nodes[h] # None
        PROVE  /\ files[Key(e.id, h)] \in {None, e.nodes[h]}
               /\ \A p \in latePuts : p.key = Key(e.id, h) => p.body = e.nodes[h]
    <3>1. CASE e.id = run[j]
      BY <1>0, <3>1 DEF Unused, Key, Keys
    <3>2. CASE e \in EntriesOf(base[j])
      BY <1>0, <2>1, <3>2 DEF RaceInv, FilesMatch
    <3> QED BY <3>1, <3>2
  <2> QED BY <1>0, <2>1 DEF RaceInv, FilesMatch, EntriesOf
<1>6. RunsDistinct'
  BY DEF RaceInv, RunsDistinct, TypeInv, TypeOK
<1>7. ASSUME NEW n \in Gens, Unused(n), n # run[j] PROVE Unused(n)'
  <2>1. D.revision # NewRevision(n)
    BY <1>7, <1>0 DEF NewRevision, Gens
  <2>2. \A e \in EntriesOf(D) : e.id # n
    BY <1>7, <1>0 DEF Unused
  <2> QED BY <2>1, <2>2, <1>7, <1>0 DEF Unused, EntriesOf
<1>8. RunsFresh'
  <2>1. \A n \in Gens : n > runs => Unused(n)'
    <3>1. run[j] =< runs
      BY DEF RaceInv, RunsDistinct
    <3>2. \A n \in Gens : n > runs => n # run[j]
      BY <3>1, <1>0 DEF Gens, TypeInv, TypeOK
    <3> QED BY <3>2, <1>7 DEF RaceInv, RunsFresh
  <2>2. ASSUME NEW i \in Jobs, Planning(i)' PROVE Unused(run[i])'
    <3>1. /\ i # j /\ Planning(i) /\ run'[i] = run[i] /\ run[i] \in Gens
      BY <2>2 DEF Planning, TypeInv, TypeOK
    <3>2. run[i] # run[j]
      BY <3>1 DEF RaceInv, RunsDistinct, Planning
    <3>3. \A n \in Gens : n = run[i] => Unused(n)'
      BY <3>1, <3>2, <1>7 DEF RaceInv, RunsFresh
    <3> QED BY <3>1, <3>3 DEF Unused
  <2> QED BY <2>1, <2>2 DEF RunsFresh
<1> QED BY <1>1, <1>2, <1>3, <1>4, <1>5, <1>6, <1>8 DEF RaceInv

\* An unchanged pass plans a new revision of what it read.
LEMMA PlanRefreshRace ==
  ASSUME TypeInv, TypeInv', RaceInv, NEW j \in Jobs, PlanRefresh(j)
  PROVE  RaceInv'
<1>1. /\ pc[j] = "files" /\ base[j] \in CurrentJson /\ base[j] \in Documents
      /\ run[j] \in Gens /\ run[j] # 0
  BY NoneAssumption, SomeDocuments DEF PlanRefresh, TypeInv, TypeOK, Shape
<1>2. /\ Refreshed(j) \in CurrentJson
      /\ Refreshed(j).revision = NewRevision(run[j])
      /\ Keeps(Refreshed(j), base[j]) /\ EntriesOf(Refreshed(j)) = EntriesOf(base[j])
  BY <1>1, IdTypes DEF Refreshed, CurrentJson, Keeps, EntriesOf
<1>3. WellFormed(Refreshed(j))
  BY <1>1, <1>2 DEF RaceInv, DocumentsValid, WellFormed, Keeps
<1>4. Planned'
  BY <1>1, <1>2 DEF RaceInv, Planned, PlanRefresh, TypeInv, TypeOK, Uploading, Committing,
     Succeeds, Keeps, Demotes
<1> QED BY <1>1, <1>2, <1>3, <1>4, PlanRace DEF PlanRefresh, Keeps, EntriesOf

\* A changed pass plans a generation under its own ID.
LEMMA PlanGenerationRace ==
  ASSUME TypeInv, TypeInv', RaceInv, NEW j \in Jobs, NEW nodes \in Rendered(want[j]),
         PlanGeneration(j, nodes)
  PROVE  RaceInv'
<1> DEFINE D == NewPointer(j, nodes)
<1>1. /\ pc[j] = "files" /\ base[j] \in CurrentJson /\ base[j] \in Documents
      /\ run[j] \in Gens /\ run[j] # 0 /\ nodes \in NodeMap
      /\ Unused(run[j])
  BY NoneAssumption, SomeDocuments DEF PlanGeneration, TypeInv, TypeOK, Shape, Rendered,
     RaceInv, RunsFresh, Planning
<1>2. \E h \in Hosts : nodes[h] # None
  BY <1>1 DEF RaceInv, RunsDistinct, Rendered, TypeInv, TypeOK
<1>3. /\ D \in CurrentJson /\ D.revision = NewRevision(run[j])
      /\ D.current = [id |-> run[j], nodes |-> nodes] /\ D.previous = base[j].current
      /\ D.current # None
  BY <1>1, IdTypes, NoneAssumption DEF NewPointer, CurrentJson, GenerationEntry
<1>4. Demotes(D, base[j])
  BY <1>2, <1>3 DEF Demotes
<1>5. WellFormed(D)
  <2>1. base[j].current # None => base[j].current.id # run[j]
    BY <1>1 DEF Unused, EntriesOf
  <2> QED BY <1>1, <1>2, <1>3, <2>1 DEF WellFormed, RaceInv, DocumentsValid, EntriesOf
<1>6. Planned'
  BY <1>1, <1>3, <1>4 DEF RaceInv, Planned, PlanGeneration, TypeInv, TypeOK, Uploading,
     Committing, Succeeds, Keeps, Demotes
<1>7. /\ \A e \in EntriesOf(D) : e.id = run[j] \/ e \in EntriesOf(base[j])
      /\ D.previous # None => D.previous \in EntriesOf(base[j])
  BY <1>3 DEF EntriesOf
<1>8. /\ intent' = [intent EXCEPT ![j] = D]
      /\ UNCHANGED <<bucketVars, lateVars, runs, planVars, etag>>
      /\ Goto(j, IF dry[j] THEN "clean" ELSE "upload")
  BY DEF PlanGeneration
<1> HIDE DEF D
<1> QED BY <1>1, <1>3, <1>5, <1>6, <1>7, <1>8, PlanRace

\* What a job uploads is what every document says of that object.
LEMMA BodyMatches ==
  ASSUME TypeInv, RaceInv, NEW j \in Jobs, Uploading(j), NEW h \in Hosts,
         NEW d \in Documents, NEW e \in EntriesOf(d), NEW g \in Hosts,
         Key(e.id, g) = Key(run[j], h)
  PROVE  e.nodes[g] = Body(j, h)
<1>1. /\ intent[j] \in Documents /\ intent[j].current \in EntriesOf(intent[j])
      /\ intent[j].current.id = run[j]
  BY NoneAssumption, SomeDocuments DEF TypeInv, Shape, EntriesOf, RaceInv, Planned
<1>2. e.id = run[j] /\ g = h
  BY DEF Key
<1>3. e = intent[j].current
  BY <1>1, <1>2 DEF RaceInv, OneEntry
<1> QED BY <1>2, <1>3 DEF Body

\* An upload is stored or parked, or one that was parked is stored.
LEMMA StoreRace ==
  ASSUME TypeInv, TypeInv', RaceInv, SameRuns, Documents' \subseteq Documents, Planned',
         UNCHANGED lateCommits, NEW k \in Keys, NEW b,
         \A d \in Documents : \A e \in EntriesOf(d) : \A h \in Hosts :
           e.nodes[h] # None /\ Key(e.id, h) = k => e.nodes[h] = b,
         \A n \in Gens : Unused(n) /\ (n > runs \/ \E i \in Jobs : Planning(i) /\ n = run[i])
                         => k[1] # n,
         latePuts' \subseteq latePuts \cup {[key |-> k, body |-> b]},
         \A l \in Keys : files'[l] \in {None, files[l]} \/ (l = k /\ files'[l] = b)
  PROVE  RaceInv'
<1>1. OneDocument' /\ OneEntry'
  BY DEF RaceInv, OneDocument, OneEntry, EntriesOf
<1>2. DocumentsValid' /\ LateSucceed'
  BY DEF RaceInv, DocumentsValid, LateSucceed, WellFormed, Succeeds, Keeps, Demotes,
     EntriesOf
<1>3. FilesMatch'
  <2> SUFFICES ASSUME NEW d \in Documents, NEW e \in EntriesOf(d), NEW h \in Hosts,
                      e.nodes[h] # None
               PROVE  /\ files'[Key(e.id, h)] \in {None, e.nodes[h]}
                      /\ \A p \in latePuts' : p.key = Key(e.id, h) => p.body = e.nodes[h]
    BY DEF FilesMatch, EntriesOf
  <2>1. Key(e.id, h) \in Keys
    BY DocumentType DEF GenerationEntry, Key, Keys
  <2> QED BY <2>1 DEF RaceInv, FilesMatch
<1>4. ASSUME NEW n \in Gens, Unused(n), k[1] # n PROVE Unused(n)'
  BY <1>4 DEF Unused, EntriesOf
<1>5. RunsDistinct'
  BY DEF RaceInv, RunsDistinct, SameRuns
<1>6. \A n \in Gens : n > runs => Unused(n)'
  BY <1>4 DEF RaceInv, RunsFresh
<1>7. ASSUME NEW i \in Jobs, Planning(i)' PROVE Unused(run[i])'
  <2>1. Planning(i) /\ run'[i] = run[i] /\ run[i] \in Gens
    BY <1>7 DEF SameRuns, Planning, TypeInv, TypeOK
  <2>2. Unused(run[i])
    BY <2>1 DEF RaceInv, RunsFresh
  <2>3. \A n \in Gens : n = run[i] => Unused(n)'
    BY <2>1, <2>2, <1>4
  <2> QED BY <2>1, <2>3 DEF Unused
<1>8. RunsFresh'
  BY <1>6, <1>7 DEF RunsFresh, SameRuns
<1> QED BY <1>1, <1>2, <1>3, <1>5, <1>8 DEF RaceInv

\* The objects of a job that uploads are not those of an unused ID.
LEMMA UploadingKeys ==
  ASSUME TypeInv, RaceInv, NEW j \in Jobs, Uploading(j), NEW h \in Hosts,
         NEW n \in Gens, n > runs \/ \E i \in Jobs : Planning(i) /\ n = run[i]
  PROVE  Key(run[j], h)[1] # n
<1>1. Key(run[j], h)[1] = run[j] /\ run[j] \in Gens
  BY DEF Key, TypeInv, TypeOK
<1>2. run[j] =< runs
  BY DEF RaceInv, RunsDistinct, Uploading
<1>3. \A i \in Jobs : Planning(i) => run[i] # run[j]
  BY DEF RaceInv, RunsDistinct, Planning, Uploading
<1> QED BY <1>1, <1>2, <1>3, ConstantsAssumption DEF Gens, TypeInv, TypeOK

\* An object is uploaded.
LEMMA UploadWrittenRace ==
  ASSUME TypeInv, TypeInv', RaceInv, NEW j \in Jobs, NEW h \in Hosts, UploadWritten(j, h)
  PROVE  RaceInv'
<1>1. Uploading(j) /\ Key(run[j], h) \in Keys
  BY DEF UploadWritten, Uploading, TypeInv, TypeOK, Key, Keys
<1>2. SameRuns
  BY DEF SameRuns, UploadWritten, Uploaded, TypeInv, TypeOK, Planning
<1>3. Documents' \subseteq Documents
  BY SomeDocuments, NoNewDocument DEF UploadWritten
<1>4. Planned'
  BY DEF RaceInv, Planned, UploadWritten, Uploaded, TypeInv, TypeOK, Uploading, Committing,
     Succeeds, Keeps, Demotes
<1>5. \A l \in Keys : files'[l] = files[l] \/ (l = Key(run[j], h) /\ files'[l] = Body(j, h))
  <2>1. /\ files' = [files EXCEPT ![Key(run[j], h)] = Body(j, h)]
        /\ files \in [Keys -> Contents \cup {None}]
    BY DEF UploadWritten, TypeInv, TypeOK
  <2> QED BY <1>1, <2>1
<1> QED BY <1>1, <1>2, <1>3, <1>4, <1>5, BodyMatches, UploadingKeys, StoreRace
       DEF UploadWritten

\* An attempt to upload is lost.
LEMMA UploadLostRace ==
  ASSUME TypeInv, TypeInv', RaceInv, NEW j \in Jobs, NEW h \in Hosts, UploadLost(j, h)
  PROVE  RaceInv'
<1>1. Uploading(j) /\ Key(run[j], h) \in Keys
  BY DEF UploadLost, Uploading, TypeInv, TypeOK, Key, Keys
<1>2. SameRuns
  BY DEF SameRuns, UploadLost, Planning
<1>3. Documents' \subseteq Documents
  BY SomeDocuments, NoNewDocument DEF UploadLost
<1>4. Planned'
  BY DEF RaceInv, Planned, UploadLost, Uploading, Committing, Succeeds, Keeps, Demotes
<1> QED BY <1>1, <1>2, <1>3, <1>4, BodyMatches, UploadingKeys, StoreRace
       DEF UploadLost

\* A late upload is stored, or is refused because the object is there.
LEMMA LandPutRace ==
  ASSUME TypeInv, TypeInv', RaceInv, NEW p \in latePuts, LandPut(p)
  PROVE  RaceInv'
<1>1. p.key \in Keys /\ p = [key |-> p.key, body |-> p.body]
  BY DEF TypeInv, TypeOK
<1>2. SameRuns
  BY DEF SameRuns, LandPut, Planning
<1>3. Documents' \subseteq Documents
  BY SomeDocuments, NoNewDocument DEF LandPut
<1>4. Planned'
  BY DEF RaceInv, Planned, LandPut, Uploading, Committing, Succeeds, Keeps, Demotes
<1>5. \A l \in Keys : files'[l] = files[l] \/ (l = p.key /\ files'[l] = p.body)
  BY DEF LandPut, TypeInv, TypeOK
<1>6. \A d \in Documents : \A e \in EntriesOf(d) : \A h \in Hosts :
        e.nodes[h] # None /\ Key(e.id, h) = p.key => e.nodes[h] = p.body
  BY DEF RaceInv, FilesMatch
<1>7. \A n \in Gens : Unused(n) => p.key[1] # n
  BY DEF Unused
<1>8. latePuts' \subseteq latePuts /\ lateCommits' = lateCommits
  BY DEF LandPut
<1> QED BY <1>1, <1>2, <1>3, <1>4, <1>5, <1>6, <1>7, <1>8, StoreRace

\* An attempt to commit is lost.
LEMMA CommitLostRace ==
  ASSUME TypeInv, TypeInv', RaceInv, NEW j \in Jobs, CommitLost(j)
  PROVE  RaceInv'
<1> DEFINE c == [etag |-> etag[j], doc |-> intent[j]]
<1>1. /\ Committing(j) /\ intent[j] \in Documents /\ base[j] \in Documents
      /\ etag[j] = base[j].revision /\ Succeeds(intent[j], base[j])
      /\ lateCommits' = lateCommits \cup {c} /\ c.doc = intent[j] /\ c.etag = etag[j]
  BY NoneAssumption, SomeDocuments
     DEF CommitLost, Committing, TypeInv, Shape, RaceInv, Planned
<1> HIDE DEF c
<1>2. Documents' \subseteq Documents
  BY <1>1, SomeDocuments, NoNewDocument DEF CommitLost
<1>3. SameRuns
  BY DEF SameRuns, CommitLost, Planning
<1>4. Planned'
  BY DEF RaceInv, Planned, CommitLost, Uploading, Committing, Succeeds, Keeps, Demotes
<1>5. OneDocument' /\ OneEntry' /\ DocumentsValid'
  BY <1>2 DEF RaceInv, OneDocument, OneEntry, DocumentsValid, WellFormed, EntriesOf
<1>6. FilesMatch'
  BY <1>2 DEF RaceInv, FilesMatch, EntriesOf, CommitLost
<1>7. LateSucceed'
  <2>1. \A d \in Documents : d.revision = c.etag => d = base[j]
    BY <1>1 DEF RaceInv, OneDocument
  <2> QED BY <1>1, <1>2, <2>1 DEF RaceInv, LateSucceed, Succeeds, Keeps, Demotes
<1>8. \A n \in Gens : Unused(n) => Unused(n)'
  BY <1>1, <1>2 DEF Unused, EntriesOf, CommitLost
<1> QED BY <1>3, <1>4, <1>5, <1>6, <1>7, <1>8, RunsStep DEF RaceInv

\* Every step keeps the invariant, whoever takes it.
LEMMA StepRace == TypeInv /\ RaceInv /\ [Next]_vars => RaceInv'
<1> SUFFICES ASSUME TypeInv, RaceInv, [Next]_vars PROVE RaceInv'
  OBVIOUS
<1>t. TypeInv'
  BY StepType
<1>e. \A n \in Gens \ {0} : EmptyPointer(n) \in Documents
  BY SomeDocuments
<1>a. ASSUME NEW j \in Jobs, FetchPointer(j) PROVE RaceInv'
  <2>1. Planning(j) /\ ~Idle(j) /\ "list" \in Labels
    BY <1>a DEF FetchPointer, Planning, Labels
  <2>2. CASE pointer # None
    <3>1. pointer \in Documents
      BY <2>2, SomeDocuments
    <3> QED BY <1>a, <2>1, <2>2, <3>1, <1>t, AdoptRace DEF FetchPointer
  <2>3. CASE pointer = None
    BY <1>a, <2>1, <2>3, <1>t, MoveRace DEF FetchPointer
  <2> QED BY <2>2, <2>3
<1>b. ASSUME NEW j \in Jobs, ListEmpty(j) PROVE RaceInv'
  <2>1. /\ Planning(j) /\ ~Idle(j) /\ "init" \in Labels
        /\ EmptyPointer(run[j]) \in Documents
    BY <1>b, <1>e DEF ListEmpty, Planning, Labels, TypeInv, TypeOK, Shape
  <2>2. CASE dry[j]
    BY <1>b, <2>1, <2>2, <1>t, AdoptRace DEF ListEmpty
  <2>3. CASE ~dry[j]
    BY <1>b, <2>1, <2>3, <1>t, MoveRace DEF ListEmpty
  <2> QED BY <2>2, <2>3
<1>c. ASSUME NEW j \in Jobs, InitWritten(j) PROVE RaceInv'
  <2>1. Planning(j) /\ EmptyPointer(run[j]) \in Documents
    BY <1>c, <1>e DEF InitWritten, Planning, TypeInv, TypeOK, Shape
  <2> QED BY <1>c, <2>1, <1>t, AdoptRace DEF InitWritten
<1>d. ASSUME NEW j \in Jobs, InitRefused(j) PROVE RaceInv'
  BY <1>d, <1>t, MoveRace DEF InitRefused, Planning, Labels
<1>f. ASSUME NEW j \in Jobs, InitLost(j) PROVE RaceInv'
  <2>1. EmptyPointer(run[j]) \in Documents
    BY <1>f, <1>e DEF InitLost, TypeInv, TypeOK, Shape
  <2> QED BY <1>f, <2>1, <1>t, BucketRace, SomeDocuments DEF InitLost
<1>g. ASSUME NEW j \in Jobs, InitReread(j) PROVE RaceInv'
  <2>1. Planning(j)
    BY <1>g DEF InitReread, Planning
  <2>2. CASE pointer # None
    <3>1. pointer \in Documents
      BY <2>2, SomeDocuments
    <3> QED BY <1>g, <2>1, <2>2, <3>1, <1>t, AdoptRace DEF InitReread
  <2>3. CASE pointer = None
    BY <1>g, <2>3, EndRace DEF InitReread
  <2> QED BY <2>2, <2>3
<1>h. ASSUME NEW j \in Jobs, UploadRefused(j) PROVE RaceInv'
  BY <1>h, <1>t, MoveRace DEF UploadRefused, Uploading, Labels
<1>i. ASSUME NEW j \in Jobs, NEW h \in Hosts, UploadReread(j, h) PROVE RaceInv'
  <2>1. CASE files[Key(run[j], h)] # Body(j, h)
    BY <1>i, <2>1, EndRace DEF UploadReread
  <2>2. CASE files[Key(run[j], h)] = Body(j, h)
    BY <1>i, <2>2, <1>t, MoveRace DEF UploadReread, Uploaded, Uploading, Labels
  <2> QED BY <2>1, <2>2
<1>j. ASSUME NEW j \in Jobs, CommitWritten(j) PROVE RaceInv'
  BY <1>j, <1>t, MoveRace DEF CommitWritten, Committing, Labels
<1>k. ASSUME NEW j \in Jobs, CommitRefused(j) PROVE RaceInv'
  BY <1>k, <1>t, MoveRace DEF CommitRefused, Committing, Labels
<1>l. ASSUME NEW j \in Jobs, RereadCommitted(j) PROVE RaceInv'
  BY <1>l, <1>t, MoveRace DEF RereadCommitted, Committing, Labels
<1>m. ASSUME NEW j \in Jobs, RereadBaseline(j) PROVE RaceInv'
  <2>1. CASE rounds[j] >= MaxPointerRetries
    BY <2>1, <1>m, EndRace, ConstantsAssumption DEF RereadBaseline, TypeInv, TypeOK
  <2>2. CASE ~(rounds[j] >= MaxPointerRetries)
    <3>1. /\ Goto(j, "commit") /\ Committing(j) /\ "commit" \in Labels /\ ~Idle(j)
          /\ etag' = [etag EXCEPT ![j] = ETag(pointer)]
          /\ pointer.revision = base[j].revision
          /\ UNCHANGED <<bucketVars, lateVars, runs, planVars, intent>>
      BY <1>m, <2>2, ConstantsAssumption
         DEF RereadBaseline, Committing, Labels, TypeInv, TypeOK
    <3>2. etag' = etag
      BY <3>1 DEF RaceInv, Planned, ETag, TypeInv, TypeOK
    <3> QED BY <3>1, <3>2, <1>t, MoveRace
  <2> QED BY <2>1, <2>2
<1>n. ASSUME NEW j \in Jobs, CleanList(j) PROVE RaceInv'
  <2>1. CASE dry[j]
    BY <1>n, <2>1, EndRace DEF CleanList
  <2>2. CASE ~dry[j]
    BY <1>n, <2>2, <1>t, MoveRace DEF CleanList, Labels
  <2> QED BY <2>1, <2>2
<1>o. ASSUME NEW j \in Jobs, NEW k \in Keys, DeleteDone(j, k) \/ DeleteLost(j, k)
      PROVE  RaceInv'
  <2>1. \A l \in Keys : files'[l] \in {None, files[l]}
    BY <1>o DEF DeleteDone, DeleteLost, TypeInv, TypeOK
  <2> QED BY <1>o, <2>1, <1>t, BucketRace, SomeDocuments DEF DeleteDone, DeleteLost
<1>p. ASSUME NEW j \in Jobs,
             \/ ListOrphaned(j) \/ FilesMissing(j) \/ RereadConflict(j)
             \/ CleanDone(j) \/ Fail(j)
      PROVE  RaceInv'
  BY <1>p, EndRace DEF ListOrphaned, FilesMissing, RereadConflict, CleanDone, Fail
<1>q. ASSUME NEW doc \in lateInits, LandInit(doc) PROVE RaceInv'
  BY <1>q, <1>t, BucketRace, SomeDocuments DEF LandInit
<1>r. ASSUME NEW c \in lateCommits, LandCommit(c) PROVE RaceInv'
  BY <1>r, <1>t, BucketRace, SomeDocuments DEF LandCommit
<1>s. ASSUME NEW k \in lateDeletes, LandDelete(k) PROVE RaceInv'
  <2>1. \A l \in Keys : files'[l] \in {None, files[l]}
    BY <1>s DEF LandDelete, TypeInv, TypeOK
  <2> QED BY <1>s, <2>1, <1>t, BucketRace, SomeDocuments DEF LandDelete
<1>u. ASSUME NEW k \in Keys, Age(k) PROVE RaceInv'
  BY <1>u, <1>t, BucketRace, SomeDocuments DEF Age
<1>v. CASE UNCHANGED vars
  BY <1>v, <1>t, BucketRace, SomeDocuments DEF vars
<1> QED
  BY <1>a, <1>b, <1>c, <1>d, <1>f, <1>g, <1>h, <1>i, <1>j, <1>k, <1>l, <1>m, <1>n,
     <1>o, <1>p, <1>q, <1>r, <1>s, <1>u, <1>v, <1>t, StartRace, PlanRefreshRace,
     PlanGenerationRace, UploadWrittenRace, UploadLostRace, LandPutRace, CommitLostRace,
     Zenon DEF Next, JobStep, Land

\* The invariant holds throughout, with or without overlap.
LEMMA RaceHolds == Spec => []RaceInv
<1> QED BY InitRace, StepRace, TypeCorrect, PTL DEF Spec

-----------------------------------------------------------------------------
(***************************************************************************)
(* Who writes the pointer.                                                 *)
(***************************************************************************)
\* Only these four actions change current.json.
LEMMA PointerWriters ==
  ASSUME [Next]_vars, pointer' # pointer
  PROVE  \/ \E j \in Jobs : InitWritten(j) \/ CommitWritten(j)
         \/ \E doc \in lateInits : LandInit(doc)
         \/ \E c \in lateCommits : LandCommit(c)
<1>1. ASSUME NEW j \in Jobs, Start(j) \/ JobStep(j), ~InitWritten(j), ~CommitWritten(j)
      PROVE  pointer' = pointer
  <2>1. ASSUME Start(j) \/ FetchPointer(j) \/ ListOrphaned(j) \/ ListEmpty(j)
               \/ InitRefused(j) \/ InitLost(j) \/ InitReread(j)
               \/ FilesMissing(j) \/ PlanRefresh(j) \/ UploadRefused(j)
        PROVE  pointer' = pointer
    BY <2>1 DEF Start, FetchPointer, ListOrphaned, ListEmpty, InitRefused, InitLost,
       InitReread, FilesMissing, PlanRefresh, UploadRefused
  <2>2. ASSUME CommitRefused(j) \/ CommitLost(j) \/ RereadCommitted(j)
               \/ RereadBaseline(j) \/ RereadConflict(j) \/ CleanList(j)
               \/ CleanDone(j) \/ Fail(j)
        PROVE  pointer' = pointer
    BY <2>2 DEF CommitRefused, CommitLost, RereadCommitted, RereadBaseline,
       RereadConflict, CleanList, CleanDone, Fail
  <2>3. ASSUME NEW nodes \in Rendered(want[j]), PlanGeneration(j, nodes)
        PROVE  pointer' = pointer
    BY <2>3 DEF PlanGeneration
  <2>4. ASSUME NEW h \in Hosts,
               UploadWritten(j, h) \/ UploadLost(j, h) \/ UploadReread(j, h)
        PROVE  pointer' = pointer
    BY <2>4 DEF UploadWritten, UploadLost, UploadReread
  <2>5. ASSUME NEW k \in Keys, DeleteDone(j, k) \/ DeleteLost(j, k)
        PROVE  pointer' = pointer
    BY <2>5 DEF DeleteDone, DeleteLost
  <2> QED BY <1>1, <2>1, <2>2, <2>3, <2>4, <2>5, Zenon DEF JobStep
<1>2. ASSUME NEW p \in latePuts, LandPut(p) PROVE pointer' = pointer
  BY <1>2 DEF LandPut
<1>3. ASSUME NEW k \in lateDeletes, LandDelete(k) PROVE pointer' = pointer
  BY <1>3 DEF LandDelete
<1>4. ASSUME NEW k \in Keys, Age(k) PROVE pointer' = pointer
  BY <1>4 DEF Age
<1>5. CASE UNCHANGED vars
  BY <1>5 DEF vars
<1> QED BY <1>1, <1>2, <1>3, <1>4, <1>5, Zenon DEF Next, Land

\* A commit, late or not, is written only over a document it succeeds.
LEMMA CommitSucceeds ==
  ASSUME TypeInv, RaceInv
  PROVE  /\ \A j \in Jobs : CommitWritten(j) =>
              pointer # None /\ pointer' = intent[j] /\ Succeeds(intent[j], pointer)
         /\ \A c \in lateCommits : LandCommit(c) /\ pointer' # pointer =>
              pointer # None /\ pointer' = c.doc /\ Succeeds(c.doc, pointer)
<1>1. ASSUME NEW j \in Jobs, CommitWritten(j)
      PROVE  pointer # None /\ pointer' = intent[j] /\ Succeeds(intent[j], pointer)
  <2>1. /\ Committing(j) /\ pointer \in Documents /\ pointer # None
        /\ pointer' = intent[j] /\ pointer.revision = etag[j]
    BY <1>1, SomeDocuments DEF CommitWritten, Committing, ETag
  <2>2. base[j] \in Documents /\ base[j].revision = etag[j] /\ Succeeds(intent[j], base[j])
    BY <2>1, SomeDocuments, NoneAssumption DEF RaceInv, Planned
  <2> QED BY <2>1, <2>2 DEF RaceInv, OneDocument
<1>2. ASSUME NEW c \in lateCommits, LandCommit(c), pointer' # pointer
      PROVE  pointer # None /\ pointer' = c.doc /\ Succeeds(c.doc, pointer)
  <2>1. pointer \in Documents /\ pointer # None /\ pointer' = c.doc /\ pointer.revision = c.etag
    BY <1>2, SomeDocuments DEF LandCommit, ETag
  <2> QED BY <2>1 DEF RaceInv, LateSucceed
<1> QED BY <1>1, <1>2

\* Initialisations in flight stay empty.
LEMMA InitsStep == TypeInv /\ InitsEmpty /\ [Next]_vars => InitsEmpty'
<1> SUFFICES ASSUME TypeInv, InitsEmpty, [Next]_vars PROVE InitsEmpty'
  OBVIOUS
<1>1. ASSUME NEW j \in Jobs, Start(j) \/ JobStep(j), ~InitLost(j)
      PROVE  lateInits' = lateInits
  <2>1. ASSUME Start(j) \/ FetchPointer(j) \/ ListOrphaned(j) \/ ListEmpty(j)
               \/ InitWritten(j) \/ InitRefused(j) \/ InitReread(j)
               \/ FilesMissing(j) \/ PlanRefresh(j) \/ UploadRefused(j)
        PROVE  lateInits' = lateInits
    BY <2>1 DEF Start, FetchPointer, ListOrphaned, ListEmpty, InitRefused, InitWritten,
       InitReread, FilesMissing, PlanRefresh, UploadRefused
  <2>2. ASSUME CommitWritten(j) \/ CommitRefused(j) \/ CommitLost(j) \/ RereadCommitted(j)
               \/ RereadBaseline(j) \/ RereadConflict(j) \/ CleanList(j)
               \/ CleanDone(j) \/ Fail(j)
        PROVE  lateInits' = lateInits
    BY <2>2 DEF CommitWritten, CommitRefused, CommitLost, RereadCommitted, RereadBaseline,
       RereadConflict, CleanList, CleanDone, Fail
  <2>3. ASSUME NEW nodes \in Rendered(want[j]), PlanGeneration(j, nodes)
        PROVE  lateInits' = lateInits
    BY <2>3 DEF PlanGeneration
  <2>4. ASSUME NEW h \in Hosts,
               UploadWritten(j, h) \/ UploadLost(j, h) \/ UploadReread(j, h)
        PROVE  lateInits' = lateInits
    BY <2>4 DEF UploadWritten, UploadLost, UploadReread
  <2>5. ASSUME NEW k \in Keys, DeleteDone(j, k) \/ DeleteLost(j, k)
        PROVE  lateInits' = lateInits
    BY <2>5 DEF DeleteDone, DeleteLost
  <2> QED BY <1>1, <2>1, <2>2, <2>3, <2>4, <2>5, Zenon DEF JobStep
<1>2. ASSUME NEW j \in Jobs, InitLost(j) PROVE InitsEmpty'
  BY <1>2 DEF InitLost, InitsEmpty, EmptyPointer
<1>3. ASSUME NEW doc \in lateInits, LandInit(doc) PROVE InitsEmpty'
  BY <1>3 DEF LandInit, InitsEmpty
<1>4. ASSUME NEW c \in lateCommits, LandCommit(c) PROVE lateInits' = lateInits
  BY <1>4 DEF LandCommit
<1>5. ASSUME NEW p \in latePuts, LandPut(p) PROVE lateInits' = lateInits
  BY <1>5 DEF LandPut
<1>6. ASSUME NEW k \in lateDeletes, LandDelete(k) PROVE lateInits' = lateInits
  BY <1>6 DEF LandDelete
<1>7. ASSUME NEW k \in Keys, Age(k) PROVE lateInits' = lateInits
  BY <1>7 DEF Age
<1>8. CASE UNCHANGED vars
  BY <1>8 DEF vars, InitsEmpty
<1>9. lateInits' = lateInits => InitsEmpty'
  BY DEF InitsEmpty
<1> QED
  BY <1>1, <1>2, <1>3, <1>4, <1>5, <1>6, <1>7, <1>8, <1>9, Zenon DEF Next, Land

\* How current.json changes: it is written empty once, and from then on
\* every document succeeds the one it replaces.
LEMMA PointerStep ==
  ASSUME TypeInv, RaceInv, InitsEmpty, [Next]_vars, pointer' # pointer
  PROVE  /\ pointer' # None
         /\ pointer = None => pointer'.current = None /\ pointer'.previous = None
         /\ pointer # None => Succeeds(pointer', pointer)
<1>t. TypeInv'
  BY StepType
<1>1. ASSUME NEW j \in Jobs, InitWritten(j)
      PROVE  /\ pointer = None /\ pointer' # None
             /\ pointer'.current = None /\ pointer'.previous = None
  <2>1. EmptyPointer(run[j]) \in CurrentJson
    BY <1>1, IdTypes DEF InitWritten, TypeInv, TypeOK, Shape
  <2> QED BY <1>1, <2>1, NoneAssumption DEF InitWritten, EmptyPointer
<1>2. ASSUME NEW doc \in lateInits, LandInit(doc)
      PROVE  /\ pointer = None /\ pointer' # None
             /\ pointer'.current = None /\ pointer'.previous = None
  BY <1>2, NoneAssumption DEF LandInit, InitsEmpty, TypeInv, TypeOK
<1>3. ASSUME NEW j \in Jobs, CommitWritten(j)
      PROVE  pointer # None /\ pointer' # None /\ Succeeds(pointer', pointer)
  <2>1. intent[j] # None
    BY <1>3, NoneAssumption DEF CommitWritten, TypeInv, Shape, Committing
  <2> QED BY <1>3, <2>1, CommitSucceeds
<1>4. ASSUME NEW c \in lateCommits, LandCommit(c)
      PROVE  pointer # None /\ pointer' # None /\ Succeeds(pointer', pointer)
  <2>1. c.doc # None
    BY NoneAssumption DEF TypeInv, TypeOK
  <2> QED BY <1>4, <2>1, CommitSucceeds
<1> QED BY <1>1, <1>2, <1>3, <1>4, PointerWriters

\* However runs of apply() overlap and however late a lost commit lands,
\* put_if_match lets nobody replace a generation it has not planned
\* against: the entry that was current is kept or becomes `previous`.
THEOREM PublicationsChain == Spec => NoLostPublication
<1>1. Init => InitsEmpty
  BY DEF Init, InitsEmpty
<1>2. TypeInv /\ RaceInv /\ InitsEmpty /\ [Next]_vars =>
        [pointer # None /\ pointer' # pointer =>
           \/ pointer'.previous = pointer.current
           \/ /\ pointer'.current = pointer.current
              /\ pointer'.previous = pointer.previous]_vars
  BY PointerStep DEF Succeeds, Keeps, Demotes
<1> QED BY <1>1, <1>2, InitsStep, RaceHolds, TypeCorrect, PTL DEF Spec, NoLostPublication

-----------------------------------------------------------------------------
(***************************************************************************)
(* A pointer once replaced never comes back.                               *)
(***************************************************************************)
\* What a job may do in a step that leaves the pointer and the past alone:
\* take the pointer in hand, plan, park a commit, start, or let go.
HandStep(j) ==
  /\ InHand(j)' =>
       \/ InHand(j) /\ etag'[j] = etag[j]
       \/ pointer # None /\ etag'[j] = pointer.revision
  /\ Writing(j)' =>
       \/ Writing(j) /\ etag'[j] = etag[j] /\ intent'[j] = intent[j]
       \/ /\ Planning(j) /\ InHand(j) /\ etag'[j] = etag[j]
          /\ intent'[j].revision = NewRevision(run[j])
  /\ Planning(j)' => (Planning(j) /\ run'[j] = run[j]) \/ run'[j] > runs

HandsStep ==
  /\ \A c \in lateCommits' :
       c \in lateCommits \/ \E j \in Jobs : Writing(j) /\ c.etag = etag[j] /\ c.doc = intent[j]
  /\ \A j \in Jobs : HandStep(j)
  /\ runs' >= runs

\* Then the past stays what it was.
LEMMA PastStays ==
  ASSUME TypeInv, TypeInv', RaceInv, NEW past \in SUBSET Nat, Overtaken(past),
         HandsStep, pointer' = pointer
  PROVE  Overtaken(past)'
<1> USE ConstantsAssumption
<1>0. \A j \in Jobs : Writing(j) => InHand(j)
  BY DEF Writing, InHand
<1>1. pointer = None => past = {} /\ lateCommits' = {} /\ \A j \in Jobs : ~InHand(j)'
  BY <1>0 DEF Overtaken, HandsStep, HandStep
<1>2. ASSUME NEW j \in Jobs, pointer # None, Planning(j)
      PROVE  NewRevision(run[j]) \notin past \cup {pointer.revision}
  <2>1. pointer \in Documents /\ Unused(run[j])
    BY <1>2, SomeDocuments DEF RaceInv, RunsFresh
  <2> QED BY <1>2, <2>1 DEF Overtaken, Unused
<1>3. ASSUME pointer # None, NEW c \in lateCommits'
      PROVE  /\ c.etag \in past \cup {pointer.revision}
             /\ c.doc.revision \in past \cup {pointer.revision} => c.etag \in past
  <2>1. CASE c \in lateCommits
    BY <1>3, <2>1 DEF Overtaken
  <2>2. CASE c \notin lateCommits
    <3>1. PICK j \in Jobs : Writing(j) /\ c.etag = etag[j] /\ c.doc = intent[j]
      BY <2>2 DEF HandsStep
    <3> QED BY <1>0, <1>3, <3>1 DEF Overtaken
  <2> QED BY <2>1, <2>2
<1>4. ASSUME pointer # None, NEW j \in Jobs, InHand(j)'
      PROVE  etag'[j] \in past \cup {pointer.revision}
  BY <1>4 DEF Overtaken, HandsStep, HandStep
<1>5. ASSUME pointer # None, NEW j \in Jobs, Writing(j)',
             intent'[j].revision \in past \cup {pointer.revision}
      PROVE  etag'[j] \in past
  BY <1>2, <1>5 DEF Overtaken, HandsStep, HandStep
<1>6. \A n \in Gens : n > runs' => NewRevision(n) \notin past
  BY DEF Overtaken, HandsStep, HandStep, TypeInv, TypeOK, Gens
<1>7. ASSUME NEW j \in Jobs, Planning(j)' PROVE NewRevision(run'[j]) \notin past
  <2>1. run'[j] \in Gens
    BY DEF TypeInv, TypeOK
  <2> QED BY <1>7, <2>1 DEF Overtaken, HandsStep, HandStep
<1> QED BY <1>1, <1>3, <1>4, <1>5, <1>6, <1>7 DEF Overtaken, NewRevision

\* Every step that does not write the pointer is such a step.
LEMMA HandsAlways ==
  ASSUME TypeInv, TypeInv', RaceInv, [Next]_vars, pointer' = pointer
  PROVE  HandsStep
<1> USE ConstantsAssumption DEF InHand, Writing, Uploading, Committing, Planning
<1>u. ASSUME UNCHANGED <<lateCommits, runs>>, NEW j \in Jobs, HandStep(j),
             \A i \in Jobs : i # j => /\ pc'[i] = pc[i] /\ run'[i] = run[i] /\ dry'[i] = dry[i]
                                      /\ etag'[i] = etag[i] /\ intent'[i] = intent[i]
      PROVE  HandsStep
  BY <1>u DEF HandsStep, HandStep, TypeInv, TypeOK, Gens
<1>s. ASSUME lateCommits' \subseteq lateCommits, UNCHANGED <<runs, pc, run, dry, etag, intent>>
      PROVE  HandsStep
  BY <1>s DEF HandsStep, HandStep, TypeInv, TypeOK, Gens
<1>e. ASSUME NEW j \in Jobs, End(j), UNCHANGED <<bucketVars, lateVars, runs>>
      PROVE  HandsStep
  BY <1>e, <1>u DEF HandStep, End, TypeInv, TypeOK
<1>a. ASSUME NEW j \in Jobs, Start(j) PROVE HandsStep
  BY <1>a DEF HandsStep, HandStep, Start, TypeInv, TypeOK, Gens
<1>b. ASSUME NEW j \in Jobs, FetchPointer(j) \/ ListEmpty(j) \/ InitRefused(j)
      PROVE  HandsStep
  BY <1>b, <1>u DEF HandStep, FetchPointer, ListEmpty, InitRefused, Adopt, ETag, TypeInv, TypeOK
<1>c. ASSUME NEW j \in Jobs, InitWritten(j) PROVE HandsStep
  <2>1. EmptyPointer(run[j]) \in CurrentJson
    BY <1>c, IdTypes DEF InitWritten, TypeInv, TypeOK, Shape
  <2> QED BY <1>c, <2>1, NoneAssumption DEF InitWritten
<1>d. ASSUME NEW j \in Jobs, InitReread(j) PROVE HandsStep
  <2>1. CASE pointer # None
    BY <1>d, <2>1, <1>u DEF HandStep, InitReread, Adopt, ETag, TypeInv, TypeOK
  <2>2. CASE pointer = None
    BY <1>d, <2>2, <1>e DEF InitReread
  <2> QED BY <2>1, <2>2
<1>f. ASSUME NEW j \in Jobs, PlanRefresh(j) PROVE HandsStep
  <2>1. /\ pc[j] = "files" /\ pc'[j] = IF dry[j] THEN "clean" ELSE "commit"
        /\ intent'[j].revision = NewRevision(run[j])
        /\ \A i \in Jobs : i # j => /\ pc'[i] = pc[i] /\ run'[i] = run[i] /\ dry'[i] = dry[i]
                                    /\ etag'[i] = etag[i] /\ intent'[i] = intent[i]
        /\ UNCHANGED <<lateCommits, runs, run, dry, etag>>
    BY <1>f DEF PlanRefresh, Refreshed, TypeInv, TypeOK
  <2>2. HandStep(j)
    BY <2>1 DEF HandStep
  <2> QED BY <2>1, <2>2, <1>u
<1>g. ASSUME NEW j \in Jobs, NEW nodes \in Rendered(want[j]), PlanGeneration(j, nodes)
      PROVE  HandsStep
  <2>1. /\ pc[j] = "files" /\ pc'[j] = IF dry[j] THEN "clean" ELSE "upload"
        /\ intent'[j].revision = NewRevision(run[j])
        /\ \A i \in Jobs : i # j => /\ pc'[i] = pc[i] /\ run'[i] = run[i] /\ dry'[i] = dry[i]
                                    /\ etag'[i] = etag[i] /\ intent'[i] = intent[i]
        /\ UNCHANGED <<lateCommits, runs, run, dry, etag>>
    BY <1>g DEF PlanGeneration, NewPointer, TypeInv, TypeOK
  <2>2. HandStep(j)
    BY <2>1 DEF HandStep
  <2> QED BY <2>1, <2>2, <1>u
<1>h. ASSUME NEW j \in Jobs, NEW h \in Hosts, UploadWritten(j, h) PROVE HandsStep
  <2>1. /\ pc[j] = "upload" /\ pc'[j] \in {"upload", "commit"}
        /\ intent' = intent
        /\ \A i \in Jobs : i # j => /\ pc'[i] = pc[i] /\ run'[i] = run[i] /\ dry'[i] = dry[i]
                                    /\ etag'[i] = etag[i] /\ intent'[i] = intent[i]
        /\ UNCHANGED <<lateCommits, runs, run, dry, etag>>
    BY <1>h DEF UploadWritten, Uploaded, TypeInv, TypeOK
  <2>2. HandStep(j)
    BY <2>1 DEF HandStep
  <2> QED BY <2>1, <2>2, <1>u
<1>i. ASSUME NEW j \in Jobs, NEW h \in Hosts, UploadReread(j, h) PROVE HandsStep
  <2>1. CASE files[Key(run[j], h)] # Body(j, h)
    BY <1>i, <2>1, <1>e DEF UploadReread
  <2>2. CASE files[Key(run[j], h)] = Body(j, h)
    <3>1. /\ pc[j] = "upload_reread" /\ pc'[j] \in {"upload", "commit"}
          /\ intent' = intent
          /\ \A i \in Jobs : i # j => /\ pc'[i] = pc[i] /\ run'[i] = run[i] /\ dry'[i] = dry[i]
                                      /\ etag'[i] = etag[i] /\ intent'[i] = intent[i]
          /\ UNCHANGED <<lateCommits, runs, run, dry, etag>>
      BY <1>i, <2>2 DEF UploadReread, Uploaded, TypeInv, TypeOK
    <3>2. HandStep(j)
      BY <3>1 DEF HandStep
    <3> QED BY <3>1, <3>2, <1>u
  <2> QED BY <2>1, <2>2
<1>j. ASSUME NEW j \in Jobs, UploadRefused(j) \/ CommitWritten(j) \/ CommitRefused(j)
                             \/ RereadCommitted(j)
      PROVE  HandsStep
  <2>1. /\ (pc[j] = "upload" /\ pc'[j] = "upload_reread") \/ pc'[j] \in {"clean", "reread"}
        /\ pc'[j] = "reread" => pc[j] = "commit"
        /\ intent' = intent
        /\ \A i \in Jobs : i # j => /\ pc'[i] = pc[i] /\ run'[i] = run[i] /\ dry'[i] = dry[i]
                                    /\ etag'[i] = etag[i] /\ intent'[i] = intent[i]
        /\ UNCHANGED <<lateCommits, runs, run, dry, etag>>
    BY <1>j DEF UploadRefused, CommitWritten, CommitRefused,
       RereadCommitted, TypeInv, TypeOK
  <2>2. HandStep(j)
    BY <2>1 DEF HandStep
  <2> QED BY <2>1, <2>2, <1>u
<1>k. ASSUME NEW j \in Jobs, CommitLost(j) PROVE HandsStep
  BY <1>k DEF HandsStep, HandStep, CommitLost, TypeInv, TypeOK, Gens
<1>l. ASSUME NEW j \in Jobs, RereadBaseline(j) PROVE HandsStep
  <2>1. CASE rounds[j] >= MaxPointerRetries
    BY <1>l, <2>1, <1>e DEF RereadBaseline, TypeInv, TypeOK
  <2>2. CASE ~(rounds[j] >= MaxPointerRetries)
    <3>1. etag[j] = base[j].revision
      BY <1>l DEF RereadBaseline, RaceInv, Planned
    <3> QED BY <1>l, <2>2, <3>1, <1>u DEF HandStep, RereadBaseline, ETag, TypeInv, TypeOK
  <2> QED BY <2>1, <2>2
<1>m. ASSUME NEW j \in Jobs, CleanList(j) PROVE HandsStep
  <2>1. CASE dry[j]
    BY <1>m, <2>1, <1>e DEF CleanList
  <2>2. CASE ~dry[j]
    BY <1>m, <2>2, <1>u DEF HandStep, CleanList, TypeInv, TypeOK
  <2> QED BY <2>1, <2>2
<1>n. ASSUME NEW j \in Jobs,
             \/ ListOrphaned(j) \/ FilesMissing(j) \/ RereadConflict(j)
             \/ CleanDone(j) \/ Fail(j)
      PROVE  HandsStep
  BY <1>n, <1>e DEF ListOrphaned, FilesMissing, RereadConflict, CleanDone, Fail
<1>o. ASSUME NEW j \in Jobs, InitLost(j) PROVE HandsStep
  BY <1>o, <1>s DEF InitLost
<1>p. ASSUME NEW j \in Jobs, NEW h \in Hosts, UploadLost(j, h) PROVE HandsStep
  BY <1>p, <1>s DEF UploadLost
<1>q. ASSUME NEW j \in Jobs, NEW k \in Keys, DeleteDone(j, k) \/ DeleteLost(j, k)
      PROVE  HandsStep
  BY <1>q, <1>s DEF DeleteDone, DeleteLost
<1>r. CASE Land
  BY <1>r, <1>s DEF Land, LandInit, LandCommit, LandPut, LandDelete
<1>t. ASSUME NEW k \in Keys, Age(k) PROVE HandsStep
  BY <1>t, <1>s DEF Age
<1>v. CASE UNCHANGED vars
  BY <1>v, <1>s DEF vars
<1> QED
  BY <1>a, <1>b, <1>c, <1>d, <1>f, <1>g, <1>h, <1>i, <1>j, <1>k, <1>l, <1>m, <1>n,
     <1>o, <1>p, <1>q, <1>r, <1>t, <1>v, Zenon DEF Next, JobStep

\* The pointer is written where there was none: nothing was in hand.
LEMMA PastBegins ==
  ASSUME TypeInv, TypeInv', RaceInv, NEW past \in SUBSET Nat, Overtaken(past),
         [Next]_vars, pointer = None, pointer' # pointer
  PROVE  Overtaken(past)'
<1> USE ConstantsAssumption
<1>0. past = {} /\ lateCommits = {} /\ \A j \in Jobs : ~InHand(j)
  BY DEF Overtaken
<1>1. ASSUME NEW j \in Jobs, InitWritten(j) PROVE Overtaken(past)'
  <2>1. /\ pointer' # None /\ lateCommits' = {}
        /\ InHand(j)' => etag'[j] = pointer'.revision
        /\ ~Writing(j)'
        /\ \A i \in Jobs : i # j => ~InHand(i)' /\ ~Writing(i)'
    BY <1>0, <1>1 DEF InitWritten, Adopt, ETag, InHand, Writing, Uploading, Committing,
       TypeInv, TypeOK
  <2> QED BY <1>0, <2>1 DEF Overtaken
<1>2. ASSUME NEW doc \in lateInits, LandInit(doc) PROVE Overtaken(past)'
  <2>1. /\ pointer' # None /\ lateCommits' = {}
        /\ \A i \in Jobs : ~InHand(i)' /\ ~Writing(i)'
    BY <1>0, <1>2 DEF LandInit, InHand, Writing, Uploading, Committing
  <2> QED BY <1>0, <2>1 DEF Overtaken
<1>3. ASSUME NEW j \in Jobs PROVE ~CommitWritten(j)
  BY DEF CommitWritten
<1>4. ASSUME NEW c \in lateCommits PROVE ~LandCommit(c)
  BY <1>0
<1> QED BY <1>1, <1>2, <1>3, <1>4, PointerWriters

\* Whoever replaces the pointer writes a revision that has never been the
\* pointer's, so nothing that was read before names it.
LEMMA NothingLive ==
  ASSUME TypeInv, RaceInv, NEW past \in SUBSET Nat, Overtaken(past),
         [Next]_vars, pointer # None, pointer' # pointer
  PROVE  /\ pointer' # None
         /\ pointer'.revision \notin past \cup {pointer.revision}
         /\ \A c \in lateCommits' : c \in lateCommits /\ c.etag \in past \cup {pointer.revision}
         /\ \A i \in Jobs : InHand(i)' => InHand(i) /\ etag'[i] \in past \cup {pointer.revision}
         /\ \A i \in Jobs : Planning(i)' => Planning(i)
         /\ UNCHANGED <<runs, run, intent, etag, files, todo, doomed, since, lateDeletes, latePuts>>
<1>1. ASSUME NEW j \in Jobs, InitWritten(j) PROVE FALSE
  BY <1>1 DEF InitWritten
<1>2. ASSUME NEW doc \in lateInits, LandInit(doc) PROVE FALSE
  BY <1>2 DEF LandInit
<1>3. ASSUME NEW j \in Jobs, CommitWritten(j)
      PROVE  /\ pointer' = intent[j] /\ intent[j] # None
             /\ intent[j].revision \notin past \cup {pointer.revision}
             /\ lateCommits' = lateCommits
             /\ \A i \in Jobs : (InHand(i)' => InHand(i)) /\ (Planning(i)' => Planning(i))
             /\ UNCHANGED <<runs, run, intent, etag, files, todo, doomed, since,
                            lateDeletes, latePuts>>
  <2>1. /\ Writing(j) /\ pointer' = intent[j] /\ etag[j] = pointer.revision
        /\ intent[j] # None
    BY <1>3, NoneAssumption DEF CommitWritten, Writing, Committing, ETag, TypeInv, Shape
  <2>2. intent[j].revision \notin past \cup {pointer.revision}
    BY <2>1 DEF Overtaken
  <2> QED BY <1>3, <2>1, <2>2 DEF CommitWritten, InHand, Uploading, Committing, Planning,
             TypeInv, TypeOK
<1>4. ASSUME NEW c \in lateCommits, LandCommit(c)
      PROVE  /\ pointer' = c.doc /\ c.doc # None
             /\ c.doc.revision \notin past \cup {pointer.revision}
             /\ lateCommits' \subseteq lateCommits
             /\ \A i \in Jobs : (InHand(i)' => InHand(i)) /\ (Planning(i)' => Planning(i))
             /\ UNCHANGED <<runs, run, intent, etag, files, todo, doomed, since,
                            lateDeletes, latePuts>>
  <2>1. pointer' = c.doc /\ c.etag = pointer.revision /\ c.doc # None
    BY <1>4, NoneAssumption DEF LandCommit, ETag, TypeInv, TypeOK
  <2>2. c.doc.revision \notin past \cup {pointer.revision}
    BY <2>1 DEF Overtaken
  <2> QED BY <1>4, <2>1, <2>2 DEF LandCommit, InHand, Uploading, Committing, Planning
<1>5. /\ \A c \in lateCommits : c.etag \in past \cup {pointer.revision}
      /\ \A i \in Jobs : InHand(i) => etag[i] \in past \cup {pointer.revision}
  BY DEF Overtaken
<1>6. CASE \E j \in Jobs : CommitWritten(j)
  BY <1>3, <1>5, <1>6
<1>7. CASE \E c \in lateCommits : LandCommit(c)
  BY <1>4, <1>5, <1>7
<1> QED BY <1>1, <1>2, <1>6, <1>7, PointerWriters

\* The pointer is replaced: its revision is past from now on.
LEMMA PastGrows ==
  ASSUME TypeInv, TypeInv', RaceInv, NEW past \in SUBSET Nat, Overtaken(past),
         [Next]_vars, pointer # None, pointer' # pointer,
         NEW after \in SUBSET Nat, after = past \cup {pointer.revision}
  PROVE  Overtaken(after)'
<1>1. /\ pointer' # None
      /\ pointer'.revision \notin past \cup {pointer.revision}
      /\ \A c \in lateCommits' : c.etag \in past \cup {pointer.revision}
      /\ \A i \in Jobs : InHand(i)' => etag'[i] \in past \cup {pointer.revision}
      /\ \A i \in Jobs : Planning(i)' => Planning(i)
      /\ UNCHANGED <<runs, run>>
  BY NothingLive
<1>2. \A i \in Jobs : Writing(i)' => InHand(i)'
  BY DEF Writing, InHand
<1>3. pointer \in Documents
  BY SomeDocuments
<1>4. \A n \in Gens : n > runs => NewRevision(n) \notin past \cup {pointer.revision}
  BY <1>3 DEF Overtaken, RaceInv, RunsFresh, Unused
<1>5. \A i \in Jobs : Planning(i) => NewRevision(run[i]) \notin past \cup {pointer.revision}
  BY <1>3 DEF Overtaken, RaceInv, RunsFresh, Unused
<1> QED BY <1>1, <1>2, <1>4, <1>5 DEF Overtaken, NewRevision

\* At every step there is a past, the same or with one revision more.
LEMMA StepHistory == TypeInv /\ RaceInv /\ HistoryInv /\ [Next]_vars => HistoryInv'
<1> SUFFICES ASSUME TypeInv, RaceInv, HistoryInv, [Next]_vars PROVE HistoryInv'
  OBVIOUS
<1>t. TypeInv'
  BY StepType
<1>p. PICK past \in SUBSET Nat : Overtaken(past)
  BY DEF HistoryInv
<1>1. CASE pointer' = pointer
  BY <1>t, <1>p, <1>1, HandsAlways, PastStays DEF HistoryInv
<1>2. CASE pointer' # pointer /\ pointer = None
  BY <1>t, <1>p, <1>2, PastBegins DEF HistoryInv
<1>3. CASE pointer' # pointer /\ pointer # None
  <2>1. past \cup {pointer.revision} \in SUBSET Nat
    BY <1>3 DEF TypeInv, TypeOK, CurrentJson
  <2>2. \A after \in SUBSET Nat : after = past \cup {pointer.revision} => Overtaken(after)'
    BY <1>t, <1>p, <1>3, PastGrows
  <2> QED BY <2>1, <2>2 DEF HistoryInv
<1> QED BY <1>1, <1>2, <1>3

\* There is a past throughout.
LEMMA HistoryHolds == Spec => []HistoryInv
<1>1. Init => HistoryInv
  <2> SUFFICES ASSUME Init PROVE Overtaken({})
    BY DEF HistoryInv
  <2> QED BY DEF Init, Overtaken, InHand, Writing, Uploading, Committing, Planning
<1> QED BY <1>1, StepHistory, RaceHolds, TypeCorrect, PTL DEF Spec

-----------------------------------------------------------------------------
(***************************************************************************)
(* Runs that overlap, but end before the grace period does.                *)
(***************************************************************************)
\* Every run ends before what is stored in its lifetime can expire.
Graced == JobDeadline /\ "zero" \notin Graces

(***************************************************************************)
(* What age shows: an object that has expired is of no run that is alive.  *)
(***************************************************************************)
NeverZero == \A j \in Jobs : ~zero[j]

KeysKnown ==
  /\ \A k \in lateDeletes : k[1] =< runs
  /\ \A j \in Jobs : \A k \in doomed[j] : k[1] =< runs

\* A job has seen its own objects stored, and they are young.
OwnObjectsYoung ==
  \A j \in Jobs : ~Idle(j) =>
    \A k \in Keys : k[1] = run[j] /\ files[k] # None => k \in since[j]

SeenIsYoung == \A j \in Jobs : \A k \in since[j] : k \notin old

\* Neither what is condemned nor what is being deleted is of a live run.
LiveRunsSpared ==
  \A i \in Jobs : ~Idle(i) =>
    /\ \A j \in Jobs : \A k \in doomed[j] : k[1] # run[i]
    /\ \A k \in lateDeletes : k[1] # run[i]

AgeInv ==
  NeverZero /\ KeysKnown /\ OwnObjectsYoung /\ SeenIsYoung /\ LiveRunsSpared

(***************************************************************************)
(* What deletion may hit: the documents that are or may come to be served. *)
(***************************************************************************)
MayServe(d) ==
  /\ pointer # None
  /\ \/ d = pointer
     \/ \E c \in lateCommits : Live(c.etag) /\ d = c.doc
     \/ \E j \in Jobs : Writing(j) /\ Live(etag[j]) /\ d = intent[j]

\* All that is stored of generation id was stored in the lifetime of job j.
Young(j, id) == \A k \in Keys : k[1] = id /\ files[k] # None => k \in since[j]

Covered(j, d) == \A e \in EntriesOf(d) : e.id \in Retained(intent[j]) \/ Young(j, e.id)

\* The document of job j has been the pointer, and j knows or may learn it.
Published(j) == Cleaning(j) \/ (Writing(j) /\ pointer = intent[j])

\* What may be served after a job has published is retained by the job or
\* too young for it to delete.
CoverInv ==
  \A j \in Jobs : Published(j) =>
    pointer # None /\ \A d \in Documents : MayServe(d) => Covered(j, d)

\* No deletion can hit what is or may be served.
DeletesSpare ==
  \A d \in Documents : MayServe(d) =>
    /\ \A j \in Jobs : \A k \in doomed[j] : k[1] \notin Retained(d)
    /\ \A k \in lateDeletes : k[1] \notin Retained(d)

(***************************************************************************)
(* What is stored: all that may be served, as far as its job has got.      *)
(***************************************************************************)
StagedFiles ==
  \A j \in Jobs : Live(etag[j]) =>
    /\ Uploading(j) =>
         /\ \A h \in Hosts : intent[j].current.nodes[h] # None /\ h \notin todo[j] =>
              files[Key(run[j], h)] = intent[j].current.nodes[h]
         /\ Intact(intent[j].previous, Hosts)
    /\ Committing(j) => Complete(intent[j])

IntactInv == StagedFiles /\ LateCommitsComplete /\ PointerIntact
-----------------------------------------------------------------------------
(***************************************************************************)
(* Age, action by action.                                                  *)
(***************************************************************************)
\* Nothing is stored or deleted and no run begins.
LEMMA QuietAge ==
  ASSUME AgeInv, UNCHANGED <<files, old, lateDeletes, runs, run, zero, doomed, since>>,
         \A j \in Jobs : ~Idle(j)' => ~Idle(j)
  PROVE  AgeInv'
BY DEF AgeInv, NeverZero, KeysKnown, OwnObjectsYoung, SeenIsYoung, LiveRunsSpared

\* A job ends.
LEMMA EndAge ==
  ASSUME TypeInv, AgeInv, NEW j \in Jobs, End(j), UNCHANGED <<bucketVars, lateVars, runs>>
  PROVE  AgeInv'
<1> USE DEF AgeInv, End, TypeInv, TypeOK
<1>1. NeverZero' /\ KeysKnown'
  BY DEF NeverZero, KeysKnown
<1>2. OwnObjectsYoung' /\ SeenIsYoung'
  BY DEF OwnObjectsYoung, SeenIsYoung
<1>3. LiveRunsSpared'
  BY DEF LiveRunsSpared
<1> QED BY <1>1, <1>2, <1>3

\* A run begins: nothing stored, condemned or in flight has its number.
LEMMA StartAge ==
  ASSUME Graced, TypeInv, RaceInv, AgeInv, NEW j \in Jobs, Start(j)
  PROVE  AgeInv'
<1> USE ConstantsAssumption
<1>0. /\ runs' = runs + 1 /\ runs \in Nat /\ run'[j] = runs + 1 /\ runs + 1 \in Gens
      /\ \A i \in Jobs : i # j => pc'[i] = pc[i] /\ run'[i] = run[i]
      /\ UNCHANGED <<files, old, lateDeletes, doomed, since>>
  BY DEF Start, TypeInv, TypeOK, Gens
<1>1. NeverZero'
  <2>1. PICK g \in Graces : zero' = [zero EXCEPT ![j] = (g = "zero")]
    BY DEF Start
  <2>2. g # "zero"
    BY DEF Graced
  <2>3. \A i \in Jobs : zero'[i] = IF i = j THEN FALSE ELSE zero[i]
    BY <2>1, <2>2 DEF TypeInv, TypeOK
  <2> QED BY <2>3 DEF AgeInv, NeverZero
<1>2. KeysKnown'
  <2>1. \A k \in Keys : k[1] \in Nat
    BY DEF Keys, Gens
  <2> QED BY <1>0, <2>1 DEF AgeInv, KeysKnown, TypeInv, TypeOK
<1>3. OwnObjectsYoung'
  <2>1. \A k \in Keys : k[1] = runs + 1 => files[k] = None
    BY <1>0 DEF RaceInv, RunsFresh, Unused
  <2> QED BY <1>0, <2>1 DEF AgeInv, OwnObjectsYoung
<1>4. SeenIsYoung'
  BY <1>0 DEF AgeInv, SeenIsYoung
<1>5. LiveRunsSpared'
  <2>1. /\ \A i \in Jobs : \A k \in doomed[i] : k[1] # runs + 1
        /\ \A k \in lateDeletes : k[1] # runs + 1
    BY <1>0 DEF AgeInv, KeysKnown
  <2> QED BY <1>0, <2>1 DEF AgeInv, LiveRunsSpared
<1> QED BY <1>1, <1>2, <1>3, <1>4, <1>5 DEF AgeInv

\* An object is stored while every live job watches.
LEMMA StoredAge ==
  ASSUME Graced, TypeInv, AgeInv, NEW k \in Keys, NEW b, Stored(k),
         files' = [files EXCEPT ![k] = b],
         UNCHANGED <<lateDeletes, runs, run, zero, doomed>>,
         \A j \in Jobs : ~Idle(j)' => ~Idle(j)
  PROVE  AgeInv'
<1>1. NeverZero' /\ KeysKnown' /\ LiveRunsSpared'
  BY DEF AgeInv, NeverZero, KeysKnown, LiveRunsSpared
<1>2. /\ old' = old \ {k}
      /\ \A j \in Jobs : ~Idle(j) => since'[j] = since[j] \cup {k}
      /\ \A j \in Jobs : since'[j] \subseteq since[j] \cup {k}
  BY DEF Stored, Graced
<1>3. OwnObjectsYoung'
  BY <1>2 DEF AgeInv, OwnObjectsYoung, TypeInv, TypeOK
<1>4. SeenIsYoung'
  BY <1>2 DEF AgeInv, SeenIsYoung
<1> QED BY <1>1, <1>3, <1>4 DEF AgeInv

\* An object is deleted.
LEMMA DeletedAge ==
  ASSUME TypeInv, AgeInv, NEW k \in Keys,
         files' = [files EXCEPT ![k] = None], old' = old \ {k},
         lateDeletes' \subseteq lateDeletes, \A j \in Jobs : doomed'[j] \subseteq doomed[j],
         UNCHANGED <<runs, pc, run, zero, since>>
  PROVE  AgeInv'
<1>1. NeverZero' /\ KeysKnown' /\ LiveRunsSpared'
  BY DEF AgeInv, NeverZero, KeysKnown, LiveRunsSpared
<1>2. OwnObjectsYoung' /\ SeenIsYoung'
  BY DEF AgeInv, OwnObjectsYoung, SeenIsYoung, TypeInv, TypeOK
<1> QED BY <1>1, <1>2 DEF AgeInv

\* cleanup condemns only what has expired: nothing of a live run has.
LEMMA CleanListAge ==
  ASSUME TypeInv, RaceInv, AgeInv, NEW j \in Jobs, CleanList(j)
  PROVE  AgeInv'
<1>1. CASE dry[j]
  BY <1>1, EndAge DEF CleanList
<1>2. CASE ~dry[j]
  <2>1. /\ doomed' = [doomed EXCEPT ![j] = Expired(j)]
        /\ UNCHANGED <<files, old, lateDeletes, runs, run, zero, since>>
        /\ \A i \in Jobs : ~Idle(i)' => ~Idle(i)
    BY <1>2 DEF CleanList, TypeInv, TypeOK
  <2>2. \A k \in Expired(j) : k \in Keys /\ files[k] # None /\ k \in old
    BY DEF Expired, AgeInv, NeverZero
  <2>3. \A k \in Expired(j) : k[1] =< runs
    <3>1. \A k \in Keys : files[k] # None => ~(k[1] > runs)
      BY DEF RaceInv, RunsFresh, Unused, Keys
    <3> QED BY <2>2, <3>1, ConstantsAssumption DEF Keys, Gens, TypeInv, TypeOK
  <2>4. \A i \in Jobs : ~Idle(i) => \A k \in Expired(j) : k[1] # run[i]
    BY <2>2 DEF AgeInv, OwnObjectsYoung, SeenIsYoung
  <2>5. NeverZero' /\ OwnObjectsYoung' /\ SeenIsYoung'
    BY <2>1 DEF AgeInv, NeverZero, OwnObjectsYoung, SeenIsYoung
  <2>6. KeysKnown'
    BY <2>1, <2>3 DEF AgeInv, KeysKnown, TypeInv, TypeOK
  <2>7. LiveRunsSpared'
    BY <2>1, <2>4 DEF AgeInv, LiveRunsSpared, TypeInv, TypeOK
  <2> QED BY <2>5, <2>6, <2>7 DEF AgeInv
<1> QED BY <1>1, <1>2

\* Every step keeps what age shows.
LEMMA StepAge == Graced /\ TypeInv /\ RaceInv /\ AgeInv /\ [Next]_vars => AgeInv'
<1> SUFFICES ASSUME Graced, TypeInv, RaceInv, AgeInv, [Next]_vars PROVE AgeInv'
  OBVIOUS
<1>a. ASSUME NEW j \in Jobs,
             \/ FetchPointer(j) \/ ListEmpty(j) \/ InitWritten(j) \/ InitRefused(j)
             \/ InitLost(j) \/ PlanRefresh(j) \/ UploadRefused(j)
             \/ CommitWritten(j) \/ CommitRefused(j) \/ CommitLost(j)
             \/ RereadCommitted(j)
      PROVE  AgeInv'
  <2>1. UNCHANGED <<files, old, lateDeletes, runs, run, zero, doomed, since>> /\ ~Idle(j)
    BY <1>a DEF FetchPointer, ListEmpty, InitWritten, InitRefused, InitLost, PlanRefresh,
       UploadRefused, CommitWritten, CommitRefused, CommitLost, RereadCommitted
  <2>2. \A i \in Jobs : i # j => pc'[i] = pc[i]
    BY <1>a DEF FetchPointer, ListEmpty, InitWritten, InitRefused, InitLost, PlanRefresh,
       UploadRefused, CommitWritten, CommitRefused, CommitLost, RereadCommitted, Adopt,
       TypeInv, TypeOK
  <2> QED BY <2>1, <2>2, QuietAge
<1>b. ASSUME NEW j \in Jobs, NEW nodes \in Rendered(want[j]), PlanGeneration(j, nodes)
      PROVE  AgeInv'
  BY <1>b, QuietAge DEF PlanGeneration, TypeInv, TypeOK
<1>c. ASSUME NEW j \in Jobs, NEW h \in Hosts, UploadWritten(j, h) PROVE AgeInv'
  <2>1. Key(run[j], h) \in Keys
    BY DEF TypeInv, TypeOK, Key, Keys
  <2>2. \A i \in Jobs : ~Idle(i)' => ~Idle(i)
    BY <1>c DEF UploadWritten, Uploaded, TypeInv, TypeOK
  <2> QED BY <1>c, <2>1, <2>2, StoredAge DEF UploadWritten
<1>d. ASSUME NEW j \in Jobs, NEW h \in Hosts, UploadLost(j, h) PROVE AgeInv'
  BY <1>d, QuietAge DEF UploadLost
<1>e. ASSUME NEW j \in Jobs, NEW h \in Hosts, UploadReread(j, h) PROVE AgeInv'
  <2>1. CASE files[Key(run[j], h)] # Body(j, h)
    BY <1>e, <2>1, EndAge DEF UploadReread
  <2>2. CASE files[Key(run[j], h)] = Body(j, h)
    BY <1>e, <2>2, QuietAge DEF UploadReread, Uploaded, TypeInv, TypeOK
  <2> QED BY <2>1, <2>2
<1>f. ASSUME NEW j \in Jobs, InitReread(j) PROVE AgeInv'
  <2>1. CASE pointer # None
    BY <1>f, <2>1, QuietAge DEF InitReread, Adopt, TypeInv, TypeOK
  <2>2. CASE pointer = None
    BY <1>f, <2>2, EndAge DEF InitReread
  <2> QED BY <2>1, <2>2
<1>g. ASSUME NEW j \in Jobs, RereadBaseline(j) PROVE AgeInv'
  <2>1. CASE rounds[j] >= MaxPointerRetries
    BY <1>g, <2>1, EndAge, ConstantsAssumption DEF RereadBaseline, TypeInv, TypeOK
  <2>2. CASE ~(rounds[j] >= MaxPointerRetries)
    BY <1>g, <2>2, QuietAge DEF RereadBaseline, TypeInv, TypeOK
  <2> QED BY <2>1, <2>2
<1>h. ASSUME NEW j \in Jobs, NEW k \in Keys, DeleteDone(j, k) PROVE AgeInv'
  <2>1. \A i \in Jobs : doomed'[i] \subseteq doomed[i]
    BY <1>h DEF DeleteDone, TypeInv, TypeOK
  <2> QED BY <1>h, <2>1, DeletedAge DEF DeleteDone
<1>i. ASSUME NEW j \in Jobs, NEW k \in Keys, DeleteLost(j, k) PROVE AgeInv'
  BY <1>i DEF DeleteLost, AgeInv, NeverZero, KeysKnown, OwnObjectsYoung, SeenIsYoung,
     LiveRunsSpared
<1>j. ASSUME NEW j \in Jobs,
             \/ ListOrphaned(j) \/ FilesMissing(j) \/ RereadConflict(j)
             \/ CleanDone(j) \/ Fail(j)
      PROVE  AgeInv'
  BY <1>j, EndAge DEF ListOrphaned, FilesMissing, RereadConflict, CleanDone, Fail
<1>k. ASSUME NEW doc \in lateInits, LandInit(doc) PROVE AgeInv'
  BY <1>k, QuietAge DEF LandInit
<1>l. ASSUME NEW c \in lateCommits, LandCommit(c) PROVE AgeInv'
  BY <1>l, QuietAge DEF LandCommit
<1>m. ASSUME NEW p \in latePuts, LandPut(p) PROVE AgeInv'
  <2>1. p.key \in Keys
    BY DEF TypeInv, TypeOK
  <2> QED BY <1>m, <2>1, StoredAge, QuietAge DEF LandPut
<1>n. ASSUME NEW k \in lateDeletes, LandDelete(k) PROVE AgeInv'
  BY <1>n, DeletedAge DEF LandDelete, TypeInv, TypeOK
<1>o. ASSUME NEW k \in Keys, Age(k) PROVE AgeInv'
  BY <1>o DEF Age, AgeInv, NeverZero, KeysKnown, OwnObjectsYoung, SeenIsYoung,
     LiveRunsSpared
<1>p. CASE UNCHANGED vars
  BY <1>p, QuietAge DEF vars
<1> QED
  BY <1>a, <1>b, <1>c, <1>d, <1>e, <1>f, <1>g, <1>h, <1>i, <1>j, <1>k, <1>l, <1>m,
     <1>n, <1>o, <1>p, StartAge, CleanListAge, Zenon DEF Next, JobStep, Land

\* The age of objects protects live runs throughout.
LEMMA AgeHolds == Graced => (Spec => []AgeInv)
<1>1. Init => AgeInv
  BY DEF Init, AgeInv, NeverZero, KeysKnown, OwnObjectsYoung, SeenIsYoung, LiveRunsSpared
<1>2. ASSUME Graced PROVE Spec => []AgeInv
  <2>1. TypeInv /\ RaceInv /\ AgeInv /\ [Next]_vars => AgeInv'
    BY <1>2, StepAge
  <2> QED BY <1>1, <2>1, RaceHolds, TypeCorrect, PTL DEF Spec
<1> QED BY <1>2

\* If every run of apply() ends before its objects expire and no run skips
\* the grace period, retention::cleanup never condemns an object of a run
\* that is still under way.
THEOREM RunningJobsSpared == Graced => (Spec => []CleanupSparesRunningJobs)
<1>1. AgeInv => CleanupSparesRunningJobs
  BY DEF AgeInv, LiveRunsSpared, CleanupSparesRunningJobs
<1>2. ASSUME Graced PROVE Spec => []CleanupSparesRunningJobs
  BY <1>1, <1>2, AgeHolds, PTL
<1> QED BY <1>2
-----------------------------------------------------------------------------
(***************************************************************************)
(* What a step does to the objects and to the memory of a job.             *)
(***************************************************************************)
\* Only what is condemned disappears, and a live job sees what is stored.
ObjectsMove ==
  /\ \A k \in Keys : files[k] # None =>
       files'[k] = files[k] \/ k \in lateDeletes \/ \E j \in Jobs : k \in doomed[j]
  /\ \A j \in Jobs : ~Idle(j) /\ ~Idle(j)' =>
       /\ since[j] \subseteq since'[j]
       /\ \A k \in Keys : files'[k] # None => files[k] # None \/ k \in since'[j]

\* A job condemns what has expired, cleans up after its commit, uploads
\* what it means to publish, or plans against what it has read.
JobMoves(j) ==
  /\ \A k \in doomed'[j] : k \in doomed[j] \/ (Cleaning(j) /\ k \in Expired(j))
  /\ Cleaning(j)' => /\ intent'[j] = intent[j] /\ ~Idle(j)
                     /\ \/ Cleaning(j)
                        \/ Committing(j) /\ intent[j] \in {pointer, pointer'}
  /\ Writing(j)' => /\ ~Idle(j) /\ run'[j] = run[j]
                    /\ \/ /\ Writing(j) /\ intent'[j] = intent[j]
                          /\ Committing(j) => Committing(j)'
                          /\ Uploading(j) => \A h \in todo[j] :
                               \/ Uploading(j)' /\ h \in todo'[j]
                               \/ files'[Key(run[j], h)] = intent[j].current.nodes[h]
                       \/ /\ pc[j] = "files" /\ ~dry[j]
                          /\ intent'[j].revision = NewRevision(run[j])
                          /\ Committing(j)' => Keeps(intent'[j], base[j])
                          /\ Uploading(j)' =>
                               /\ intent'[j].current.id = run[j]
                               /\ intent'[j].previous = base[j].current
                               /\ \A h \in Hosts :
                                    intent'[j].current.nodes[h] # None => h \in todo'[j]

JobsMove ==
  /\ \A j \in Jobs : JobMoves(j)
  /\ \A k \in lateDeletes' : k \in lateDeletes \/ \E j \in Jobs : k \in doomed[j]
  /\ \A c \in lateCommits' : c \in lateCommits \/
       \E j \in Jobs : Committing(j) /\ c.etag = etag[j] /\ c.doc = intent[j]

Undisturbed(i) ==
  /\ pc'[i] = pc[i] /\ run'[i] = run[i] /\ dry'[i] = dry[i]
  /\ intent'[i] = intent[i] /\ todo'[i] = todo[i] /\ doomed'[i] = doomed[i]

\* Every step is so towards the objects.
LEMMA ObjectsAlways ==
  ASSUME Graced, TypeInv, [Next]_vars
  PROVE  ObjectsMove
<1>q. ASSUME files' = files, \A i \in Jobs : ~Idle(i)' => since'[i] = since[i]
      PROVE  ObjectsMove
  BY <1>q DEF ObjectsMove
<1>s. ASSUME NEW k \in Keys, files[k] = None, NEW b, files' = [files EXCEPT ![k] = b], Stored(k)
      PROVE  ObjectsMove
  BY <1>s DEF ObjectsMove, Stored, Graced, TypeInv, TypeOK
<1>d. ASSUME NEW k \in Keys, files' = [files EXCEPT ![k] = None], since' = since,
             k \in lateDeletes \/ \E j \in Jobs : k \in doomed[j]
      PROVE  ObjectsMove
  BY <1>d DEF ObjectsMove, TypeInv, TypeOK
<1>e. ASSUME NEW j \in Jobs, End(j), UNCHANGED <<bucketVars, lateVars, runs>>
      PROVE  ObjectsMove
  BY <1>e, <1>q DEF End, TypeInv, TypeOK
<1>a. ASSUME NEW j \in Jobs,
             \/ Start(j) \/ FetchPointer(j) \/ ListEmpty(j) \/ InitWritten(j)
             \/ InitRefused(j) \/ InitLost(j) \/ PlanRefresh(j) \/ UploadRefused(j)
             \/ CommitWritten(j) \/ CommitRefused(j) \/ CommitLost(j) \/ RereadCommitted(j)
      PROVE  ObjectsMove
  BY <1>a, <1>q DEF Start, FetchPointer, ListEmpty, InitWritten, InitRefused, InitLost,
     PlanRefresh, UploadRefused, CommitWritten, CommitRefused, CommitLost, RereadCommitted
<1>b. ASSUME NEW j \in Jobs, NEW nodes \in Rendered(want[j]), PlanGeneration(j, nodes)
      PROVE  ObjectsMove
  BY <1>b, <1>q DEF PlanGeneration
<1>c. ASSUME NEW j \in Jobs, NEW h \in Hosts, UploadWritten(j, h) PROVE ObjectsMove
  <2>1. Key(run[j], h) \in Keys
    BY DEF TypeInv, TypeOK, Key, Keys
  <2> QED BY <1>c, <2>1, <1>s DEF UploadWritten
<1>f. ASSUME NEW j \in Jobs, NEW h \in Hosts, UploadLost(j, h) \/ UploadReread(j, h)
      PROVE  ObjectsMove
  BY <1>f, <1>q, <1>e DEF UploadLost, UploadReread
<1>g. ASSUME NEW j \in Jobs, InitReread(j) \/ RereadBaseline(j) \/ CleanList(j)
      PROVE  ObjectsMove
  BY <1>g, <1>q, <1>e DEF InitReread, RereadBaseline, CleanList
<1>h. ASSUME NEW j \in Jobs, NEW k \in Keys, DeleteDone(j, k) \/ DeleteLost(j, k)
      PROVE  ObjectsMove
  BY <1>h, <1>q, <1>d DEF DeleteDone, DeleteLost
<1>i. ASSUME NEW j \in Jobs,
             \/ ListOrphaned(j) \/ FilesMissing(j) \/ RereadConflict(j)
             \/ CleanDone(j) \/ Fail(j)
      PROVE  ObjectsMove
  BY <1>i, <1>e DEF ListOrphaned, FilesMissing, RereadConflict, CleanDone, Fail
<1>j. ASSUME NEW doc \in lateInits, LandInit(doc) PROVE ObjectsMove
  BY <1>j, <1>q DEF LandInit
<1>k. ASSUME NEW c \in lateCommits, LandCommit(c) PROVE ObjectsMove
  BY <1>k, <1>q DEF LandCommit
<1>l. ASSUME NEW p \in latePuts, LandPut(p) PROVE ObjectsMove
  <2>1. p.key \in Keys
    BY DEF TypeInv, TypeOK
  <2> QED BY <1>l, <2>1, <1>s, <1>q DEF LandPut
<1>m. ASSUME NEW k \in lateDeletes, LandDelete(k) PROVE ObjectsMove
  BY <1>m, <1>d DEF LandDelete, TypeInv, TypeOK
<1>n. ASSUME NEW k \in Keys, Age(k) PROVE ObjectsMove
  BY <1>n, <1>q DEF Age
<1>o. CASE UNCHANGED vars
  BY <1>o, <1>q DEF vars
<1> QED
  BY <1>a, <1>b, <1>c, <1>f, <1>g, <1>h, <1>i, <1>j, <1>k, <1>l, <1>m, <1>n, <1>o,
     Zenon DEF Next, JobStep, Land

\* Every step is so towards the jobs.
LEMMA JobsAlways ==
  ASSUME TypeInv, RaceInv, [Next]_vars
  PROVE  JobsMove
<1> USE DEF Writing, Uploading, Committing, Cleaning
<1>u. ASSUME lateCommits' \subseteq lateCommits, lateDeletes' \subseteq lateDeletes,
             NEW j \in Jobs, JobMoves(j), \A i \in Jobs : i # j => Undisturbed(i)
      PROVE  JobsMove
  BY <1>u DEF JobsMove, JobMoves, Undisturbed
<1>s. ASSUME lateCommits' \subseteq lateCommits, lateDeletes' \subseteq lateDeletes,
             UNCHANGED <<pc, run, dry, intent, todo, doomed>>
      PROVE  JobsMove
  BY <1>s DEF JobsMove, JobMoves
<1>e. ASSUME NEW j \in Jobs, End(j), UNCHANGED <<bucketVars, lateVars, runs>>
      PROVE  JobsMove
  BY <1>e, <1>u DEF JobMoves, Undisturbed, End, TypeInv, TypeOK
<1>a. ASSUME NEW j \in Jobs,
             \/ Start(j) \/ FetchPointer(j) \/ ListEmpty(j) \/ InitWritten(j)
             \/ InitRefused(j) \/ UploadRefused(j)
             \/ CommitWritten(j) \/ CommitRefused(j) \/ RereadCommitted(j)
      PROVE  JobsMove
  <2>1. /\ \A i \in Jobs : i # j => Undisturbed(i)
        /\ UNCHANGED <<lateCommits, lateDeletes, intent, todo, doomed>>
    BY <1>a DEF Undisturbed, Start, FetchPointer, ListEmpty, InitWritten, InitRefused, Adopt,
       UploadRefused, CommitWritten, CommitRefused, RereadCommitted, TypeInv, TypeOK
  <2>2. \/ pc'[j] \in {"fetch", "list", "init", "init_reread", "files"}
        \/ /\ ~Idle(j) /\ run'[j] = run[j]
           /\ \/ pc[j] = "upload" /\ pc'[j] = "upload_reread"
              \/ pc[j] = "commit" /\ pc'[j] = "reread"
              \/ /\ Committing(j) /\ pc'[j] = "clean"
                 /\ intent[j] \in {pointer, pointer'}
    BY <1>a DEF Start, FetchPointer, ListEmpty, InitWritten, InitRefused, Adopt,
       UploadRefused, CommitWritten, CommitRefused, RereadCommitted, TypeInv, TypeOK
  <2>3. JobMoves(j)
    BY <2>1, <2>2 DEF JobMoves
  <2> QED BY <2>1, <2>3, <1>u
<1>b. ASSUME NEW j \in Jobs, PlanRefresh(j) PROVE JobsMove
  <2>1. /\ \A i \in Jobs : i # j => Undisturbed(i)
        /\ UNCHANGED <<lateCommits, lateDeletes, doomed, run, dry>>
        /\ pc[j] = "files" /\ pc'[j] = IF dry[j] THEN "clean" ELSE "commit"
        /\ intent'[j] = Refreshed(j)
    BY <1>b DEF Undisturbed, PlanRefresh, TypeInv, TypeOK
  <2>2. JobMoves(j)
    BY <2>1 DEF JobMoves, Refreshed, Keeps
  <2> QED BY <2>1, <2>2, <1>u
<1>c. ASSUME NEW j \in Jobs, NEW nodes \in Rendered(want[j]), PlanGeneration(j, nodes)
      PROVE  JobsMove
  <2>1. /\ \A i \in Jobs : i # j => Undisturbed(i)
        /\ UNCHANGED <<lateCommits, lateDeletes, doomed, run, dry>>
        /\ pc[j] = "files" /\ pc'[j] = IF dry[j] THEN "clean" ELSE "upload"
        /\ intent'[j] = NewPointer(j, nodes) /\ todo'[j] = want[j]
    BY <1>c DEF Undisturbed, PlanGeneration, TypeInv, TypeOK
  <2>2. \A h \in Hosts : nodes[h] # None => h \in want[j]
    BY DEF Rendered
  <2>3. JobMoves(j)
    BY <2>1, <2>2 DEF JobMoves, NewPointer
  <2> QED BY <2>1, <2>3, <1>u
<1>d. ASSUME NEW j \in Jobs, NEW h \in Hosts, Uploading(j), Uploaded(j, h),
             files'[Key(run[j], h)] = Body(j, h),
             UNCHANGED <<lateVars, planVars, intent, doomed>>
      PROVE  JobsMove
  <2>1. /\ \A i \in Jobs : i # j => Undisturbed(i)
        /\ todo'[j] = todo[j] \ {h}
        /\ pc'[j] = IF todo[j] = {h} THEN "commit" ELSE "upload"
    BY <1>d DEF Undisturbed, Uploaded, TypeInv, TypeOK
  <2>2. JobMoves(j)
    BY <1>d, <2>1 DEF JobMoves, Body
  <2> QED BY <1>d, <2>1, <2>2, <1>u
<1>f. ASSUME NEW j \in Jobs, NEW h \in Hosts, UploadWritten(j, h) PROVE JobsMove
  <2>1. Key(run[j], h) \in Keys
    BY DEF TypeInv, TypeOK, Key, Keys
  <2>2. files'[Key(run[j], h)] = Body(j, h)
    BY <1>f, <2>1 DEF UploadWritten, TypeInv, TypeOK
  <2> QED BY <1>f, <2>2, <1>d DEF UploadWritten
<1>g. ASSUME NEW j \in Jobs, NEW h \in Hosts, UploadReread(j, h) PROVE JobsMove
  <2>1. CASE files[Key(run[j], h)] = Body(j, h)
    BY <1>g, <2>1, <1>d DEF UploadReread
  <2>2. CASE files[Key(run[j], h)] # Body(j, h)
    BY <1>g, <2>2, <1>e DEF UploadReread
  <2> QED BY <2>1, <2>2
<1>h. ASSUME NEW j \in Jobs, CommitLost(j) PROVE JobsMove
  BY <1>h DEF CommitLost, JobsMove, JobMoves
<1>i. ASSUME NEW j \in Jobs, RereadBaseline(j) PROVE JobsMove
  <2>1. CASE rounds[j] >= MaxPointerRetries
    BY <1>i, <2>1, <1>e, ConstantsAssumption DEF RereadBaseline, TypeInv, TypeOK
  <2>2. CASE ~(rounds[j] >= MaxPointerRetries)
    <3>1. /\ \A i \in Jobs : i # j => Undisturbed(i)
          /\ UNCHANGED <<lateCommits, lateDeletes, doomed, run, dry, intent>>
          /\ pc[j] = "reread" /\ pc'[j] = "commit"
      BY <1>i, <2>2 DEF Undisturbed, RereadBaseline, TypeInv, TypeOK
    <3>2. JobMoves(j)
      BY <3>1 DEF JobMoves
    <3> QED BY <3>1, <3>2, <1>u
  <2> QED BY <2>1, <2>2
<1>j. ASSUME NEW j \in Jobs, InitReread(j) PROVE JobsMove
  <2>1. CASE pointer = None
    BY <1>j, <2>1, <1>e DEF InitReread
  <2>2. CASE pointer # None
    <3>1. /\ \A i \in Jobs : i # j => Undisturbed(i)
          /\ UNCHANGED <<lateCommits, lateDeletes, doomed>>
          /\ pc'[j] = "files"
      BY <1>j, <2>2 DEF Undisturbed, InitReread, Adopt, TypeInv, TypeOK
    <3>2. JobMoves(j)
      BY <3>1 DEF JobMoves
    <3> QED BY <3>1, <3>2, <1>u
  <2> QED BY <2>1, <2>2
<1>k. ASSUME NEW j \in Jobs, CleanList(j) PROVE JobsMove
  <2>1. CASE dry[j]
    BY <1>k, <2>1, <1>e DEF CleanList
  <2>2. CASE ~dry[j]
    <3>1. /\ \A i \in Jobs : i # j => Undisturbed(i)
          /\ UNCHANGED <<lateCommits, lateDeletes, run, dry, intent>>
          /\ pc[j] = "clean" /\ pc'[j] = "delete" /\ doomed'[j] = Expired(j)
      BY <1>k, <2>2 DEF Undisturbed, CleanList, TypeInv, TypeOK
    <3>2. JobMoves(j)
      BY <2>2, <3>1 DEF JobMoves
    <3> QED BY <3>1, <3>2, <1>u
  <2> QED BY <2>1, <2>2
<1>l. ASSUME NEW j \in Jobs, NEW k \in Keys, DeleteDone(j, k) PROVE JobsMove
  <2>1. /\ \A i \in Jobs : i # j => Undisturbed(i)
        /\ UNCHANGED <<lateCommits, lateDeletes, run, dry, intent>>
        /\ pc[j] = "delete" /\ pc'[j] = "delete" /\ doomed'[j] = doomed[j] \ {k}
    BY <1>l DEF Undisturbed, DeleteDone, TypeInv, TypeOK
  <2>2. JobMoves(j)
    BY <2>1 DEF JobMoves
  <2> QED BY <2>1, <2>2, <1>u
<1>m. ASSUME NEW j \in Jobs, NEW k \in Keys, DeleteLost(j, k) PROVE JobsMove
  BY <1>m DEF DeleteLost, JobsMove, JobMoves
<1>n. ASSUME NEW j \in Jobs,
             \/ ListOrphaned(j) \/ FilesMissing(j) \/ RereadConflict(j)
             \/ CleanDone(j) \/ Fail(j)
      PROVE  JobsMove
  BY <1>n, <1>e DEF ListOrphaned, FilesMissing, RereadConflict, CleanDone, Fail
<1>o. ASSUME NEW j \in Jobs, InitLost(j) PROVE JobsMove
  BY <1>o, <1>s DEF InitLost
<1>p. ASSUME NEW j \in Jobs, NEW h \in Hosts, UploadLost(j, h) PROVE JobsMove
  BY <1>p, <1>s DEF UploadLost
<1>q. CASE Land
  BY <1>q, <1>s DEF Land, LandInit, LandCommit, LandPut, LandDelete
<1>r. ASSUME NEW k \in Keys, Age(k) PROVE JobsMove
  BY <1>r, <1>s DEF Age
<1>t. CASE UNCHANGED vars
  BY <1>t, <1>s DEF vars
<1> QED
  BY <1>a, <1>b, <1>c, <1>f, <1>g, <1>h, <1>i, <1>j, <1>k, <1>l, <1>m, <1>n, <1>o,
     <1>p, <1>q, <1>r, <1>t, Zenon DEF Next, JobStep

-----------------------------------------------------------------------------
(***************************************************************************)
(* What may be served from one step to the next.                           *)
(***************************************************************************)
\* Job i has just planned d against the pointer.
PlannedNow(i, d) ==
  /\ Planning(i)
  /\ d.current # None => d.current.id = run[i] \/ d.current = pointer.current
  /\ \A e \in EntriesOf(d) : e.id = run[i] \/ e \in EntriesOf(pointer)

\* A job that plans, and may still commit, plans against the pointer.
LEMMA PlansOnPointer ==
  ASSUME TypeInv, RaceInv, NEW j \in Jobs, InHand(j), Live(etag[j])
  PROVE  base[j] = pointer
<1>1. base[j] \in CurrentJson /\ base[j].revision = pointer.revision /\ pointer # None
  BY DEF InHand, Live, RaceInv, Planned
<1>2. base[j] \in Documents /\ pointer \in Documents
  BY <1>1, SomeDocuments, NoneAssumption
<1> QED BY <1>1, <1>2 DEF RaceInv, OneDocument

\* After the pointer has changed it is all that may be served.
LEMMA ServeChanged ==
  ASSUME TypeInv, RaceInv, HistoryInv, InitsEmpty, [Next]_vars, pointer' # pointer,
         NEW d, MayServe(d)'
  PROVE  /\ d = pointer'
         /\ pointer = None => EntriesOf(d) = {}
         /\ pointer # None => MayServe(d)
<1>p. PICK past \in SUBSET Nat : Overtaken(past)
  BY DEF HistoryInv
<1>i. \A j \in Jobs : Writing(j)' => InHand(j)'
  BY DEF Writing, InHand
<1>1. CASE pointer = None
  <2>0. lateCommits = {} /\ \A j \in Jobs : ~InHand(j)
    BY <1>1, <1>p DEF Overtaken
  <2>1. ASSUME NEW j \in Jobs, InitWritten(j)
        PROVE  lateCommits' = {} /\ \A i \in Jobs : ~Writing(i)'
    BY <2>0, <2>1 DEF InitWritten, Adopt, InHand, Writing, Uploading, Committing,
       TypeInv, TypeOK
  <2>2. ASSUME NEW doc \in lateInits, LandInit(doc)
        PROVE  lateCommits' = {} /\ \A i \in Jobs : ~Writing(i)'
    BY <2>0, <2>2 DEF LandInit, InHand, Writing, Uploading, Committing
  <2>3. \A j \in Jobs : ~CommitWritten(j)
    BY <1>1 DEF CommitWritten
  <2>4. lateCommits' = {} /\ \A i \in Jobs : ~Writing(i)'
    BY <2>0, <2>1, <2>2, <2>3, PointerWriters
  <2>5. d = pointer'
    BY <2>4 DEF MayServe
  <2>6. pointer'.current = None /\ pointer'.previous = None
    BY <1>1, PointerStep
  <2> QED BY <1>1, <2>5, <2>6 DEF EntriesOf
<1>2. CASE pointer # None
  <2>1. /\ pointer' # None
        /\ pointer'.revision \notin past \cup {pointer.revision}
        /\ \A c \in lateCommits' : c.etag \in past \cup {pointer.revision}
        /\ \A i \in Jobs : InHand(i)' => etag'[i] \in past \cup {pointer.revision}
    BY <1>2, <1>p, NothingLive
  <2>2. d = pointer'
    BY <1>i, <2>1 DEF MayServe, Live
  <2>3. ASSUME NEW j \in Jobs, CommitWritten(j) PROVE MayServe(pointer')
    BY <2>3 DEF CommitWritten, MayServe, Writing, Committing, Live, ETag
  <2>4. ASSUME NEW c \in lateCommits, LandCommit(c) PROVE MayServe(pointer')
    BY <2>4 DEF LandCommit, MayServe, Live, ETag
  <2>5. /\ \A j \in Jobs : ~InitWritten(j)
        /\ \A doc \in lateInits : ~LandInit(doc)
    BY <1>2 DEF InitWritten, LandInit
  <2>6. MayServe(pointer')
    BY <2>3, <2>4, <2>5, PointerWriters
  <2> QED BY <1>2, <2>2, <2>6
<1> QED BY <1>1, <1>2

\* While the pointer stays, only planning adds what may be served.
LEMMA ServeSame ==
  ASSUME TypeInv, TypeInv', RaceInv, [Next]_vars, pointer' = pointer,
         NEW d, MayServe(d)'
  PROVE  pointer # None /\ (MayServe(d) \/ \E i \in Jobs : PlannedNow(i, d))
<1>0. HandsStep /\ JobsMove /\ pointer # None
  BY HandsAlways, JobsAlways DEF MayServe
<1>1. CASE d = pointer'
  BY <1>0, <1>1 DEF MayServe
<1>2. ASSUME NEW c \in lateCommits', Live(c.etag)', d = c.doc PROVE MayServe(d)
  <2>1. Live(c.etag)
    BY <1>2 DEF Live
  <2>2. CASE c \in lateCommits
    BY <1>0, <1>2, <2>1, <2>2 DEF MayServe
  <2>3. CASE c \notin lateCommits
    <3>1. PICK j \in Jobs : Committing(j) /\ c.etag = etag[j] /\ c.doc = intent[j]
      BY <1>0, <2>3 DEF JobsMove
    <3> QED BY <1>0, <1>2, <2>1, <3>1 DEF MayServe, Writing
  <2> QED BY <2>2, <2>3
<1>3. ASSUME NEW j \in Jobs, Writing(j)', etag'[j] = pointer.revision, d = intent'[j]
      PROVE  MayServe(d) \/ PlannedNow(j, d)
  <2>1. JobMoves(j) /\ HandStep(j)
    BY <1>0 DEF JobsMove, HandsStep
  <2>2. CASE Writing(j)
    <3>1. intent'[j] = intent[j] /\ etag'[j] = etag[j]
      BY <1>3, <2>1, <2>2 DEF JobMoves, HandStep, Planning, Writing, Uploading, Committing
    <3> QED BY <1>0, <1>3, <2>2, <3>1 DEF MayServe, Live
  <2>3. CASE ~Writing(j)
    <3>1. /\ pc[j] = "files" /\ ~dry[j] /\ etag'[j] = etag[j]
          /\ Committing(j)' => Keeps(intent'[j], base[j])
          /\ Uploading(j)' => /\ intent'[j].current.id = run[j]
                              /\ intent'[j].previous = base[j].current
      BY <1>3, <2>1, <2>3 DEF JobMoves, HandStep
    <3>2. base[j] = pointer
      BY <1>0, <1>3, <3>1, PlansOnPointer DEF InHand, Live
    <3>3. \A e \in EntriesOf(d) : e.id = run[j] \/ e \in EntriesOf(pointer)
      BY <1>3, <3>1, <3>2 DEF EntriesOf, Keeps, Writing
    <3>4. d.current # None => d.current.id = run[j] \/ d.current = pointer.current
      BY <1>3, <3>1, <3>2 DEF Keeps, Writing
    <3> QED BY <3>1, <3>3, <3>4 DEF PlannedNow, Planning
  <2> QED BY <2>2, <2>3
<1> QED BY <1>0, <1>1, <1>2, <1>3 DEF MayServe, Live

\* A job that has published has done so in this step, by changing the
\* pointer to its document, or earlier.
LEMMA PublishedStep ==
  ASSUME TypeInv, TypeInv', RaceInv, [Next]_vars, NEW j \in Jobs, Published(j)'
  PROVE  /\ ~Idle(j) /\ ~Idle(j)'
         /\ \/ Published(j) /\ intent'[j] = intent[j]
            \/ pointer' # pointer /\ pointer' = intent'[j]
<1>0. JobMoves(j)
  BY JobsAlways DEF JobsMove
<1>1. CASE Cleaning(j)'
  BY <1>0, <1>1 DEF JobMoves, Published, Writing, Cleaning
<1>2. CASE Writing(j)' /\ pointer' = intent'[j]
  <2>1. ~Idle(j) /\ ~Idle(j)'
    BY <1>0, <1>2 DEF JobMoves, Writing, Uploading, Committing
  <2>2. ASSUME pointer' = pointer PROVE Published(j) /\ intent'[j] = intent[j]
    <3>1. CASE Writing(j) /\ intent'[j] = intent[j]
      BY <1>2, <2>2, <3>1 DEF Published
    <3>2. CASE pc[j] = "files" /\ intent'[j].revision = NewRevision(run[j])
      <4>1. pointer # None
        BY <1>2, <2>2, NoneAssumption DEF TypeInv, Shape, Writing
      <4>2. pointer \in Documents /\ Unused(run[j])
        BY <3>2, <4>1, SomeDocuments DEF RaceInv, RunsFresh, Planning
      <4> QED BY <1>2, <2>2, <3>2, <4>2 DEF Unused
    <3> QED BY <1>0, <1>2, <3>1, <3>2 DEF JobMoves
  <2> QED BY <1>2, <2>1, <2>2
<1> QED BY <1>1, <1>2 DEF Published

\* What may be served is a document.
LEMMA ServedDocument ==
  ASSUME TypeInv, NEW d, MayServe(d)
  PROVE  d \in Documents
BY SomeDocuments, NoneAssumption DEF MayServe, Writing, TypeInv, Shape

\* The entries of what may be served are in the retained set.
LEMMA RetainedEntries ==
  ASSUME TypeInv, NEW d \in Documents, NEW id
  PROVE  id \in Retained(d) <=> \E e \in EntriesOf(d) : e.id = id
BY DocumentType DEF Retained, EntriesOf, GenerationEntry

\* What is too young for a job to delete stays so, and a generation that
\* nothing is stored of is too young.
LEMMA YoungStep ==
  ASSUME ObjectsMove, NEW j \in Jobs, ~Idle(j), ~Idle(j)', NEW id,
         Young(j, id) \/ \A k \in Keys : k[1] = id => files[k] = None
  PROVE  Young(j, id)'
BY DEF ObjectsMove, Young

\* A job that has published goes on covering what may be served.
LEMMA CoverStep ==
  ASSUME Graced, TypeInv, RaceInv, HistoryInv, InitsEmpty, CoverInv, [Next]_vars
  PROVE  CoverInv'
<1>t. TypeInv'
  BY StepType
<1>o. ObjectsMove
  BY ObjectsAlways
<1> SUFFICES ASSUME NEW j \in Jobs, Published(j)'
             PROVE  pointer' # None /\ \A d : MayServe(d)' => Covered(j, d)'
  BY DEF CoverInv
<1>0. /\ ~Idle(j) /\ ~Idle(j)'
      /\ \/ Published(j) /\ intent'[j] = intent[j]
         \/ pointer' # pointer /\ pointer' = intent'[j]
  BY <1>t, PublishedStep
<1>1. CASE pointer' # pointer /\ pointer' = intent'[j]
  <2>1. pointer' # None
    BY <1>1, PointerStep
  <2>2. ASSUME NEW d, MayServe(d)' PROVE Covered(j, d)'
    <3>1. d = pointer' /\ d \in CurrentJson
      BY <1>1, <1>t, <2>1, <2>2, ServeChanged DEF TypeInv, TypeOK
    <3>2. \A e \in EntriesOf(d) : e.id \in Retained(d)
      <4>1. EntriesOf(d) \subseteq GenerationEntry
        BY <3>1 DEF EntriesOf, CurrentJson
      <4> QED BY <4>1 DEF EntriesOf, Retained, GenerationEntry
    <3> QED BY <1>1, <3>1, <3>2 DEF Covered, EntriesOf, Retained
  <2> QED BY <2>1, <2>2
<1>2. CASE Published(j) /\ intent'[j] = intent[j]
  <2>0. pointer # None /\ \A d \in Documents : MayServe(d) => Covered(j, d)
    BY <1>2 DEF CoverInv
  <2>1. pointer' # None
    BY <2>0, PointerStep
  <2>2. ASSUME NEW d, \A e \in EntriesOf(d) :
                        \/ e.id \in Retained(intent[j]) \/ Young(j, e.id)
                        \/ \A k \in Keys : k[1] = e.id => files[k] = None
        PROVE  Covered(j, d)'
    <3>1. ASSUME NEW e \in EntriesOf(d), e.id \notin Retained(intent[j])
          PROVE  Young(j, e.id)'
      <4>1. \A id : id = e.id => Young(j, id)'
        BY <1>0, <1>o, <2>2, <3>1, YoungStep
      <4> QED BY <4>1
    <3> QED BY <1>2, <3>1 DEF Covered, Retained, EntriesOf
  <2>3. ASSUME NEW d, MayServe(d) PROVE Covered(j, d)'
    BY <2>0, <2>2, <2>3, ServedDocument DEF Covered
  <2>4. ASSUME NEW d, NEW i \in Jobs, PlannedNow(i, d) PROVE Covered(j, d)'
    <3>1. \A k \in Keys : k[1] = run[i] => files[k] = None
      BY <2>4 DEF PlannedNow, RaceInv, RunsFresh, Unused
    <3>2. \A e \in EntriesOf(pointer) : e.id \in Retained(intent[j]) \/ Young(j, e.id)
      BY <2>0, SomeDocuments DEF Covered, MayServe
    <3> QED BY <2>2, <2>4, <3>1, <3>2 DEF PlannedNow
  <2>5. ASSUME NEW d, MayServe(d)' PROVE Covered(j, d)'
    <3>1. CASE pointer' # pointer
      BY <2>0, <2>3, <2>5, <3>1, ServeChanged
    <3>2. CASE pointer' = pointer
      BY <1>t, <2>3, <2>4, <2>5, <3>2, ServeSame
    <3> QED BY <3>1, <3>2
  <2> QED BY <2>1, <2>5
<1> QED BY <1>0, <1>1, <1>2

\* No deletion comes to hit what may be served.
LEMMA DeletesStep ==
  ASSUME Graced, TypeInv, RaceInv, HistoryInv, InitsEmpty, AgeInv, CoverInv, DeletesSpare,
         [Next]_vars
  PROVE  DeletesSpare'
<1>t. TypeInv' /\ JobsMove
  BY StepType, JobsAlways
<1> DEFINE Hit(k) == k \in lateDeletes \/ \E j \in Jobs :
                       k \in doomed[j] \/ (Cleaning(j) /\ k \in Expired(j))
<1>1. /\ \A j \in Jobs : \A k \in doomed'[j] : Hit(k)
      /\ \A k \in lateDeletes' : Hit(k)
  BY <1>t DEF JobsMove, JobMoves
<1>2. ASSUME NEW d, MayServe(d), NEW k, Hit(k), NEW e \in EntriesOf(d) PROVE k[1] # e.id
  <2>0. d \in Documents /\ e.id \in Retained(d)
    BY <1>2, ServedDocument, RetainedEntries
  <2>1. CASE k \in lateDeletes \/ \E j \in Jobs : k \in doomed[j]
    BY <1>2, <2>0, <2>1 DEF DeletesSpare
  <2>2. ASSUME NEW j \in Jobs, Cleaning(j), k \in Expired(j) PROVE k[1] # e.id
    <3>1. e.id \in Retained(intent[j]) \/ Young(j, e.id)
      BY <1>2, <2>0, <2>2 DEF CoverInv, Published, Covered
    <3>2. /\ k \in Keys /\ files[k] # None /\ k[1] \notin Retained(intent[j])
          /\ k \notin since[j]
      BY <2>2 DEF Expired, AgeInv, NeverZero, SeenIsYoung
    <3> QED BY <3>1, <3>2 DEF Young
  <2> QED BY <1>2, <2>1, <2>2
<1>3. ASSUME pointer # None, NEW i \in Jobs, NEW d, PlannedNow(i, d), NEW k, Hit(k),
             NEW e \in EntriesOf(d)
      PROVE  k[1] # e.id
  <2>1. CASE e \in EntriesOf(pointer)
    BY <1>2, <1>3, <2>1 DEF MayServe
  <2>2. CASE e.id = run[i]
    <3>1. CASE k \in lateDeletes \/ \E j \in Jobs : k \in doomed[j]
      BY <1>3, <2>2, <3>1 DEF AgeInv, LiveRunsSpared, PlannedNow, Planning
    <3>2. ASSUME NEW j \in Jobs, k \in Expired(j) PROVE k[1] # e.id
      BY <1>3, <2>2, <3>2 DEF Expired, RaceInv, RunsFresh, Unused, PlannedNow
    <3> QED BY <1>3, <3>1, <3>2
  <2> QED BY <1>3, <2>1, <2>2 DEF PlannedNow
<1>4. ASSUME NEW d, MayServe(d)', NEW k, Hit(k), NEW e \in EntriesOf(d) PROVE k[1] # e.id
  <2>1. CASE pointer' # pointer
    BY <1>2, <1>4, <2>1, ServeChanged
  <2>2. CASE pointer' = pointer
    BY <1>2, <1>3, <1>4, <1>t, <2>2, ServeSame
  <2> QED BY <2>1, <2>2
<1>5. ASSUME NEW d \in Documents', NEW id PROVE id \in Retained(d) => \E e \in EntriesOf(d) : e.id = id
  BY DEF Retained, EntriesOf
<1> QED BY <1>1, <1>4, <1>5 DEF DeletesSpare, Retained, EntriesOf

-----------------------------------------------------------------------------
(***************************************************************************)
(* What may be served is stored.                                           *)
(***************************************************************************)
\* A file of what may be served stays where it is.
LEMMA FileStays ==
  ASSUME Graced, TypeInv, DeletesSpare, [Next]_vars, NEW d, MayServe(d),
         NEW e \in EntriesOf(d), NEW h \in Hosts, files[Key(e.id, h)] # None
  PROVE  files'[Key(e.id, h)] = files[Key(e.id, h)]
<1>1. d \in Documents /\ e.id \in Retained(d)
  BY ServedDocument, RetainedEntries
<1>2. Key(e.id, h) \in Keys /\ Key(e.id, h)[1] = e.id
  BY <1>1, DocumentType DEF Key, Keys, GenerationEntry
<1>3. /\ Key(e.id, h) \notin lateDeletes
      /\ \A j \in Jobs : Key(e.id, h) \notin doomed[j]
  BY <1>1, <1>2 DEF DeletesSpare
<1> QED BY <1>2, <1>3, ObjectsAlways DEF ObjectsMove

\* So an entry of it whose files are all stored keeps them.
LEMMA EntryStays ==
  ASSUME Graced, TypeInv, DeletesSpare, [Next]_vars, NEW d, MayServe(d),
         NEW e, e = d.current \/ e = d.previous, Intact(e, Hosts)
  PROVE  Intact(e, Hosts)'
<1>1. CASE e = None
  BY <1>1 DEF Intact
<1>2. CASE e # None
  <2>1. e \in EntriesOf(d) /\ e.nodes \in NodeMap
    BY <1>2, ServedDocument, DocumentType DEF EntriesOf, GenerationEntry
  <2>2. ASSUME NEW h \in Hosts, e.nodes[h] # None PROVE files'[Key(e.id, h)] = e.nodes[h]
    BY <1>2, <2>1, <2>2, FileStays DEF Intact
  <2> QED BY <2>2 DEF Intact
<1> QED BY <1>1, <1>2

\* And a complete document stays complete.
LEMMA CompleteStays ==
  ASSUME Graced, TypeInv, DeletesSpare, [Next]_vars, NEW d, MayServe(d), Complete(d)
  PROVE  Complete(d)'
<1>1. \A e : (e = d.current \/ e = d.previous) /\ Intact(e, Hosts) => Intact(e, Hosts)'
  BY EntryStays
<1> QED BY <1>1 DEF Complete

\* What is uploaded of a document that may be served stays, and its job
\* goes on to commit only when all of it is there.
LEMMA StagedStep ==
  ASSUME Graced, TypeInv, TypeInv', RaceInv, DeletesSpare, IntactInv,
         [Next]_vars, pointer' = pointer, NEW j \in Jobs, Writing(j)', Live(etag[j])'
  PROVE  /\ Uploading(j)' =>
              /\ \A h \in Hosts : intent'[j].current.nodes[h] # None /\ h \notin todo'[j] =>
                   files'[Key(run'[j], h)] = intent'[j].current.nodes[h]
              /\ Intact(intent[j].previous, Hosts)'
         /\ Committing(j)' => Complete(intent[j])'
<1>0. /\ JobMoves(j) /\ HandStep(j) /\ pointer # None /\ etag'[j] = pointer.revision
      /\ run'[j] = run[j]
  BY HandsAlways, JobsAlways DEF JobsMove, JobMoves, HandsStep, Live
<1>p. MayServe(pointer) /\ Complete(pointer) /\ Complete(pointer)'
  <2>1. MayServe(pointer) /\ Complete(pointer)
    BY <1>0 DEF MayServe, IntactInv, PointerIntact, Complete
  <2>2. \A d : d = pointer => Complete(d)'
    BY <2>1, CompleteStays
  <2> QED BY <2>1, <2>2 DEF Complete
<1>1. CASE Writing(j)
  <2>0. /\ etag[j] = pointer.revision /\ intent'[j] = intent[j] /\ Live(etag[j])
        /\ Committing(j) => Committing(j)'
        /\ Uploading(j) => \A h \in todo[j] :
             \/ Uploading(j)' /\ h \in todo'[j]
             \/ files'[Key(run[j], h)] = intent[j].current.nodes[h]
    BY <1>0, <1>1 DEF JobMoves, HandStep, Planning, Writing, Uploading, Committing, Live
  <2>s. MayServe(intent[j])
    BY <1>0, <1>1, <2>0 DEF MayServe
  <2>1. CASE Committing(j)
    <3>1. \A d : d = intent[j] => Complete(d)'
      BY <2>0, <2>1, <2>s, CompleteStays DEF IntactInv, StagedFiles
    <3>2. ~Uploading(j)'
      BY <2>0, <2>1 DEF Uploading, Committing
    <3> QED BY <2>0, <3>1, <3>2 DEF Complete
  <2>2. CASE Uploading(j)
    <3>0. /\ intent[j].current.id = run[j] /\ intent[j].current \in EntriesOf(intent[j])
          /\ intent[j].current # None
      BY <2>2, NoneAssumption DEF RaceInv, Planned, TypeInv, Shape, EntriesOf
    <3>1. \A e : e = intent[j].previous => Intact(e, Hosts)'
      BY <2>0, <2>2, <2>s, EntryStays DEF IntactInv, StagedFiles
    <3>2. ASSUME NEW h \in Hosts, intent[j].current.nodes[h] # None,
                 ~(Uploading(j)' /\ h \in todo'[j])
          PROVE  files'[Key(run[j], h)] = intent[j].current.nodes[h]
      <4>1. CASE h \in todo[j]
        BY <2>0, <2>2, <3>2, <4>1
      <4>2. CASE h \notin todo[j]
        <5>1. files[Key(run[j], h)] = intent[j].current.nodes[h]
          BY <2>0, <2>2, <3>2, <4>2 DEF IntactInv, StagedFiles
        <5> QED BY <2>s, <3>0, <3>2, <5>1, FileStays
      <4> QED BY <4>1, <4>2
    <3>3. Intact(intent[j].previous, Hosts)'
      BY <2>0, <3>1
    <3>4. Committing(j)' => Complete(intent[j])'
      <4>1. Committing(j)' => ~Uploading(j)'
        BY DEF Committing, Uploading
      <4> QED BY <2>0, <3>0, <3>2, <3>3, <4>1 DEF Complete, Intact
    <3> QED BY <1>0, <2>0, <3>2, <3>3, <3>4
  <2> QED BY <1>1, <2>1, <2>2 DEF Writing
<1>2. CASE ~Writing(j)
  <2>0. /\ pc[j] = "files" /\ ~dry[j] /\ etag[j] = pointer.revision
        /\ Committing(j)' => Keeps(intent'[j], base[j])
        /\ Uploading(j)' => /\ intent'[j].previous = base[j].current
                            /\ \A h \in Hosts :
                                 intent'[j].current.nodes[h] # None => h \in todo'[j]
    BY <1>0, <1>2 DEF JobMoves, HandStep
  <2>1. base[j] = pointer
    BY <1>0, <2>0, PlansOnPointer DEF InHand, Live
  <2> QED BY <1>p, <2>0, <2>1 DEF Complete, Intact, Keeps
<1> QED BY <1>1, <1>2

\* The pointer, the commits in flight and the jobs' documents stay stored.
LEMMA IntactStep ==
  ASSUME Graced, TypeInv, RaceInv, HistoryInv, InitsEmpty, DeletesSpare, IntactInv,
         [Next]_vars
  PROVE  IntactInv'
<1>t. TypeInv' /\ JobsMove
  BY StepType, JobsAlways
<1>1. CASE pointer' = pointer
  <2>1. PointerIntact'
    <3>1. pointer # None => \A d : d = pointer => Complete(d)'
      BY CompleteStays DEF IntactInv, PointerIntact, Complete, MayServe
    <3> QED BY <1>1, <3>1 DEF PointerIntact, Complete
  <2>2. LateCommitsComplete'
    <3> SUFFICES ASSUME NEW c \in lateCommits', Live(c.etag)' PROVE Complete(c.doc)'
      BY DEF LateCommitsComplete
    <3>0. pointer # None /\ Live(c.etag)
      BY <1>1 DEF Live
    <3>1. CASE c \in lateCommits
      <4>1. MayServe(c.doc) /\ Complete(c.doc)
        BY <3>0, <3>1 DEF MayServe, IntactInv, LateCommitsComplete
      <4>2. \A d : d = c.doc => Complete(d)'
        BY <4>1, CompleteStays
      <4> QED BY <4>2
    <3>2. CASE c \notin lateCommits
      <4>0. PICK j \in Jobs : Committing(j) /\ c.etag = etag[j] /\ c.doc = intent[j]
        BY <1>t, <3>2 DEF JobsMove
      <4>1. MayServe(c.doc) /\ Complete(c.doc)
        BY <3>0, <4>0 DEF MayServe, Writing, IntactInv, StagedFiles
      <4>2. \A d : d = c.doc => Complete(d)'
        BY <4>1, CompleteStays
      <4> QED BY <4>2
    <3> QED BY <3>1, <3>2
  <2>3. StagedFiles'
    BY <1>1, <1>t, StagedStep DEF StagedFiles, Writing
  <2> QED BY <2>1, <2>2, <2>3 DEF IntactInv
<1>2. CASE pointer' # pointer
  <2>0. /\ pointer' # None
        /\ \A d : MayServe(d)' => d = pointer'
    BY <1>2, PointerStep, ServeChanged
  <2>1. /\ \A c \in lateCommits' : Live(c.etag)' => c.doc = pointer'
        /\ \A j \in Jobs : Writing(j)' /\ Live(etag[j])' => FALSE
    <3>1. PICK past \in SUBSET Nat : Overtaken(past)
      BY DEF HistoryInv
    <3>2. CASE pointer # None
      <4>1. /\ pointer'.revision \notin past \cup {pointer.revision}
            /\ \A c \in lateCommits' : c.etag \in past \cup {pointer.revision}
            /\ \A i \in Jobs : InHand(i)' => etag'[i] \in past \cup {pointer.revision}
        BY <1>2, <3>1, <3>2, NothingLive
      <4> QED BY <4>1 DEF Live, InHand, Writing
    <3>3. CASE pointer = None
      <4>1. Overtaken(past)' /\ past = {}
        BY <1>2, <1>t, <3>1, <3>3, PastBegins DEF Overtaken
      <4>2. \A j \in Jobs : ~Writing(j)'
        <5>0. \A j \in Jobs : ~InHand(j)
          BY <3>1, <3>3 DEF Overtaken
        <5>1. ASSUME NEW j \in Jobs, InitWritten(j) PROVE \A i \in Jobs : ~Writing(i)'
          BY <5>0, <5>1 DEF InitWritten, Adopt, InHand, Writing, Uploading, Committing,
             TypeInv, TypeOK
        <5>2. ASSUME NEW doc \in lateInits, LandInit(doc) PROVE \A i \in Jobs : ~Writing(i)'
          BY <5>0, <5>2 DEF LandInit, InHand, Writing, Uploading, Committing
        <5>3. ~\E j \in Jobs : CommitWritten(j)
          BY <3>3 DEF CommitWritten
        <5>4. lateCommits = {}
          BY <3>1, <3>3 DEF Overtaken
        <5> QED BY <1>2, <5>1, <5>2, <5>3, <5>4, PointerWriters
      <4> QED BY <2>0, <4>2 DEF MayServe
    <3> QED BY <3>2, <3>3
  <2>2. Complete(pointer)'
    <3>1. CASE pointer = None
      <4>1. pointer'.current = None /\ pointer'.previous = None
        BY <1>2, <3>1, PointerStep
      <4> QED BY <4>1 DEF Complete, Intact
    <3>2. ASSUME NEW j \in Jobs, CommitWritten(j) PROVE Complete(pointer)'
      <4>1. Complete(intent[j])
        BY <3>2 DEF CommitWritten, Committing, Live, ETag, IntactInv, StagedFiles
      <4> QED BY <3>2, <4>1 DEF CommitWritten, Complete, Intact
    <3>3. ASSUME NEW c \in lateCommits, LandCommit(c) PROVE Complete(pointer)'
      <4>1. Complete(c.doc)
        BY <1>2, <3>3 DEF LandCommit, Live, ETag, IntactInv, LateCommitsComplete
      <4> QED BY <1>2, <3>3, <4>1 DEF LandCommit, Complete, Intact
    <3>4. pointer # None => /\ \A j \in Jobs : ~InitWritten(j)
                            /\ \A doc \in lateInits : ~LandInit(doc)
      BY <1>2 DEF InitWritten, LandInit
    <3> QED BY <1>2, <3>1, <3>2, <3>3, <3>4, PointerWriters
  <2>3. LateCommitsComplete'
    <3>1. \A d : d = pointer' => Complete(d)'
      BY <2>2 DEF Complete
    <3> QED BY <2>1, <3>1 DEF LateCommitsComplete
  <2>4. StagedFiles' /\ PointerIntact'
    BY <2>1, <2>2 DEF StagedFiles, Writing, PointerIntact, Complete
  <2> QED BY <2>3, <2>4 DEF IntactInv
<1> QED BY <1>1, <1>2

\* All of this holds of the empty bucket.
LEMMA InitOverlap == Init => CoverInv /\ DeletesSpare /\ IntactInv /\ InitsEmpty
BY DEF Init, CoverInv, DeletesSpare, IntactInv, InitsEmpty, Published, Cleaning, Writing,
   Uploading, Committing, StagedFiles, Live, LateCommitsComplete, PointerIntact

\* And throughout, under the discipline.
LEMMA OverlapHolds == Graced => (Spec => [](CoverInv /\ DeletesSpare /\ IntactInv))
<1>2. ASSUME Graced PROVE Spec => [](CoverInv /\ DeletesSpare /\ IntactInv)
  <2>1. TypeInv /\ RaceInv /\ HistoryInv /\ InitsEmpty /\ CoverInv /\ [Next]_vars => CoverInv'
    BY <1>2, CoverStep
  <2>2. TypeInv /\ RaceInv /\ HistoryInv /\ InitsEmpty /\ AgeInv /\ CoverInv /\ DeletesSpare
          /\ [Next]_vars => DeletesSpare'
    BY <1>2, DeletesStep
  <2>3. TypeInv /\ RaceInv /\ HistoryInv /\ InitsEmpty /\ DeletesSpare /\ IntactInv
          /\ [Next]_vars => IntactInv'
    BY <1>2, IntactStep
  <2>4. Spec => []AgeInv
    BY <1>2, AgeHolds
  <2> QED BY <2>1, <2>2, <2>3, <2>4, InitOverlap, InitsStep, HistoryHolds, RaceHolds,
             TypeCorrect, PTL DEF Spec
<1> QED BY <1>2

\* If every run of apply() ends before its objects expire and no run skips
\* the grace period, overlapping runs, lost requests that land late and
\* deletions by any of them leave every file that current.json names in the
\* bucket, with the digest it gives.
THEOREM OverlapKeepsFiles == Graced => (Spec => []PointerIntact)
<1>1. IntactInv => PointerIntact
  BY DEF IntactInv
<1>2. ASSUME Graced PROVE Spec => []PointerIntact
  BY <1>1, <1>2, OverlapHolds, PTL
<1> QED BY <1>2

-----------------------------------------------------------------------------
(***************************************************************************)
(* Atomic publication.                                                     *)
(***************************************************************************)
\* The entries hosts follow, and the node map of an entry.
Current  == IF pointer = None THEN None ELSE pointer.current
Previous == IF pointer = None THEN None ELSE pointer.previous
NodesOf(e) == IF e = None THEN [h \in Hosts |-> None] ELSE e.nodes

\* A host that follows an entry whose files are stored gets what it names.
LEMMA FollowIntact ==
  ASSUME NEW e \in GenerationEntry \cup {None}, Intact(e, Hosts)
  PROVE  Follow(e) = NodesOf(e)
BY NoneAssumption DEF Follow, NodesOf, Intact, GenerationEntry, NodeMap

\* What hosts get is what the pointer says.
ServedAsNamed ==
  Follow(Current) = NodesOf(Current) /\ Follow(Previous) = NodesOf(Previous)

\* It is, while the pointer's files are stored.
LEMMA ServedNodes == TypeInv /\ PointerIntact => ServedAsNamed
<1> SUFFICES ASSUME TypeInv, PointerIntact PROVE ServedAsNamed
  OBVIOUS
<1>1. /\ Current \in GenerationEntry \cup {None} /\ Intact(Current, Hosts)
      /\ Previous \in GenerationEntry \cup {None} /\ Intact(Previous, Hosts)
  BY DEF Current, Previous, TypeInv, TypeOK, CurrentJson, PointerIntact, Intact
<1> QED BY <1>1, FollowIntact DEF ServedAsNamed

\* A step publishes a whole set or changes nothing that hosts get.
LEMMA PublicationStep ==
  TypeInv /\ RaceInv /\ InitsEmpty /\ ServedAsNamed /\ ServedAsNamed' /\ [Next]_vars =>
    [P!Next]_(P!vars)
<1> SUFFICES ASSUME TypeInv, RaceInv, InitsEmpty, ServedAsNamed, ServedAsNamed', [Next]_vars
             PROVE  [P!Next]_(P!vars)
  OBVIOUS
<1>t. TypeInv'
  BY StepType
<1>1. /\ Follow(IF pointer = None THEN None ELSE pointer.current) = NodesOf(Current)
      /\ Follow(IF pointer = None THEN None ELSE pointer.previous) = NodesOf(Previous)
      /\ Follow(IF pointer = None THEN None ELSE pointer.current)' = NodesOf(Current)'
      /\ Follow(IF pointer = None THEN None ELSE pointer.previous)' = NodesOf(Previous)'
  BY DEF ServedAsNamed, Current, Previous
<1>2. \/ NodesOf(Current)' = NodesOf(Current) /\ NodesOf(Previous)' = NodesOf(Previous)
      \/ /\ NodesOf(Previous)' = NodesOf(Current)
         /\ NodesOf(Current)' \in P!Sets
  <2>1. CASE pointer' = pointer
    BY <2>1 DEF NodesOf, Current, Previous
  <2>2. CASE pointer' # pointer /\ pointer = None
    BY <2>2, PointerStep DEF NodesOf, Current, Previous
  <2>3. CASE pointer' # pointer /\ pointer # None /\ Keeps(pointer', pointer)
    BY <2>3, PointerStep DEF NodesOf, Current, Previous, Keeps
  <2>4. CASE pointer' # pointer /\ pointer # None /\ Demotes(pointer', pointer)
    <3>1. /\ pointer' # None /\ pointer'.current \in GenerationEntry
          /\ pointer'.previous = pointer.current
          /\ \E h \in Hosts : pointer'.current.nodes[h] # None
      BY <1>t, <2>4, PointerStep DEF Demotes, TypeInv, TypeOK, CurrentJson
    <3>2. pointer'.current.nodes \in P!Sets
      BY <3>1 DEF P!Sets, P!Nothing, GenerationEntry, NodeMap
    <3> QED BY <2>4, <3>1, <3>2, NoneAssumption DEF NodesOf, Current, Previous
  <2> QED BY <2>1, <2>2, <2>3, <2>4, PointerStep DEF Succeeds
<1> QED BY <1>1, <1>2 DEF P!Next, P!PublishSet, P!vars

\* An empty bucket serves nothing.
LEMMA PublicationInit == Init => P!Init
BY DEF Init, P!Init, P!Nothing, Follow

\* wg-server apply implements atomic publication: if the scheduler
\* serializes its runs, or if every run ends before its objects expire and
\* none skips the grace period, then uploads, lost and late requests,
\* failures and deletions change nothing of what hosts get, and a commit
\* changes it for all hosts at once.
THEOREM PublishImplementsPublication == Serialized \/ Graced => (Spec => AtomicPublication)
<1>1. ASSUME Serialized \/ Graced PROVE Spec => []PointerIntact
  BY <1>1, PublishedFilesPresent, OverlapKeepsFiles
<1>2. ASSUME Serialized \/ Graced PROVE Spec => AtomicPublication
  <2>1. Spec => []PointerIntact
    BY <1>1, <1>2
  <2>2. Init => InitsEmpty
    BY DEF Init, InitsEmpty
  <2> QED BY <2>1, <2>2, ServedNodes, PublicationStep, PublicationInit, InitsStep, RaceHolds,
             TypeCorrect, PTL DEF Spec, AtomicPublication, P!Spec
<1> QED BY <1>2
=============================================================================
