-------------------------------- MODULE Sync --------------------------------
(***************************************************************************)
(* One node's `wg-client sync`: the passes of run_once, which hold the     *)
(* interface's lock, so that at most one is under way.  A pass recovers an *)
(* interrupted transaction, restores a missing interface from the local    *)
(* file, discovers this node's published configuration, and installs it as *)
(* a transaction on the configuration file, its backup, the state file and *)
(* the kernel device.                                                      *)
(*                                                                         *)
(* Each file, kernel or network call is one step (applying an interface is *)
(* two).  A call may fail, the process may be killed between and within    *)
(* calls, the device may disappear, and the power may be lost.             *)
(*                                                                         *)
(* Abstracted: a configuration is a member of Contents and its digest is   *)
(* the content itself; discovery answers with the published content of     *)
(* some moment.                                                            *)
(***************************************************************************)
EXTENDS Naturals, FiniteSets

CONSTANTS
  Contents,         \* the valid configurations of this node
  None,             \* no file, no digest, no device
  Torn,             \* the bytes of a copy that did not complete
  Nodes,            \* initial nodes: "fresh" or "installed"
  Forces,           \* values of --force in use
  Risks,            \* sets of faults: calls, by where they are made, and
                    \* "probe", "crash", "lost" and "power"
  Republish,        \* may an earlier configuration be published again?
  MaxPublications,  \* bound: publications in a behaviour
  MaxFaults         \* bound: faults in a behaviour

VARIABLES
  conf,       \* the file at conf_path
  backup,     \* the file at conf_path + ".bak"
  dirty,      \* what the two, written without fsync, may still fall back to
  disk,       \* the LocalState at conf_path + ".state.json"
  dev,        \* the kernel's WireGuard device and its addresses and routes
  published,  \* the configurations published so far
  cur,        \* the published one
  pubs,       \* how many publications there were
  risks,      \* which faults can happen in this behaviour
  pc,         \* where the pass is in run_once
  st,         \* its LocalState
  cand,       \* the candidate it downloaded
  force,      \* its --force
  call,       \* who called apply_interface
  outcome,    \* what the last pass reported
  good,       \* the configurations apply_interface has confirmed
  faults      \* how many faults there were

fileVars   == <<conf, backup, dirty>>
worldVars  == <<published, cur, pubs, risks>>
passVars   == <<pc, st, cand, force, call, outcome>>
vars       == <<fileVars, disk, dev, worldVars, passVars, good, faults>>

ASSUME SyncAssumption ==
  /\ None \notin Contents /\ Torn \notin Contents /\ None # Torn
  /\ Nodes \subseteq {"fresh", "installed"}
  /\ Forces \subseteq BOOLEAN
  /\ Risks \subseteq SUBSET STRING
  /\ Republish \in BOOLEAN
  /\ MaxPublications \in Nat /\ MaxFaults \in Nat
-----------------------------------------------------------------------------
LocalState == [pending : BOOLEAN, hadBackup : BOOLEAN,
               applied : Contents \cup {None}]
DefaultState == [pending |-> FALSE, hadBackup |-> FALSE, applied |-> None]

\* A device has the keys and peers of one configuration, and addresses and
\* routes that accumulate.  done: every one that peers asks for is there.
Device == [peers : Contents \cup {None, Torn},
           nets  : SUBSET (Contents \cup {Torn}),
           done  : BOOLEAN]
BareDevice == [peers |-> None, nets |-> {}, done |-> FALSE]
Exact(c)   == [peers |-> c, nets |-> {c}, done |-> TRUE]

ASSUME DeviceAssumption == None \notin Device

Steps == {"idle", "recover", "unmark", "check", "discover", "decide",
          "preflight", "backup", "mark", "teardown", "install", "device",
          "link", "finish", "rollback", "settle"}

At(l)    == pc = l
Goto(l)  == pc' = l
Works    == UNCHANGED faults
Fails(l) == l \in risks /\ faults < MaxFaults /\ faults' = faults + 1

\* run_once returns o, or its process ends: the pass's memory is gone.
Return(o) ==
  /\ Goto("idle")
  /\ outcome' = o
  /\ st' = DefaultState /\ cand' = None /\ force' = FALSE /\ call' = "none"

\* interface_exists, which also answers "no" when listing devices fails.
ProbeAbsent == IF dev = None THEN Works ELSE Fails("probe")

\* copy_file(from, to): std::fs::copy truncates and writes in place.
CopyTo(f, bytes) ==
  /\ conf'   = IF f = "conf" THEN bytes ELSE conf
  /\ backup' = IF f = "backup" THEN bytes ELSE backup
  /\ dirty'  = dirty \cup ({f} \X {Torn, IF f = "conf" THEN conf ELSE backup})

\* A copy stopped half way leaves the target as it was or torn.
CopyBroken(f) ==
  \E bytes \in {Torn, IF f = "conf" THEN conf ELSE backup} : CopyTo(f, bytes)
-----------------------------------------------------------------------------
Init ==
  \E node \in Nodes, c \in Contents :
    /\ cur = c /\ published = {c} /\ pubs = 1 /\ risks \in Risks
    /\ IF node = "fresh"
       THEN conf = None /\ disk = DefaultState /\ dev = None /\ good = {}
       ELSE /\ conf = c
            /\ disk = [DefaultState EXCEPT !.applied = c]
            /\ dev = Exact(c)
            /\ good = {c}
    /\ backup = None /\ dirty = {}
    /\ pc = "idle" /\ st = DefaultState /\ cand = None
    /\ force = FALSE /\ call = "none" /\ outcome = "none"
    /\ faults = 0

\* The server publishes a generation that changes this node's file.
Publish(c) ==
  /\ pubs < MaxPublications
  /\ c # cur
  /\ Republish \/ c \notin published
  /\ cur' = c /\ published' = published \cup {c} /\ pubs' = pubs + 1
  /\ UNCHANGED <<fileVars, disk, dev, risks, passVars, good, faults>>

\* The lock is taken and the state file read.
Begin ==
  /\ At("idle")
  /\ st' = disk
  /\ force' \in Forces
  /\ outcome' = "none"
  /\ Goto(IF disk.pending THEN "recover" ELSE "check")
  /\ UNCHANGED <<fileVars, disk, dev, worldVars, cand, call, good, faults>>

Recovered == [st EXCEPT !.pending = FALSE]
HasBackup == st.hadBackup /\ backup # None

\* The backup is copied over conf_path; an error is ignored.
Recover ==
  /\ At("recover")
  /\ IF HasBackup
     THEN \/ CopyTo("conf", backup) /\ Works
          \/ CopyBroken("conf") /\ Fails("recover")
     ELSE UNCHANGED fileVars /\ Works
  /\ st' = Recovered
  /\ Goto("unmark")
  /\ UNCHANGED <<disk, dev, worldVars, cand, force, call, outcome, good>>

\* The cleared marker is saved; an error is only logged.
Unmark ==
  /\ At("unmark")
  /\ \/ disk' = st /\ Works
     \/ disk' = disk /\ Fails("unmark")
  /\ Goto("check")
  /\ UNCHANGED <<fileVars, dev, worldVars, st, cand, force, call, outcome,
                 good>>

\* The interface is there, or there is no valid local file to restore.
CheckSkips ==
  /\ At("check")
  /\ \/ dev # None /\ Works
     \/ conf \in {None, Torn} /\ ProbeAbsent
  /\ Goto("discover")
  /\ UNCHANGED <<fileVars, disk, dev, worldVars, st, cand, force, call,
                 outcome, good>>

\* Mutant: a missing local file is not noticed.
CheckRestoresMissing ==
  /\ At("check")
  /\ ProbeAbsent
  /\ call' = "restore" /\ Goto("device")
  /\ UNCHANGED <<fileVars, disk, dev, worldVars, st, cand, force, outcome,
                 good>>

\* The interface is restored from conf_path.  Torn bytes may still parse.
CheckRestores ==
  /\ At("check")
  /\ conf # None
  /\ ProbeAbsent
  /\ call' = "restore" /\ Goto("device")
  /\ UNCHANGED <<fileVars, disk, dev, worldVars, st, cand, force, outcome,
                 good>>

\* discover_and_download, up to the parse of the downloaded bytes.
Discover ==
  /\ At("discover")
  /\ cand' = cur /\ Works
  /\ Goto("decide")
  /\ UNCHANGED <<fileVars, disk, dev, worldVars, st, force, call, outcome,
                 good>>

DiscoverFailed ==
  /\ At("discover")
  /\ Fails("discover")
  /\ Return("error")
  /\ UNCHANGED <<fileVars, disk, dev, worldVars, good>>

\* Mutant: the installed file decides, not what was applied.
UnchangedOnDisk == ~force /\ conf = cand

Unchanged == ~force /\ st.applied = cand

NoOp ==
  /\ At("decide")
  /\ Unchanged /\ dev # None /\ Works
  /\ Return("no_op")
  /\ UNCHANGED <<fileVars, disk, dev, worldVars, good>>

Proceed ==
  /\ At("decide")
  /\ \/ ~Unchanged /\ Works
     \/ Unchanged /\ ProbeAbsent
  /\ Goto("preflight")
  /\ UNCHANGED <<fileVars, disk, dev, worldVars, st, cand, force, call,
                 outcome, good>>

Preflight ==
  /\ At("preflight")
  /\ \/ Works /\ Goto("backup") /\ UNCHANGED <<st, cand, force, call, outcome>>
     \/ Fails("preflight") /\ Return("error")
  /\ UNCHANGED <<fileVars, disk, dev, worldVars, good>>

\* Mutant: the new digest is recorded along with the pending marker.
PendingApplied ==
  [pending |-> TRUE, hadBackup |-> conf # None, applied |-> cand]

Pending == [st EXCEPT !.pending = TRUE, !.hadBackup = conf # None]

\* conf_path is copied to the backup, if there is one.
Backup ==
  /\ At("backup")
  /\ \/ /\ Works
        /\ IF conf # None THEN CopyTo("backup", conf) ELSE UNCHANGED fileVars
        /\ st' = Pending
        /\ Goto("mark")
        /\ UNCHANGED <<cand, force, call, outcome>>
     \/ conf # None /\ Fails("backup") /\ CopyBroken("backup") /\ Return("error")
  /\ UNCHANGED <<disk, dev, worldVars, good>>

\* Mutant: a pending marker that could not be saved does not stop the pass.
MarkUnchecked ==
  /\ At("mark")
  /\ \/ disk' = st /\ Works
     \/ disk' = disk /\ Fails("mark")
  /\ Goto("teardown")
  /\ UNCHANGED <<fileVars, dev, worldVars, st, cand, force, call, outcome,
                 good>>

\* The pending marker is saved before anything is torn down.
Mark ==
  /\ At("mark")
  /\ \/ /\ Works
        /\ disk' = st
        /\ Goto("teardown")
        /\ UNCHANGED <<st, cand, force, call, outcome>>
     \/ Fails("mark") /\ disk' = disk /\ Return("error")
  /\ UNCHANGED <<fileVars, dev, worldVars, good>>

\* Mutant: the new configuration is applied over the old device.
TeardownSkipped ==
  /\ At("teardown")
  /\ Works
  /\ Goto("install")
  /\ UNCHANGED <<fileVars, disk, dev, worldVars, st, cand, force, call,
                 outcome, good>>

Teardown ==
  /\ At("teardown")
  /\ \/ /\ \/ dev' = None /\ Works
           \/ dev' = dev /\ ProbeAbsent
        /\ Goto("install")
        /\ UNCHANGED <<st, cand, force, call, outcome>>
     \/ dev # None /\ Fails("teardown") /\ dev' = dev /\ Return("error")
  /\ UNCHANGED <<fileVars, disk, worldVars, good>>

\* write_file_atomic(conf_path, candidate).
Install ==
  /\ At("install")
  /\ \/ /\ Works
        /\ conf' = cand /\ dirty' = {d \in dirty : d[1] # "conf"}
        /\ call' = "install" /\ Goto("device")
     \/ /\ Fails("install")
        /\ UNCHANGED <<conf, dirty, call>>
        /\ Goto("rollback")
  /\ UNCHANGED <<backup, disk, dev, worldVars, st, cand, force, outcome, good>>
-----------------------------------------------------------------------------
\* apply_interface returns to its caller.
Applied ==
  /\ Goto(CASE call = "restore"  -> "discover"
            [] call = "install"  -> "finish"
            [] call = "rollback" -> "settle")
  /\ UNCHANGED <<st, cand, force, call, outcome>>

NotApplied ==
  IF call = "rollback"
  THEN Return("error")
  ELSE /\ Goto(IF call = "restore" THEN "discover" ELSE "rollback")
       /\ UNCHANGED <<st, cand, force, call, outcome>>

\* The device is created if absent, and its keys and peers are replaced.
DeviceSet ==
  /\ At("device")
  /\ dev' = [peers |-> conf,
             nets  |-> IF dev = None THEN {} ELSE dev.nets,
             done  |-> dev # None /\ dev.done /\ dev.peers = conf]
  /\ Works
  /\ Goto("link")
  /\ UNCHANGED <<fileVars, disk, worldVars, st, cand, force, call, outcome,
                 good>>

\* The file does not parse, an endpoint does not resolve, or the kernel
\* refuses the update, possibly after it created the link.
DeviceRefused ==
  /\ At("device")
  /\ IF conf = Torn THEN Works ELSE Fails("device")
  /\ dev' \in {dev, IF dev = None /\ conf # Torn THEN BareDevice ELSE dev}
  /\ NotApplied
  /\ UNCHANGED <<fileVars, disk, worldVars, good>>

\* The address is set, the link brought up, and every route added.
LinkUp ==
  /\ At("link")
  /\ dev # None
  /\ dev' = [dev EXCEPT !.nets = @ \cup {conf}, !.done = TRUE]
  /\ good' = good \cup ({conf} \cap Contents)
  /\ Works
  /\ Applied
  /\ UNCHANGED <<fileVars, disk, worldVars>>

\* One of those calls fails after some of them were made.
LinkFailed ==
  /\ At("link")
  /\ IF dev = None
     THEN Works /\ UNCHANGED dev
     ELSE /\ Fails("link")
          /\ \E nets \in {dev.nets, dev.nets \cup {conf}} :
               dev' = [dev EXCEPT !.nets = nets]
  /\ NotApplied
  /\ UNCHANGED <<fileVars, disk, worldVars, good>>
-----------------------------------------------------------------------------
Committed == [st EXCEPT !.pending = FALSE, !.applied = cand]

\* The applied digest is saved; an error is only logged.
Finish ==
  /\ At("finish")
  /\ \/ disk' = Committed /\ Works
     \/ disk' = disk /\ Fails("finish")
  /\ Return("applied")
  /\ UNCHANGED <<fileVars, dev, worldVars, good>>

\* attempt_rollback without a backup: the marker on disk stays set.
RollbackNone ==
  /\ At("rollback")
  /\ ~st.hadBackup
  /\ Works
  /\ Return("error")
  /\ UNCHANGED <<fileVars, disk, dev, worldVars, good>>

Rollback ==
  /\ At("rollback")
  /\ st.hadBackup
  /\ \/ /\ Works
        /\ CopyTo("conf", backup)
        /\ call' = "rollback" /\ Goto("device")
        /\ UNCHANGED <<st, cand, force, outcome>>
     \/ Fails("rollback") /\ CopyBroken("conf") /\ Return("error")
  /\ UNCHANGED <<disk, dev, worldVars, good>>

\* The rollback was applied: the marker is cleared.
Settle ==
  /\ At("settle")
  /\ \/ disk' = Recovered /\ Works
     \/ disk' = disk /\ Fails("settle")
  /\ Return("error")
  /\ UNCHANGED <<fileVars, dev, worldVars, good>>
-----------------------------------------------------------------------------
\* The file a copy under way is writing.
CopyTarget == CASE pc \in {"recover", "rollback"} /\ HasBackup -> {"conf"}
                [] pc = "backup" /\ conf # None -> {"backup"}
                [] OTHER -> {}

Tear(D) ==
  /\ conf'   = IF "conf" \in D THEN Torn ELSE conf
  /\ backup' = IF "backup" \in D THEN Torn ELSE backup

\* The process is killed; the kernel and the file system live on.
Crash ==
  /\ ~At("idle")
  /\ Fails("crash")
  /\ \E D \in SUBSET CopyTarget : Tear(D)
  /\ Return("none")
  /\ UNCHANGED <<dirty, disk, dev, worldVars, good>>

\* What a file may hold after a power loss: its bytes or, if they were not
\* fsynced, a part of them or those it had before.
Survives(f, bytes) ==
  {bytes} \cup {d[2] : d \in {x \in dirty \cup (CopyTarget \X {Torn}) : x[1] = f}}

\* Power is lost, and the device with it.
PowerLoss ==
  /\ Fails("power")
  /\ conf' \in Survives("conf", conf) /\ backup' \in Survives("backup", backup)
  /\ dirty' = {}
  /\ dev' = None
  /\ Return("none")
  /\ UNCHANGED <<disk, worldVars, good>>

\* The device is removed behind the client's back, by an administrator or,
\* after a crash, by an orderly reboot.
DeviceLost ==
  /\ dev # None
  /\ Fails("lost")
  /\ dev' = None
  /\ UNCHANGED <<fileVars, disk, worldVars, passVars, good>>

Pass ==
  \/ Begin \/ Recover \/ Unmark \/ CheckSkips \/ CheckRestores
  \/ Discover \/ DiscoverFailed \/ NoOp \/ Proceed \/ Preflight
  \/ Backup \/ Mark \/ Teardown \/ Install
  \/ DeviceSet \/ DeviceRefused \/ LinkUp \/ LinkFailed
  \/ Finish \/ RollbackNone \/ Rollback \/ Settle

Next ==
  \/ Pass
  \/ \E c \in Contents : Publish(c)
  \/ Crash \/ PowerLoss \/ DeviceLost

Spec == Init /\ [][Next]_vars

\* The daemon's loop, or the timer, starts a pass after each pass, and a
\* pass keeps taking steps: every call it makes returns.
FairSpec == Spec /\ WF_vars(Pass)
-----------------------------------------------------------------------------
File == Contents \cup {None, Torn}

TypeOK ==
  /\ conf \in File /\ backup \in File
  /\ dirty \subseteq {"conf", "backup"} \X File
  /\ disk \in LocalState /\ st \in LocalState
  /\ dev \in Device \cup {None}
  /\ published \subseteq Contents /\ cur \in published /\ pubs \in Nat
  /\ risks \in Risks
  /\ pc \in Steps
  /\ cand \in Contents \cup {None}
  /\ force \in BOOLEAN
  /\ call \in {"none", "restore", "install", "rollback"}
  /\ outcome \in {"none", "no_op", "applied", "error"}
  /\ good \subseteq Contents
  /\ faults \in 0 .. MaxFaults

\* What conf_path will hold once the next pass has recovered.
NextConf ==
  IF disk.pending /\ disk.hadBackup /\ backup # None THEN backup ELSE conf

\* Once a configuration has been applied, whatever happens the next pass
\* starts from one that was: an installed candidate that was never confirmed
\* is on disk only under a saved pending marker with a good backup behind it
\* (backup, marker, teardown and install of run_once, in that order).
Recoverable == good # {} => NextConf \in good

\* A pass reports no_op only when the kernel has exactly the keys, peers,
\* addresses and routes of the configuration it downloaded (run_once's
\* `unchanged`, which compares digests and asks whether the interface exists).
NoOpExact ==
  [][(outcome # "no_op" /\ outcome' = "no_op") => dev = Exact(cand)]_vars

\* A pass that installs a configuration ends up with it and nothing left of
\* the one before (teardown_interface before apply_interface).
InstallExact ==
  [][(pc' = "finish" /\ pc # "finish") => dev' = Exact(cand)]_vars

\* When publications and faults have stopped, the node's device comes to be
\* exactly what is published and stays so.
Converges == <>[](dev = Exact(cur))
=============================================================================
