----------------------------- MODULE SyncProofs -----------------------------
(***************************************************************************)
(* Proofs about Sync, for every set of configurations and every number of  *)
(* publications and faults.                                                *)
(***************************************************************************)
EXTENDS Sync, TLAPS

\* Is apply_interface under way on behalf of one of these callers?
Applying(callers) == pc \in {"device", "link"} /\ call \in callers

\* From the backup to the end of the transaction.
Transaction ==
  \/ pc \in {"mark", "teardown", "install", "rollback", "finish", "settle"}
  \/ Applying({"install", "rollback"})

\* What the pass's memory and the files hold at each place of run_once.
Shape ==
  /\ pc \in {"device", "link"} => call # "none" /\ conf # None
  /\ pc \in {"decide", "preflight", "backup"} => cand \in Contents
  /\ Transaction => /\ cand \in Contents
                    /\ st.hadBackup => backup # None

TypeInv == TypeOK /\ Shape

\* A fresh node and an installed one are well formed.
LEMMA InitType == Init => TypeInv
<1> SUFFICES ASSUME Init PROVE TypeInv
  OBVIOUS
<1>1. PICK node \in Nodes, c \in Contents :
        /\ cur = c /\ published = {c} /\ pubs = 1 /\ risks \in Risks
        /\ IF node = "fresh"
           THEN conf = None /\ disk = DefaultState /\ dev = None /\ good = {}
           ELSE /\ conf = c
                /\ disk = [DefaultState EXCEPT !.applied = c]
                /\ dev = Exact(c)
                /\ good = {c}
        /\ backup = None /\ dirty = {}
        /\ pc = "idle" /\ st = DefaultState /\ cand = None
        /\ force = FALSE /\ call = "none" /\ outcome = "none"
        /\ faults = 0
  BY Zenon DEF Init
<1>2. DefaultState \in LocalState /\ [DefaultState EXCEPT !.applied = c] \in LocalState
  BY DEF DefaultState, LocalState
<1>3. Exact(c) \in Device
  BY DEF Exact, Device
<1>4. /\ conf \in File /\ disk \in LocalState /\ good \subseteq Contents
      /\ dev \in Device \cup {None}
  BY <1>1, <1>2, <1>3 DEF File
<1>5. /\ cur = c /\ published = {c} /\ pubs = 1 /\ risks \in Risks
      /\ backup = None /\ dirty = {}
      /\ pc = "idle" /\ st = DefaultState /\ cand = None
      /\ force = FALSE /\ call = "none" /\ outcome = "none"
      /\ faults = 0
  BY <1>1
<1>6. TypeOK
  <2>1. faults \in 0 .. MaxFaults /\ pubs \in Nat
    BY <1>5, SyncAssumption
  <2>2. pc \in Steps /\ force \in BOOLEAN
    BY <1>5 DEF Steps
  <2>3. published \subseteq Contents /\ cur \in published
    BY <1>5
  <2>4. backup \in File /\ st \in LocalState /\ dirty \subseteq {"conf", "backup"} \X File
    BY <1>2, <1>5 DEF File
  <2> QED
    BY <1>4, <1>5, <2>1, <2>2, <2>3, <2>4 DEF TypeOK
<1>7. Shape
  BY <1>5 DEF Shape, Transaction, Applying
<1> QED
  BY <1>6, <1>7 DEF TypeInv

\* A pass that ends, by return or by a kill, leaves well-formed state.
LEMMA ReturnType ==
  ASSUME TypeInv, pc' = "idle", outcome' \in {"none", "no_op", "applied", "error"},
         st' = DefaultState, cand' = None, force' = FALSE, call' = "none",
         conf' \in File, backup' \in File, dirty' \subseteq {"conf", "backup"} \X File,
         disk' \in LocalState, dev' \in Device \cup {None}, UNCHANGED worldVars,
         good' \subseteq Contents, faults' \in 0 .. MaxFaults
  PROVE  TypeInv'
<1>1. DefaultState \in LocalState
  BY DEF DefaultState, LocalState
<1> QED
  BY <1>1 DEF TypeInv, TypeOK, Shape, Transaction, Applying,
              worldVars, Steps, File

\* Every call, fault and publication keeps the state well formed.
LEMMA StepType == TypeInv /\ [Next]_vars => TypeInv'
<1> SUFFICES ASSUME TypeInv, [Next]_vars PROVE TypeInv'
  OBVIOUS
<1> USE SyncAssumption
<1>0. /\ DefaultState \in LocalState
      /\ Recovered \in LocalState
      /\ Pending \in LocalState
      /\ cand \in Contents => Committed \in LocalState
  BY DEF TypeInv, TypeOK, LocalState, DefaultState, Recovered, Pending,
     Committed
<1>1. (faults < MaxFaults /\ faults' = faults + 1) \/ UNCHANGED faults =>
        faults' \in 0 .. MaxFaults
  BY DEF TypeInv, TypeOK
<1>2. ProbeAbsent => faults' \in 0 .. MaxFaults
  BY <1>1 DEF ProbeAbsent, Works, Fails
<1>3. CASE Begin
  BY <1>3 DEF TypeInv, TypeOK, Shape, Transaction, Applying, Begin, At, Goto,
     fileVars, worldVars, Steps, File
<1>4. CASE Recover
  <2>1. /\ conf' \in File /\ backup' = backup
        /\ dirty' \subseteq {"conf", "backup"} \X File /\ faults' \in 0 .. MaxFaults
    BY <1>4, <1>1 DEF Fails, Recover, CopyTo, CopyBroken, fileVars, Works,
       TypeInv, TypeOK, File
  <2> QED
    BY <1>4, <1>0, <2>1 DEF TypeInv, TypeOK, Shape, Transaction, Applying,
       Recover, At, Goto, worldVars, Steps
<1>5. CASE Unmark
  BY <1>5, <1>1 DEF Fails, TypeInv, TypeOK, Shape, Transaction, Applying,
     Unmark, At, Goto, fileVars, worldVars, Steps, File, Works
<1>6. CASE CheckSkips
  BY <1>6, <1>2 DEF TypeInv, TypeOK, Shape, Transaction, Applying, CheckSkips,
     At, Goto, fileVars, worldVars, Steps, File, Works
<1>7. CASE CheckRestores
  BY <1>7, <1>2 DEF TypeInv, TypeOK, Shape, Transaction, Applying,
     CheckRestores, At, Goto, fileVars, worldVars, Steps, File, Works
<1>8. CASE Discover
  BY <1>8 DEF TypeInv, TypeOK, Shape, Transaction, Applying, Discover,
     At, Goto, fileVars, worldVars, Steps, File, Works
<1>9. CASE DiscoverFailed
  BY <1>9, <1>1, ReturnType DEF Fails, Return, Goto, Works, DiscoverFailed,
     TypeInv, TypeOK, fileVars
<1>10. CASE NoOp
  BY <1>10, ReturnType DEF Return, Goto, NoOp, Works, TypeInv, TypeOK, fileVars
<1>11. CASE Proceed
  BY <1>11, <1>2 DEF TypeInv, TypeOK, Shape, Transaction, Applying, Proceed,
     At, Goto, fileVars, worldVars, Steps, File, Works
<1>12. CASE Preflight
  <2>1. CASE Works /\ Goto("backup") /\ UNCHANGED <<st, cand, force, call, outcome>>
    BY <1>12, <2>1 DEF TypeInv, TypeOK, Shape, Transaction, Applying,
       Preflight, At, Goto, fileVars, worldVars, Steps, File, Works
  <2>2. CASE Fails("preflight") /\ Return("error")
    BY <1>12, <2>2, <1>1, ReturnType DEF Fails, Return, Goto, Works,
       Preflight, TypeInv, TypeOK, fileVars
  <2> QED
    BY <1>12, <2>1, <2>2 DEF Preflight
<1>13. CASE Backup
  <2>1. CASE /\ Works
             /\ IF conf # None THEN CopyTo("backup", conf) ELSE UNCHANGED fileVars
             /\ st' = Pending
             /\ Goto("mark")
             /\ UNCHANGED <<cand, force, call, outcome>>
    <3>1. /\ conf' = conf /\ backup' \in File
          /\ conf # None => backup' # None
          /\ dirty' \subseteq {"conf", "backup"} \X File
      BY <2>1 DEF CopyTo, fileVars, TypeInv, TypeOK, File
    <3>2. Pending.hadBackup => backup' # None
      BY <3>1 DEF Pending, TypeInv, TypeOK, LocalState
    <3> QED
      BY <1>13, <1>0, <2>1, <3>1, <3>2 DEF TypeInv, TypeOK, Shape, Transaction,
         Applying, Backup, At, Goto, worldVars, Steps, File, Works
  <2>2. CASE conf # None /\ Fails("backup") /\ CopyBroken("backup") /\ Return("error")
    <3>1. conf' \in File /\ backup' \in File /\ dirty' \subseteq {"conf", "backup"} \X File
      BY <2>2 DEF CopyBroken, CopyTo, TypeInv, TypeOK, File
    <3> QED
      BY <1>13, <2>2, <3>1, <1>1, ReturnType DEF Fails, Return, Goto, Works,
         Backup, TypeInv, TypeOK
  <2> QED
    BY <1>13, <2>1, <2>2 DEF Backup
<1>14. CASE Mark
  <2>1. CASE Works /\ disk' = st /\ Goto("teardown")
             /\ UNCHANGED <<st, cand, force, call, outcome>>
    BY <1>14, <2>1 DEF TypeInv, TypeOK, Shape, Transaction, Applying, Mark,
       At, Goto, fileVars, worldVars, Steps, File, Works
  <2>2. CASE Fails("mark") /\ disk' = disk /\ Return("error")
    BY <1>14, <2>2, <1>1, ReturnType DEF Fails, Return, Goto, Works, Mark,
       TypeInv, TypeOK, fileVars
  <2> QED
    BY <1>14, <2>1, <2>2 DEF Mark
<1>15. CASE Teardown
  <2>1. CASE /\ \/ dev' = None /\ Works
                \/ dev' = dev /\ ProbeAbsent
             /\ Goto("install")
             /\ UNCHANGED <<st, cand, force, call, outcome>>
    BY <1>15, <2>1, <1>2 DEF TypeInv, TypeOK, Shape, Transaction, Applying,
       Teardown, At, Goto, fileVars, worldVars, Steps, File, Works
  <2>2. CASE dev # None /\ Fails("teardown") /\ dev' = dev /\ Return("error")
    BY <1>15, <2>2, <1>1, ReturnType DEF Fails, Return, Goto, Works, Teardown,
       TypeInv, TypeOK, fileVars
  <2> QED
    BY <1>15, <2>1, <2>2 DEF Teardown
<1>16. CASE Install
  BY <1>16, <1>1, ZenonT(40) DEF Fails, TypeInv, TypeOK, Shape, Transaction, Applying,
     Install, At, Goto, fileVars, worldVars, Steps, File, Works
<1>17. ASSUME NotApplied, At("device") \/ At("link"), UNCHANGED <<fileVars, disk, worldVars, good>>,
              dev' \in Device \cup {None}, faults' \in 0 .. MaxFaults
       PROVE  TypeInv'
  <2>1. CASE call = "rollback"
    BY <1>17, <2>1, ReturnType DEF Return, Goto, NotApplied, TypeInv, TypeOK,
       fileVars
  <2>2. CASE call # "rollback"
    BY <1>17, <2>2 DEF NotApplied, TypeInv, TypeOK, Shape, Transaction,
       Applying, At, Goto, fileVars, worldVars, Steps, File
  <2> QED
    BY <2>1, <2>2
<1>18. CASE DeviceSet
  <2>1. dev' \in Device
    BY <1>18 DEF DeviceSet, Device, TypeInv, TypeOK, File, Shape
  <2> QED
    BY <1>18, <2>1 DEF TypeInv, TypeOK, Shape, Transaction, Applying,
       DeviceSet, At, Goto, fileVars, worldVars, Steps, File, Works
<1>19. CASE DeviceRefused
  <2>1. faults' \in 0 .. MaxFaults
    BY <1>19, <1>1 DEF Fails, DeviceRefused, Works
  <2>2. BareDevice \in Device
    BY DEF BareDevice, Device
  <2>3. dev' \in Device \cup {None}
    BY <1>19, <2>2 DEF DeviceRefused, TypeInv, TypeOK
  <2> QED
    BY <1>19, <2>1, <2>3, <1>17 DEF DeviceRefused
<1>20. CASE LinkUp
  <2>1. dev' \in Device /\ good' \subseteq Contents
    BY <1>20 DEF LinkUp, Device, TypeInv, TypeOK, File, Shape, At
  <2>2. /\ call \in {"restore", "install", "rollback"}
        /\ pc' = (CASE call = "restore"  -> "discover"
                    [] call = "install"  -> "finish"
                    [] call = "rollback" -> "settle")
        /\ UNCHANGED <<st, cand, force, call, outcome>>
    BY <1>20 DEF LinkUp, Applied, Goto, TypeInv, TypeOK, Shape, At
  <2> QED
    BY <1>20, <2>1, <2>2 DEF TypeInv, TypeOK, Shape, Transaction, Applying,
       LinkUp, At, Goto, fileVars, worldVars, Steps, File, Works
<1>21. CASE LinkFailed
  <2>1. CASE dev = None
    BY <1>21, <2>1, <1>17 DEF LinkFailed, Works, TypeInv, TypeOK
  <2>2. CASE dev # None
    <3>1. faults' \in 0 .. MaxFaults
      BY <1>21, <2>2, <1>1 DEF Fails, Works, LinkFailed
    <3>2. PICK nets \in {dev.nets, dev.nets \cup {conf}} :
                 dev' = [dev EXCEPT !.nets = nets]
      BY <1>21, <2>2 DEF LinkFailed
    <3>3. dev' \in Device
      BY <1>21, <2>2, <3>2 DEF LinkFailed, Device, TypeInv, TypeOK, File,
         Shape, At
    <3> QED
      BY <1>21, <3>1, <3>3, <1>17 DEF LinkFailed
  <2> QED
    BY <2>1, <2>2
<1>22. CASE Finish
  <2>1. disk' \in LocalState /\ faults' \in 0 .. MaxFaults
    BY <1>22, <1>0, <1>1 DEF Fails, Finish, At, Works, TypeInv, TypeOK, Shape,
       Transaction
  <2> QED
    BY <1>22, <2>1, ReturnType DEF Return, Goto, Finish, TypeInv, TypeOK,
       fileVars
<1>23. CASE RollbackNone
  BY <1>23, ReturnType DEF Return, Goto, RollbackNone, Works, TypeInv, TypeOK,
     fileVars
<1>24. CASE Rollback
  <2>1. backup # None
    BY <1>24 DEF Rollback, At, TypeInv, Shape, Transaction
  <2>2. CASE /\ Works
             /\ CopyTo("conf", backup)
             /\ call' = "rollback" /\ Goto("device")
             /\ UNCHANGED <<st, cand, force, outcome>>
    <3>1. conf' = backup /\ backup' = backup /\ dirty' \subseteq {"conf", "backup"} \X File
      BY <2>2 DEF CopyTo, TypeInv, TypeOK, File
    <3> QED
      BY <1>24, <2>1, <2>2, <3>1 DEF TypeInv, TypeOK, Shape, Transaction,
         Applying, Rollback, At, Goto, worldVars, Steps, File, Works
  <2>3. CASE Fails("rollback") /\ CopyBroken("conf") /\ Return("error")
    <3>1. conf' \in File /\ backup' \in File /\ dirty' \subseteq {"conf", "backup"} \X File
      BY <2>3 DEF CopyBroken, CopyTo, TypeInv, TypeOK, File
    <3> QED
      BY <1>24, <2>3, <3>1, <1>1, ReturnType DEF Fails, Return, Goto, Works,
         Rollback, TypeInv, TypeOK
  <2> QED
    BY <1>24, <2>2, <2>3 DEF Rollback
<1>25. CASE Settle
  <2>1. disk' \in LocalState /\ faults' \in 0 .. MaxFaults
    BY <1>25, <1>0, <1>1 DEF Fails, Settle, Works, TypeInv, TypeOK
  <2> QED
    BY <1>25, <2>1, ReturnType DEF Return, Goto, Settle, TypeInv, TypeOK,
       fileVars
<1>26. ASSUME NEW c \in Contents, Publish(c) PROVE TypeInv'
  BY <1>26 DEF TypeInv, TypeOK, Shape, Transaction, Applying, Publish,
     fileVars, passVars, Steps, File
<1>27. CASE Crash
  <2>1. conf' \in File /\ backup' \in File
    BY <1>27 DEF Crash, Tear, TypeInv, TypeOK, File
  <2> QED
    BY <1>27, <2>1, <1>1, ReturnType DEF Fails, Return, Goto, Works, Crash,
       TypeInv, TypeOK
<1>28. CASE PowerLoss
  <2>1. conf' \in File /\ backup' \in File
    BY <1>28 DEF PowerLoss, Survives, TypeInv, TypeOK, File
  <2> QED
    BY <1>28, <2>1, <1>1, ReturnType DEF Fails, Return, Goto, Works,
       PowerLoss, TypeInv, TypeOK
<1>29. CASE DeviceLost
  BY <1>29, <1>1 DEF Fails, Works, TypeInv, TypeOK, Shape, Transaction,
     Applying, DeviceLost, fileVars, worldVars, passVars, Steps, File
<1>30. CASE UNCHANGED vars
  BY <1>30 DEF TypeInv, TypeOK, Shape, Transaction, Applying, vars, fileVars,
     worldVars, passVars, Steps, File
<1> QED
  BY <1>3, <1>4, <1>5, <1>6, <1>7, <1>8, <1>9, <1>10, <1>11, <1>12, <1>13,
     <1>14, <1>15, <1>16, <1>18, <1>19, <1>20, <1>21, <1>22, <1>23, <1>24,
     <1>25, <1>26, <1>27, <1>28, <1>29, <1>30 DEF Next, Pass

\* Type correctness of run_once: the files, the state record, the device and
\* the pass's memory stay well formed under every fault, on every node.
THEOREM SyncTypeCorrect == Spec => []TypeInv
<1> QED
  BY InitType, StepType, PTL DEF Spec

\* The part of it that the runs check: the range of every variable.
THEOREM SyncTypesHold == Spec => []TypeOK
<1>1. TypeInv => TypeOK
  BY DEF TypeInv
<1> QED BY <1>1, SyncTypeCorrect, PTL

(***************************************************************************)
(* Recovery.  Recoverable alone is not inductive: that the next pass finds *)
(* a good file depends on where this pass is.  The argument: until the     *)
(* marker is saved the file is good, once it is saved the backup is, and   *)
(* neither is written while it is the one recovery relies on.              *)
(***************************************************************************)
\* The node has applied a configuration, and neither the copy nor the save
\* of recovery fails, nor is power lost.
Dependable == /\ Nodes \subseteq {"installed"}
              /\ \A R \in Risks : R \cap {"recover", "unmark", "power"} = {}

\* Places where no transaction is marked, and places where one is.
Unmarked == \/ pc \in {"check", "discover", "decide", "preflight", "backup"}
            \/ Applying({"restore"})
Marked   == \/ pc \in {"teardown", "install", "rollback", "finish", "settle"}
            \/ Applying({"install", "rollback"})

Recovery ==
  /\ good # {}
  /\ pc \in {"idle", "recover"} => NextConf \in good
  /\ pc = "recover" => st = disk /\ disk.pending
  /\ pc = "unmark" => /\ conf \in good
                      /\ disk.pending
                      /\ disk.hadBackup /\ backup # None => backup \in good
                      /\ ~st.pending
  /\ Unmarked => conf \in good /\ ~disk.pending
  /\ pc = "mark" => /\ conf \in good /\ ~disk.pending
                    /\ backup = conf /\ st.pending /\ st.hadBackup
  /\ Marked => /\ disk.pending /\ disk.hadBackup /\ st.hadBackup
               /\ backup \in good
  /\ Applying({"install"}) => conf = cand
  /\ Applying({"rollback"}) => conf \in good
  /\ pc \in {"finish", "settle"} => conf \in good

\* Wherever the pass is, the next one recovers a good file.
LEMMA RecoveryImplies == TypeInv /\ Recovery => Recoverable
<1> SUFFICES ASSUME TypeInv, Recovery PROVE NextConf \in good
  BY DEF Recoverable
<1>1. \/ pc \in {"idle", "recover"} \/ pc = "unmark" \/ pc = "mark"
      \/ Unmarked \/ Marked
  BY DEF TypeInv, TypeOK, Shape, Unmarked, Marked, Applying, Steps
<1>2. CASE Marked
  BY <1>2, SyncAssumption DEF Recovery, NextConf, TypeInv, TypeOK
<1> QED
  BY <1>1, <1>2 DEF Recovery, NextConf

\* An installed node can recover.
LEMMA InitRecovery == Dependable /\ Init => Recovery
<1> SUFFICES ASSUME Dependable, Init PROVE Recovery
  OBVIOUS
<1>1. PICK c \in Contents : /\ conf = c
                            /\ disk = [DefaultState EXCEPT !.applied = c]
                            /\ good = {c}
  BY DEF Init, Dependable
<1>2. pc = "idle"
  BY DEF Init
<1>3. ~disk.pending
  BY <1>1 DEF DefaultState
<1> QED
  BY <1>1, <1>2, <1>3 DEF Recovery, NextConf, Unmarked, Marked, Applying

\* The pass ends where the next one would recover a good file.
LEMMA ReturnRecovery ==
  ASSUME good' # {}, pc' = "idle", NextConf' \in good'
  PROVE  Recovery'
BY DEF Recovery, Unmarked, Marked, Applying

\* The process is killed, possibly in the middle of a copy.
LEMMA CrashRecovery ==
  ASSUME TypeInv, Recovery, Crash PROVE Recovery'
<1>1. PICK D \in SUBSET CopyTarget : Tear(D)
  BY DEF Crash
<1>2. pc' = "idle" /\ disk' = disk /\ good' = good
  BY DEF Crash, Return, Goto
<1>3. NextConf \in good
  BY RecoveryImplies DEF Recoverable, Recovery
<1>4. CASE CopyTarget = {}
  <2>1. conf' = conf /\ backup' = backup
    BY <1>1, <1>4 DEF Tear
  <2> QED
    BY <1>2, <1>3, <2>1, ReturnRecovery DEF Recovery, NextConf
<1>5. CASE pc \in {"recover", "rollback"} /\ HasBackup
  <2>1. D \subseteq {"conf"}
    BY <1>1, <1>5 DEF CopyTarget
  <2>2. backup' = backup
    BY <1>1, <2>1 DEF Tear
  <2>3. disk.pending /\ disk.hadBackup /\ backup # None
    BY <1>5 DEF Recovery, Marked, HasBackup
  <2> QED
    BY <1>2, <1>3, <2>2, <2>3, ReturnRecovery DEF Recovery, NextConf
<1>6. CASE pc = "backup" /\ conf # None
  <2>1. D \subseteq {"backup"}
    BY <1>1, <1>6 DEF CopyTarget
  <2>2. conf' = conf
    BY <1>1, <2>1 DEF Tear
  <2>3. ~disk.pending
    BY <1>6 DEF Recovery, Unmarked
  <2> QED
    BY <1>2, <1>3, <2>2, <2>3, ReturnRecovery DEF Recovery, NextConf
<1> QED
  BY <1>4, <1>5, <1>6 DEF CopyTarget

\* Every step keeps the node recoverable.
LEMMA StepRecovery ==
  Dependable /\ TypeInv /\ Recovery /\ [Next]_vars => Recovery'
<1> SUFFICES ASSUME Dependable, TypeInv, Recovery, [Next]_vars PROVE Recovery'
  OBVIOUS
<1> USE SyncAssumption
<1>0. NextConf \in good /\ good # {}
  BY RecoveryImplies DEF Recoverable, Recovery
<1>1. ASSUME pc' = "idle", UNCHANGED <<conf, backup, disk, good>> PROVE Recovery'
  BY <1>0, <1>1, ReturnRecovery DEF NextConf
<1>3. CASE Begin
  BY <1>3, <1>0 DEF Begin, At, Goto, Recovery, NextConf, Unmarked, Marked,
     Applying, fileVars, TypeInv, TypeOK
<1>4. CASE Recover
  <2>1. st = disk /\ disk.pending
    BY <1>4 DEF Recover, At, Recovery
  <2>2. CASE HasBackup
    <3>1. CopyTo("conf", backup)
      BY <1>4, <2>2 DEF Recover, Fails, Dependable, TypeInv, TypeOK
    <3>2. conf' = backup /\ backup' = backup /\ backup \in good
      BY <3>1, <2>1, <2>2, <1>0 DEF CopyTo, HasBackup, NextConf
    <3> QED
      BY <1>4, <2>1, <3>2, <1>0 DEF Recover, Recovered, Goto, Recovery,
         Unmarked, Marked, Applying, TypeInv, TypeOK, LocalState
  <2>3. CASE ~HasBackup
    <3>1. UNCHANGED <<conf, backup>>
      BY <1>4, <2>3 DEF Recover, fileVars
    <3>2. conf \in good /\ ~(disk.hadBackup /\ backup # None)
      BY <2>1, <2>3, <1>0 DEF HasBackup, NextConf
    <3> QED
      BY <1>4, <2>1, <3>1, <3>2, <1>0 DEF Recover, Recovered, Goto, Recovery,
         Unmarked, Marked, Applying, TypeInv, TypeOK, LocalState
  <2> QED
    BY <2>2, <2>3
<1>5. CASE Unmark
  BY <1>5 DEF Unmark, Fails, Dependable, TypeInv, TypeOK, At, Goto, Recovery, Unmarked, Marked,
     Applying, fileVars
<1>6. CASE CheckSkips
  BY <1>6 DEF CheckSkips, At, Goto, Recovery, Unmarked, Marked, Applying,
     fileVars
<1>7. CASE CheckRestores
  BY <1>7 DEF CheckRestores, At, Goto, Recovery, Unmarked, Marked, Applying,
     fileVars
<1>8. CASE Discover
  BY <1>8 DEF Discover, At, Goto, Recovery, Unmarked, Marked, Applying,
     fileVars
<1>9. CASE DiscoverFailed
  BY <1>9, <1>1 DEF DiscoverFailed, Return, Goto, fileVars
<1>10. CASE NoOp
  BY <1>10, <1>1 DEF NoOp, Return, Goto, fileVars
<1>11. CASE Proceed
  BY <1>11 DEF Proceed, At, Goto, Recovery, Unmarked, Marked, Applying,
     fileVars
<1>12. CASE Preflight
  <2>1. CASE Goto("backup")
    BY <1>12, <2>1 DEF Preflight, At, Goto, Recovery, Unmarked, Marked,
       Applying, fileVars
  <2>2. CASE Return("error")
    BY <1>12, <2>2, <1>1 DEF Preflight, Return, Goto, fileVars
  <2> QED
    BY <1>12, <2>1, <2>2 DEF Preflight
<1>13. CASE Backup
  <2>1. conf \in good /\ ~disk.pending /\ conf # None
    BY <1>13 DEF Backup, At, Recovery, Unmarked, TypeInv, TypeOK
  <2>2. UNCHANGED <<disk, good>>
    BY <1>13 DEF Backup
  <2>3. CASE CopyTo("backup", conf) /\ st' = Pending /\ Goto("mark")
    <3>1. conf' = conf /\ backup' = conf
      BY <2>3 DEF CopyTo
    <3>2. st'.pending /\ st'.hadBackup
      BY <2>1, <2>3 DEF Pending, TypeInv, TypeOK, LocalState
    <3> QED
      BY <2>1, <2>2, <2>3, <3>1, <3>2 DEF Goto, Recovery, Unmarked, Marked,
         Applying
  <2>4. CASE CopyBroken("backup") /\ Return("error")
    <3>1. conf' = conf
      BY <2>4 DEF CopyBroken, CopyTo
    <3> QED
      BY <2>1, <2>2, <2>4, <3>1, ReturnRecovery DEF Return, Goto, NextConf
  <2> QED
    BY <1>13, <2>1, <2>3, <2>4 DEF Backup
<1>14. CASE Mark
  <2>1. CASE disk' = st /\ Goto("teardown") /\ UNCHANGED st
    BY <1>14, <2>1 DEF Mark, At, Goto, Recovery, Unmarked, Marked, Applying,
       fileVars
  <2>2. CASE disk' = disk /\ Return("error")
    BY <1>14, <2>2, <1>1 DEF Mark, Return, Goto, fileVars
  <2> QED
    BY <1>14, <2>1, <2>2 DEF Mark
<1>15. CASE Teardown
  <2>1. CASE Goto("install") /\ UNCHANGED st
    BY <1>15, <2>1 DEF Teardown, At, Goto, Recovery, Unmarked, Marked,
       Applying, fileVars
  <2>2. CASE Return("error")
    BY <1>15, <2>2, <1>1 DEF Teardown, Return, Goto, fileVars
  <2> QED
    BY <1>15, <2>1, <2>2 DEF Teardown
<1>16. CASE Install
  BY <1>16 DEF Install, At, Goto, Recovery, Unmarked, Marked, Applying
<1>17. ASSUME NotApplied, pc \in {"device", "link"},
              UNCHANGED <<fileVars, disk, worldVars, good>>
       PROVE  Recovery'
  <2>1. CASE call = "rollback"
    BY <1>17, <2>1, <1>1 DEF NotApplied, Return, Goto, fileVars
  <2>2. CASE call # "rollback"
    BY <1>17, <2>2 DEF NotApplied, Goto, Recovery, Unmarked, Marked, Applying,
       fileVars, TypeInv, TypeOK, Shape
  <2> QED
    BY <2>1, <2>2
<1>18. CASE DeviceSet
  BY <1>18 DEF DeviceSet, At, Goto, Recovery, Unmarked, Marked, Applying,
     fileVars
<1>19. CASE DeviceRefused
  BY <1>19, <1>17 DEF DeviceRefused, At
<1>20. CASE LinkUp
  <2>1. conf \in good'
    BY <1>20 DEF LinkUp, At, Recovery, Unmarked, Marked, Applying, TypeInv,
       TypeOK, Shape, Transaction
  <2>2. good \subseteq good' /\ UNCHANGED <<conf, backup, disk, st, cand, call>>
    BY <1>20 DEF LinkUp, Applied, fileVars
  <2>3. /\ call \in {"restore", "install", "rollback"}
        /\ pc' = (CASE call = "restore"  -> "discover"
                    [] call = "install"  -> "finish"
                    [] call = "rollback" -> "settle")
    BY <1>20 DEF LinkUp, Applied, Goto, TypeInv, TypeOK, Shape, At
  <2> QED
    BY <1>20, <2>1, <2>2, <2>3 DEF LinkUp, At, Recovery, Unmarked, Marked,
       Applying
<1>21. CASE LinkFailed
  BY <1>21, <1>17 DEF LinkFailed, At
<1>22. CASE Finish
  <2>1. conf \in good /\ UNCHANGED <<conf, backup, good>> /\ pc' = "idle"
    BY <1>22 DEF Finish, At, Recovery, Return, Goto, fileVars
  <2>2. disk' = disk \/ ~disk'.pending
    BY <1>22 DEF Finish, Committed, TypeInv, TypeOK, LocalState
  <2> QED
    BY <1>0, <2>1, <2>2, ReturnRecovery DEF NextConf
<1>23. CASE RollbackNone
  BY <1>23, <1>1 DEF RollbackNone, Return, Goto, fileVars
<1>24. CASE Rollback
  <2>1. disk.pending /\ disk.hadBackup /\ st.hadBackup /\ backup \in good
    BY <1>24 DEF Rollback, At, Recovery, Marked
  <2>2. UNCHANGED <<disk, good>>
    BY <1>24 DEF Rollback
  <2>3. CASE CopyTo("conf", backup) /\ call' = "rollback" /\ Goto("device")
             /\ UNCHANGED st
    <3>1. conf' = backup /\ backup' = backup
      BY <2>3 DEF CopyTo
    <3> QED
      BY <1>0, <2>1, <2>2, <2>3, <3>1 DEF Goto, Recovery, Unmarked, Marked,
         Applying
  <2>4. CASE CopyBroken("conf") /\ Return("error")
    <3>1. backup' = backup
      BY <2>4 DEF CopyBroken, CopyTo
    <3>2. backup # None
      BY <2>1 DEF TypeInv, TypeOK
    <3> QED
      BY <1>0, <2>1, <2>2, <2>4, <3>1, <3>2, ReturnRecovery
      DEF Return, Goto, NextConf
  <2> QED
    BY <1>24, <2>3, <2>4 DEF Rollback
<1>25. CASE Settle
  <2>1. conf \in good /\ UNCHANGED <<conf, backup, good>> /\ pc' = "idle"
    BY <1>25 DEF Settle, At, Recovery, Return, Goto, fileVars
  <2>2. disk' = disk \/ ~disk'.pending
    BY <1>25 DEF Settle, Recovered, TypeInv, TypeOK, LocalState
  <2> QED
    BY <1>0, <2>1, <2>2, ReturnRecovery DEF NextConf
<1>26. ASSUME NEW c \in Contents, Publish(c) PROVE Recovery'
  BY <1>26 DEF Publish, Recovery, NextConf, Unmarked, Marked, Applying,
     fileVars, passVars
<1>27. CASE Crash
  BY <1>27, CrashRecovery
<1>28. CASE PowerLoss
  BY <1>28 DEF PowerLoss, Fails, Dependable, TypeInv, TypeOK
<1>29. CASE DeviceLost
  BY <1>29 DEF DeviceLost, Recovery, NextConf, Unmarked, Marked, Applying,
     fileVars, passVars
<1>30. CASE UNCHANGED vars
  BY <1>30 DEF vars, Recovery, NextConf, Unmarked, Marked, Applying, fileVars,
     passVars
<1> QED
  BY <1>3, <1>4, <1>5, <1>6, <1>7, <1>8, <1>9, <1>10, <1>11, <1>12, <1>13,
     <1>14, <1>15, <1>16, <1>18, <1>19, <1>20, <1>21, <1>22, <1>23, <1>24,
     <1>25, <1>26, <1>27, <1>28, <1>29, <1>30 DEF Next, Pass

\* On a node that has once applied a configuration, as long as recovery's own
\* copy and save succeed and power is not lost, the next pass of run_once
\* always starts from a configuration that was applied: no crash, no failing
\* call, no loss of the device and no publication can take it away.
THEOREM NodeRecoverable == Dependable => (Spec => []Recoverable)
<1> SUFFICES ASSUME Dependable PROVE Spec => []Recoverable
  OBVIOUS
<1>1. Init => TypeInv /\ Recovery
  BY InitType, InitRecovery
<1>2. (TypeInv /\ Recovery) /\ [Next]_vars => (TypeInv /\ Recovery)'
  BY StepType, StepRecovery
<1>3. TypeInv /\ Recovery => Recoverable
  BY RecoveryImplies
<1> QED
  BY <1>1, <1>2, <1>3, PTL DEF Spec

(***************************************************************************)
(* Installation.  The candidate is applied to a device that the kernel has *)
(* just created, if interface_exists can be believed.                      *)
(***************************************************************************)
\* interface_exists is always answered by the kernel.
Probes == \A R \in Risks : "probe" \notin R

FreshDevice ==
  /\ pc = "install" => dev = None
  /\ Applying({"install"}) => conf = cand
  /\ pc = "device" /\ call = "install" => dev = None
  /\ pc = "link" /\ call = "install" /\ dev # None =>
       dev.peers = conf /\ dev.nets = {}

\* Every step keeps the device of an installation fresh.
LEMMA StepFresh ==
  Probes /\ TypeInv /\ FreshDevice /\ [Next]_vars => FreshDevice'
<1> SUFFICES ASSUME Probes, TypeInv, FreshDevice, [Next]_vars
             PROVE  FreshDevice'
  OBVIOUS
<1> USE DEF FreshDevice, Applying, At, Goto
<1>1. CASE Teardown
  BY <1>1 DEF Teardown, ProbeAbsent, Fails, Return, Probes,
     TypeInv, TypeOK
<1>2. CASE Install
  BY <1>2 DEF Install
<1>3. CASE DeviceSet
  BY <1>3 DEF DeviceSet, fileVars
<1>4. CASE CheckRestores
  BY <1>4 DEF CheckRestores
<1>5. CASE Rollback
  BY <1>5 DEF Rollback, Return
<1>6. CASE DeviceLost
  BY <1>6 DEF DeviceLost, fileVars, passVars
<1>7. CASE \E c \in Contents : Publish(c)
  BY <1>7 DEF Publish, fileVars, passVars
<1>8. CASE UNCHANGED vars
  BY <1>8 DEF vars, fileVars, passVars
<1>9. ASSUME pc' \notin {"install", "device", "link"} PROVE FreshDevice'
  BY <1>9
<1>10. CASE Begin \/ Recover \/ Unmark \/ CheckSkips \/ Discover
            \/ DiscoverFailed \/ NoOp \/ Proceed \/ Preflight \/ Backup \/ Mark
  BY <1>10, <1>9 DEF Begin, Recover, Unmark, CheckSkips, Discover,
     DiscoverFailed, NoOp, Proceed, Preflight, Backup, Mark, Return
<1>11. CASE DeviceRefused \/ LinkFailed
  BY <1>11, <1>9 DEF DeviceRefused, LinkFailed, NotApplied, Return
<1>12. CASE LinkUp
  <2>1. /\ call \in {"restore", "install", "rollback"}
        /\ pc' = (CASE call = "restore"  -> "discover"
                    [] call = "install"  -> "finish"
                    [] call = "rollback" -> "settle")
    BY <1>12 DEF LinkUp, Applied, TypeInv, TypeOK, Shape
  <2> QED
    BY <2>1, <1>9
<1>13. CASE Finish \/ RollbackNone \/ Settle \/ Crash \/ PowerLoss
  BY <1>13, <1>9 DEF Finish, RollbackNone, Settle, Crash, PowerLoss, Return
<1> QED
  BY <1>1, <1>2, <1>3, <1>4, <1>5, <1>6, <1>7, <1>8, <1>10, <1>11, <1>12, <1>13
  DEF Next, Pass

\* Only a completed apply_interface leads to the end of the transaction.
LEMMA FinishedByLinkUp ==
  ASSUME TypeInv, Next, pc' = "finish", pc # "finish"
  PROVE  LinkUp /\ call = "install"
<1> USE DEF At, Goto
<1>1. CASE LinkUp
  <2>1. /\ call \in {"restore", "install", "rollback"}
        /\ pc' = (CASE call = "restore"  -> "discover"
                    [] call = "install"  -> "finish"
                    [] call = "rollback" -> "settle")
    BY <1>1 DEF LinkUp, Applied, TypeInv, TypeOK, Shape
  <2> QED
    BY <1>1, <2>1
<1>2. ~(\E c \in Contents : Publish(c)) /\ ~DeviceLost
  BY DEF Publish, DeviceLost, passVars
<1>3. ~(Crash \/ PowerLoss \/ Finish \/ RollbackNone \/ Settle \/ Rollback)
  BY DEF Crash, PowerLoss, Finish, RollbackNone, Settle, Rollback, Return
<1>4. ~(DeviceSet \/ DeviceRefused \/ LinkFailed)
  BY DEF DeviceSet, DeviceRefused, LinkFailed, NotApplied, Return
<1>5. ~(Backup \/ Mark \/ Teardown \/ Install \/ Preflight \/ Proceed \/ NoOp)
  BY DEF Backup, Mark, Teardown, Install, Preflight, Proceed, NoOp, Return
<1>6. ~(Begin \/ Recover \/ Unmark \/ CheckSkips \/ CheckRestores \/ Discover
          \/ DiscoverFailed)
  BY DEF Begin, Recover, Unmark, CheckSkips, CheckRestores, Discover,
     DiscoverFailed, Return
<1> QED
  BY <1>1, <1>2, <1>3, <1>4, <1>5, <1>6 DEF Next, Pass

\* A pass that installs leaves exactly the candidate in the kernel, as long
\* as interface_exists does not mistake a failed listing for an absent
\* device: nothing of an earlier configuration survives, whatever failed or
\* was interrupted before.
THEOREM InstallIsExact == Probes => (Spec => InstallExact)
<1> SUFFICES ASSUME Probes PROVE Spec => InstallExact
  OBVIOUS
<1>1. Init => TypeInv /\ FreshDevice
  BY InitType DEF Init, FreshDevice, Applying
<1>2. (TypeInv /\ FreshDevice) /\ [Next]_vars => (TypeInv /\ FreshDevice)'
  BY StepType, StepFresh
<1>3. TypeInv /\ FreshDevice /\ [Next]_vars =>
        [(pc' = "finish" /\ pc # "finish") => dev' = Exact(cand)]_vars
  <2> SUFFICES ASSUME TypeInv, FreshDevice, Next, pc' = "finish", pc # "finish"
               PROVE  dev' = Exact(cand)
    OBVIOUS
  <2>1. LinkUp /\ call = "install"
    BY FinishedByLinkUp
  <2>2. /\ dev \in Device /\ dev.peers = conf /\ dev.nets = {} /\ conf = cand
        /\ dev' = [dev EXCEPT !.nets = @ \cup {conf}, !.done = TRUE]
    BY <2>1 DEF LinkUp, At, FreshDevice, Applying, TypeInv, TypeOK
  <2> QED
    BY <2>2 DEF Device, Exact
<1> QED
  BY <1>1, <1>2, <1>3, PTL DEF Spec, InstallExact

-----------------------------------------------------------------------------
(***************************************************************************)
(* What no_op says of the kernel.  The digest on record and the existence  *)
(* of the interface are all that `unchanged` looks at, so that the device  *)
(* must be right whenever the record names what is, or was just,           *)
(* published.  That holds when a transaction only ever begins for a new    *)
(* configuration, or else every application that is begun either completes *)
(* or leaves no device.                                                    *)
(***************************************************************************)
\* No pass is forced and nothing is published twice; and either devices are not
\* lost, or applying one does not stop half way.  A device that disappears by
\* itself also needs a recovery that works.
NoPartialRestore ==
  /\ Forces \subseteq {FALSE} /\ ~Republish
  /\ \A R \in Risks :
       /\ "probe" \notin R
       /\ \/ R \cap {"lost", "power"} = {}
          \/ R \cap {"lost", "device", "link", "crash"} = {}
          \/ R \cap {"power", "device", "link", "crash", "recover", "unmark"} = {}

Recorded == disk.applied

\* Can a pass still find, or has this one found, what is on record?
Current == Recorded # None /\ (cur = Recorded \/ cand = Recorded)

\* A device that was just created.
New(c) == [peers |-> c, nets |-> {}, done |-> FALSE]

Undiscovered == \/ pc \in {"idle", "recover", "unmark", "check", "discover"}
                \/ Applying({"restore"})

\* A configuration that is not published any more never is again.
Known ==
  /\ ~force
  /\ Recorded \in published \cup {None}
  /\ cand \in published \cup {None}
  /\ pc # "idle" => st.applied = Recorded
  /\ Undiscovered => cand = None
  /\ Recorded # None /\ cand # None /\ cand # Recorded => cur # Recorded

\* The device is as given, or was lost.
OrLost(d) == dev = d \/ ("lost" \in risks /\ dev = None)

\* The bytes of conf_path are fsynced.
Durable == \A d \in dirty : d[1] # "conf"

\* The candidate's file and device on the way to the end of a transaction.
Finishing ==
  /\ pc = "install" => dev = None
  /\ Applying({"install"}) \/ pc = "finish" => conf = cand /\ Durable
  /\ pc = "device" /\ call = "install" => dev = None
  /\ pc = "link" /\ call = "install" => OrLost(New(cand))
  /\ pc = "finish" => OrLost(Exact(cand))

\* Where devices do not disappear by themselves, transactions are for what is
\* not on record, and only power loss takes the device of what is.
Stable ==
  Current =>
    /\ ~disk.pending /\ conf = Recorded /\ Durable
    /\ pc \in {"idle", "check"} => dev = Exact(Recorded) \/ ("power" \in risks /\ dev = None)
    /\ pc \in {"discover", "decide"} => dev = Exact(Recorded)
    /\ \/ pc \in {"idle", "check", "discover", "decide"}
       \/ "power" \in risks /\ Applying({"restore"})
    /\ pc = "device" => dev = None
    /\ pc = "link" => dev = New(Recorded)

\* Where they do, the file or its backup has what is on record all along.
Lossy ==
  Current =>
    /\ pc \in {"idle", "recover"} => NextConf = Recorded
    /\ pc = "recover" => st = disk /\ disk.pending
    /\ pc = "unmark" => conf = Recorded /\ ~st.pending
    /\ Unmarked => conf = Recorded /\ ~disk.pending
    /\ pc = "mark" => /\ conf = Recorded /\ backup = Recorded
                      /\ st.pending /\ st.hadBackup /\ ~disk.pending
    /\ Marked => /\ disk.pending /\ disk.hadBackup /\ st.hadBackup
                 /\ backup = Recorded
    /\ pc \in {"device", "link", "finish", "settle"} => conf = Recorded
    /\ pc = "link" => dev \in {None, New(Recorded)}
    /\ pc \in {"device", "rollback", "install"} => dev = None
    /\ pc # "link" => dev \in {None, Exact(Recorded)}

Trusted ==
  /\ Known /\ Finishing
  /\ "lost" \notin risks => Stable
  /\ "lost" \in risks => Lossy

\* What is on record of a node at the start is in its file and its kernel.
LEMMA InitTrusted == NoPartialRestore /\ Init => Trusted
<1> SUFFICES ASSUME NoPartialRestore, Init PROVE Trusted
  OBVIOUS
<1>1. PICK node \in Nodes, c \in Contents :
        /\ cur = c /\ published = {c}
        /\ IF node = "fresh"
           THEN disk = DefaultState
           ELSE /\ conf = c
                /\ disk = [DefaultState EXCEPT !.applied = c]
                /\ dev = Exact(c)
        /\ dirty = {} /\ pc = "idle" /\ cand = None /\ force = FALSE
  BY Zenon DEF Init
<1>2. /\ pc = "idle" /\ cand = None /\ force = FALSE /\ dirty = {}
      /\ Recorded \in published \cup {None}
      /\ ~disk.pending
      /\ Recorded # None => conf = Recorded /\ dev = Exact(Recorded)
  BY <1>1 DEF DefaultState, Recorded
<1>3. Known
  BY <1>2 DEF Known
<1>4. Finishing
  BY <1>2 DEF Finishing, Applying, Durable
<1>5. Stable
  BY <1>2 DEF Stable, Current, Durable
<1>6. Lossy
  BY <1>2 DEF Lossy, Current, NextConf, Unmarked, Marked, Applying
<1> QED BY <1>3, <1>4, <1>5, <1>6 DEF Trusted

\* Every step keeps the record and the candidate among what was published.
LEMMA StepKnown ==
  NoPartialRestore /\ TypeInv /\ Known /\ [Next]_vars => Known'
<1> SUFFICES ASSUME NoPartialRestore, TypeInv, Known, [Next]_vars PROVE Known'
  OBVIOUS
<1> USE SyncAssumption DEF At, Goto, Recorded
<1>0. /\ disk \in LocalState /\ st \in LocalState /\ published \subseteq Contents
      /\ cur \in published /\ cand \in Contents \cup {None}
      /\ call \in {"none", "restore", "install", "rollback"}
  BY DEF TypeInv, TypeOK
<1>1. /\ Recovered.applied = st.applied /\ Pending.applied = st.applied
      /\ Committed.applied = cand
  BY <1>0 DEF Recovered, Pending, Committed, LocalState
<1>2. ASSUME pc' = "idle", cand' = None, force' = FALSE, UNCHANGED worldVars,
             disk'.applied \in published \cup {None}
      PROVE  Known'
  BY <1>2 DEF Known, worldVars
<1>3. ASSUME UNCHANGED worldVars, UNCHANGED <<cand, force>>, pc # "idle",
             st'.applied = st.applied, disk'.applied = disk.applied,
             Undiscovered' => Undiscovered
      PROVE  Known'
  BY <1>3 DEF Known, worldVars
<1>4. CASE Begin
  BY <1>4 DEF Begin, Known, Undiscovered, Applying, worldVars, NoPartialRestore
<1>5. CASE Recover
  BY <1>5, <1>1, <1>3 DEF Recover, Undiscovered
<1>6. CASE Unmark
  <2>1. disk'.applied = disk.applied
    BY <1>6 DEF Unmark, Known
  <2> QED BY <1>6, <2>1, <1>3 DEF Unmark, Undiscovered
<1>7. CASE CheckSkips \/ CheckRestores
  BY <1>7, <1>3 DEF CheckSkips, CheckRestores, Undiscovered
<1>8. CASE Discover
  BY <1>8, <1>0 DEF Discover, Known, Undiscovered, Applying, worldVars
<1>9. CASE DiscoverFailed \/ NoOp \/ RollbackNone \/ Crash \/ PowerLoss
  BY <1>9, <1>2 DEF DiscoverFailed, NoOp, RollbackNone, Crash, PowerLoss, Return, Known
<1>10. CASE Proceed
  BY <1>10, <1>3 DEF Proceed, Undiscovered, Applying
<1>11. CASE Preflight
  BY <1>11, <1>2, <1>3 DEF Preflight, Return, Undiscovered, Applying, Known
<1>12. CASE Backup
  BY <1>12, <1>1, <1>2, <1>3 DEF Backup, Return, Undiscovered, Applying, Known
<1>13. CASE Mark
  BY <1>13, <1>2, <1>3 DEF Mark, Return, Undiscovered, Applying, Known
<1>14. CASE Teardown
  BY <1>14, <1>2, <1>3 DEF Teardown, Return, Undiscovered, Applying, Known
<1>15. CASE Install
  BY <1>15, <1>3 DEF Install, Undiscovered, Applying
<1>16. CASE DeviceSet
  BY <1>16, <1>3 DEF DeviceSet, Undiscovered, Applying
<1>17. CASE DeviceRefused
  BY <1>17, <1>2, <1>3 DEF DeviceRefused, NotApplied, Return, Undiscovered, Applying, Known,
     TypeInv, Shape
<1>18. CASE LinkUp
  <2>1. /\ call \in {"restore", "install", "rollback"}
        /\ pc' = (CASE call = "restore"  -> "discover"
                    [] call = "install"  -> "finish"
                    [] call = "rollback" -> "settle")
        /\ UNCHANGED <<st, cand, force, call, disk, worldVars>> /\ pc = "link"
    BY <1>18 DEF LinkUp, Applied, TypeInv, TypeOK, Shape
  <2> QED BY <2>1, <1>3 DEF Undiscovered, Applying
<1>19. CASE LinkFailed
  BY <1>19, <1>2, <1>3 DEF LinkFailed, NotApplied, Return, Undiscovered, Applying, Known,
     TypeInv, Shape
<1>20. CASE Finish
  BY <1>20, <1>1, <1>2 DEF Finish, Return, Known
<1>21. CASE Rollback
  BY <1>21, <1>2, <1>3 DEF Rollback, Return, Undiscovered, Applying, Known
<1>22. CASE Settle
  BY <1>22, <1>1, <1>2 DEF Settle, Return, Known
<1>23. ASSUME NEW c \in Contents, Publish(c) PROVE Known'
  BY <1>23 DEF Publish, Known, Undiscovered, Applying, passVars, NoPartialRestore
<1>24. CASE DeviceLost
  BY <1>24 DEF DeviceLost, Known, Undiscovered, Applying, passVars, worldVars
<1>25. CASE UNCHANGED vars
  BY <1>25 DEF vars, Known, Undiscovered, Applying, passVars, worldVars
<1> QED
  BY <1>4, <1>5, <1>6, <1>7, <1>8, <1>9, <1>10, <1>11, <1>12, <1>13, <1>14, <1>15,
     <1>16, <1>17, <1>18, <1>19, <1>20, <1>21, <1>22, <1>23, <1>24, <1>25
     DEF Next, Pass

\* Every step keeps the candidate's file and device in step.
LEMMA StepFinishing ==
  NoPartialRestore /\ TypeInv /\ Finishing /\ [Next]_vars => Finishing'
<1> SUFFICES ASSUME NoPartialRestore, TypeInv, Finishing, [Next]_vars PROVE Finishing'
  OBVIOUS
<1> USE DEF At, Goto, Durable
<1>1. ASSUME pc' \notin {"install", "device", "link", "finish"} PROVE Finishing'
  BY <1>1 DEF Finishing, Applying
<1>2. CASE Teardown
  BY <1>2 DEF Teardown, ProbeAbsent, Fails, Return, NoPartialRestore, TypeInv, TypeOK,
     Finishing, Applying
<1>3. CASE Install
  BY <1>3, <1>1 DEF Install, Finishing, Applying
<1>4. CASE DeviceSet
  BY <1>4 DEF DeviceSet, Finishing, Applying, fileVars, OrLost, New, worldVars
<1>5. CASE CheckRestores
  BY <1>5 DEF CheckRestores, Finishing, Applying
<1>6. CASE Rollback
  BY <1>6 DEF Rollback, Return, Finishing, Applying
<1>7. CASE DeviceLost
  BY <1>7 DEF DeviceLost, Fails, Finishing, Applying, OrLost, fileVars, passVars, worldVars
<1>8. CASE \E c \in Contents : Publish(c)
  BY <1>8 DEF Publish, Finishing, Applying, OrLost, fileVars, passVars
<1>9. CASE UNCHANGED vars
  BY <1>9 DEF vars, Finishing, Applying, OrLost, fileVars, passVars, worldVars
<1>10. CASE Begin \/ Recover \/ Unmark \/ CheckSkips \/ Discover
            \/ DiscoverFailed \/ NoOp \/ Proceed \/ Preflight \/ Backup \/ Mark
  BY <1>10, <1>1 DEF Begin, Recover, Unmark, CheckSkips, Discover,
     DiscoverFailed, NoOp, Proceed, Preflight, Backup, Mark, Return
<1>11. CASE DeviceRefused \/ LinkFailed
  BY <1>11, <1>1 DEF DeviceRefused, LinkFailed, NotApplied, Return
<1>12. CASE LinkUp
  <2>1. /\ call \in {"restore", "install", "rollback"}
        /\ pc' = (CASE call = "restore"  -> "discover"
                    [] call = "install"  -> "finish"
                    [] call = "rollback" -> "settle")
        /\ UNCHANGED <<cand, conf, dirty, risks>> /\ pc = "link" /\ dev # None
        /\ dev' = [dev EXCEPT !.nets = @ \cup {conf}, !.done = TRUE]
    BY <1>12 DEF LinkUp, Applied, TypeInv, TypeOK, Shape, fileVars, worldVars
  <2>2. CASE call = "install"
    <3>1. conf = cand /\ Durable /\ dev = New(cand)
      BY <2>1, <2>2 DEF Finishing, Applying, OrLost
    <3>2. dev' = Exact(cand)
      BY <2>1, <3>1 DEF New, Exact
    <3> QED BY <2>1, <2>2, <3>1, <3>2 DEF Finishing, Applying, OrLost
  <2> QED BY <2>1, <2>2, <1>1
<1>13. CASE Finish \/ RollbackNone \/ Settle \/ Crash \/ PowerLoss
  BY <1>13, <1>1 DEF Finish, RollbackNone, Settle, Crash, PowerLoss, Return
<1> QED
  BY <1>2, <1>3, <1>4, <1>5, <1>6, <1>7, <1>8, <1>9, <1>10, <1>11, <1>12, <1>13
  DEF Next, Pass

\* Only the end of a transaction changes the record.
LEMMA RecordKept ==
  ASSUME TypeInv, Known, Next, ~(Finish /\ disk' = Committed)
  PROVE  disk'.applied = disk.applied
<1>0. disk \in LocalState /\ st \in LocalState
  BY DEF TypeInv, TypeOK
<1>1. Recovered.applied = st.applied
  BY <1>0 DEF Recovered, LocalState
<1>2. CASE Unmark \/ Mark \/ Settle
  BY <1>1, <1>2 DEF Unmark, Mark, Settle, At, Known, Recorded
<1>3. CASE Finish
  BY <1>3 DEF Finish
<1>4. ASSUME UNCHANGED disk PROVE disk'.applied = disk.applied
  BY <1>4
<1>5. CASE (\E c \in Contents : Publish(c)) \/ Crash \/ PowerLoss \/ DeviceLost
  BY <1>4, <1>5 DEF Publish, Crash, PowerLoss, DeviceLost
<1>6. CASE Begin \/ Recover \/ CheckSkips \/ CheckRestores \/ Discover \/ DiscoverFailed
           \/ NoOp \/ Proceed \/ Preflight \/ Backup \/ Teardown \/ Install
  BY <1>4, <1>6 DEF Begin, Recover, CheckSkips, CheckRestores, Discover, DiscoverFailed,
     NoOp, Proceed, Preflight, Backup, Teardown, Install
<1>7. CASE DeviceSet \/ DeviceRefused \/ LinkUp \/ LinkFailed \/ RollbackNone \/ Rollback
  BY <1>4, <1>7 DEF DeviceSet, DeviceRefused, LinkUp, LinkFailed, RollbackNone, Rollback
<1> QED BY <1>2, <1>3, <1>5, <1>6, <1>7 DEF Next, Pass

\* A record that is out of date stays so until a transaction ends: the other
\* steps make a record neither new nor current.
LEMMA CurrentBefore ==
  ASSUME NoPartialRestore, TypeInv, Known, Next, disk'.applied = Recorded, Current'
  PROVE  Current
<1> USE DEF Current, Recorded, Known
<1>0. disk.applied # None
  OBVIOUS
<1>1. CASE \E c \in Contents : Publish(c)
  BY <1>1 DEF Publish, passVars, NoPartialRestore, TypeInv, TypeOK
<1>2. CASE Discover
  BY <1>2 DEF Discover, worldVars
<1>3. ASSUME UNCHANGED worldVars, cand' \in {cand, None} PROVE Current
  BY <1>3 DEF worldVars
<1>4. CASE Begin \/ Recover \/ Unmark \/ CheckSkips \/ CheckRestores
           \/ DiscoverFailed \/ NoOp \/ Proceed \/ Preflight
  BY <1>4, <1>3 DEF Begin, Recover, Unmark, CheckSkips, CheckRestores, DiscoverFailed, NoOp,
     Proceed, Preflight, Return
<1>5. CASE Backup \/ Mark \/ Teardown \/ Install \/ DeviceSet \/ DeviceRefused
           \/ LinkUp \/ LinkFailed
  BY <1>5, <1>3 DEF Backup, Mark, Teardown, Install, DeviceSet, DeviceRefused, LinkUp,
     LinkFailed, Applied, NotApplied, Return
<1>6. CASE Finish \/ RollbackNone \/ Rollback \/ Settle \/ Crash \/ PowerLoss \/ DeviceLost
  BY <1>6, <1>3 DEF Finish, RollbackNone, Rollback, Settle, Crash, PowerLoss, DeviceLost,
     Return, passVars
<1> QED BY <1>1, <1>2, <1>4, <1>5, <1>6 DEF Next, Pass

\* A transaction is begun only for what is not on record, or without a device.
LEMMA ProceedsForNew ==
  ASSUME NoPartialRestore, TypeInv, Known, Proceed, Current
  PROVE  dev = None
<1>1. cand \in Contents /\ pc = "decide" /\ "probe" \notin risks
  BY DEF Proceed, At, TypeInv, TypeOK, Shape, NoPartialRestore
<1>2. CASE ~Unchanged
  BY <1>1, <1>2, SyncAssumption DEF Unchanged, Known, Current, Recorded
<1>3. CASE ProbeAbsent
  BY <1>1, <1>3 DEF ProbeAbsent, Fails
<1> QED BY <1>2, <1>3 DEF Proceed

\* Every step keeps the device of a current record, where none is lost.
LEMMA StepStable ==
  ASSUME NoPartialRestore, TypeInv, Known, Finishing, Stable, Next, "lost" \notin risks
  PROVE  Stable'
<1> SUFFICES ASSUME Current' PROVE Stable'
  BY DEF Stable
<1> USE SyncAssumption DEF At, Goto, Durable
<1>0. /\ disk \in LocalState /\ st \in LocalState /\ published \subseteq Contents
      /\ cur \in published /\ cand \in Contents \cup {None} /\ risks \in Risks
  BY DEF TypeInv, TypeOK
<1>1. CASE Finish /\ disk' = Committed
  <2>1. /\ disk'.pending = FALSE /\ disk'.applied = cand
    BY <1>0, <1>1 DEF Committed, LocalState
  <2>2. conf = cand /\ Durable /\ dev = Exact(cand)
    BY <1>1 DEF Finish, Finishing, OrLost
  <2>3. pc' = "idle" /\ UNCHANGED <<conf, dirty, dev>>
    BY <1>1 DEF Finish, Return, fileVars
  <2> QED BY <2>1, <2>2, <2>3 DEF Stable, Recorded
<1>2. CASE ~(Finish /\ disk' = Committed)
  <2>1. disk'.applied = disk.applied
    BY <1>0, <1>2, RecordKept DEF Known, Recorded
  <2>2. Current
    BY <2>1, CurrentBefore DEF Recorded
  <2>3. /\ ~disk.pending /\ conf = Recorded /\ Durable
        /\ pc \in {"idle", "check"} => dev = Exact(Recorded) \/ ("power" \in risks /\ dev = None)
        /\ pc \in {"discover", "decide"} => dev = Exact(Recorded)
        /\ \/ pc \in {"idle", "check", "discover", "decide"}
           \/ "power" \in risks /\ Applying({"restore"})
        /\ pc = "device" => dev = None
        /\ pc = "link" => dev = New(Recorded)
    BY <2>2 DEF Stable
  <2>4. /\ Recorded \in Contents /\ Exact(Recorded) # None /\ New(Recorded) # None
        /\ Recorded # Torn
    <3>1. Recorded \in Contents
      BY <1>0, <2>2 DEF Current, Recorded, LocalState
    <3>2. Exact(Recorded) \in Device
      BY <3>1 DEF Exact, Device
    <3>3. New(Recorded) \in Device
      BY <3>1 DEF New, Device
    <3> QED BY <3>1, <3>2, <3>3, DeviceAssumption
  <2>5. "probe" \notin risks
    BY <1>0 DEF NoPartialRestore
  <2>6. "power" \in risks => risks \cap {"device", "link", "crash"} = {}
    BY <1>0 DEF NoPartialRestore
  <2>7. CopyTarget = {}
    BY <2>3 DEF CopyTarget, Applying
  <2>8. ASSUME UNCHANGED <<conf, dirty, risks>>, disk'.pending = disk.pending,
               pc' \in {"idle", "check", "discover", "decide"},
               dev' = Exact(Recorded)
        PROVE  Stable'
    BY <2>1, <2>3, <2>8 DEF Stable, Recorded
  <2>9. CASE Begin
    BY <2>1, <2>3, <2>9 DEF Begin, Stable, Recorded, fileVars, worldVars
  <2>10. CASE CheckSkips
    <3>1. dev = Exact(Recorded)
      BY <2>3, <2>4, <2>10 DEF CheckSkips
    <3> QED BY <2>8, <2>10, <3>1 DEF CheckSkips, fileVars, worldVars
  <2>11. CASE CheckRestores
    <3>1. dev = None /\ "power" \in risks
      BY <2>3, <2>4, <2>5, <2>11 DEF CheckRestores, ProbeAbsent, Fails
    <3> QED BY <2>1, <2>3, <2>11, <3>1
         DEF CheckRestores, Stable, Recorded, fileVars, worldVars, Applying
  <2>12. CASE Discover \/ DiscoverFailed \/ NoOp
    BY <2>3, <2>8, <2>12
       DEF Discover, DiscoverFailed, NoOp, Return, fileVars, worldVars
  <2>13. CASE Proceed
    <3>1. dev = None
      BY <2>2, <2>13, ProceedsForNew
    <3> QED BY <2>3, <2>4, <2>13, <3>1 DEF Proceed
  <2>14. CASE DeviceSet
    <3>1. /\ dev = None /\ pc' = "link" /\ dev' = New(Recorded)
          /\ "power" \in risks /\ call = "restore"
      BY <2>3, <2>14 DEF DeviceSet, New, Applying
    <3>2. UNCHANGED <<call, conf, dirty, risks, disk>>
      BY <2>14 DEF DeviceSet, fileVars, worldVars
    <3> QED BY <2>3, <3>1, <3>2 DEF Stable, Recorded, Applying
  <2>15. CASE DeviceRefused
    BY <2>3, <2>4, <2>6, <2>15 DEF DeviceRefused, Fails
  <2>16. CASE LinkUp
    <3>1. dev = New(Recorded) /\ call = "restore" /\ conf = Recorded
      BY <2>3, <2>16 DEF LinkUp, Applying
    <3>2. pc' = "discover" /\ UNCHANGED <<conf, dirty, risks, disk>>
      BY <2>16, <3>1 DEF LinkUp, Applied, fileVars, worldVars
    <3>3. dev' = Exact(Recorded)
      BY <2>16, <3>1 DEF LinkUp, New, Exact
    <3> QED BY <2>8, <3>2, <3>3
  <2>17. CASE LinkFailed
    BY <2>3, <2>4, <2>6, <2>17 DEF LinkFailed, Fails
  <2>18. CASE Crash
    <3>1. dev = Exact(Recorded)
      BY <2>3, <2>6, <2>18 DEF Crash, Fails
    <3> QED BY <2>7, <2>8, <2>18, <3>1 DEF Crash, Tear, Return, worldVars
  <2>19. CASE PowerLoss
    <3>1. conf' = conf
      BY <2>3, <2>7, <2>19 DEF PowerLoss, Survives
    <3> QED BY <2>1, <2>3, <2>19, <3>1 DEF PowerLoss, Fails, Return, Stable, Recorded, worldVars
  <2>20. CASE DeviceLost
    BY <2>20 DEF DeviceLost, Fails
  <2>21. CASE \E c \in Contents : Publish(c)
    BY <2>1, <2>3, <2>21 DEF Publish, Stable, Recorded, Applying, fileVars, passVars
  <2>22. ~(Recover \/ Unmark \/ Preflight \/ Backup \/ Mark \/ Teardown \/ Install
            \/ Finish \/ RollbackNone \/ Rollback \/ Settle)
    BY <2>3 DEF Recover, Unmark, Preflight, Backup, Mark, Teardown, Install, Finish,
       RollbackNone, Rollback, Settle, Applying
  <2> QED
    BY <2>9, <2>10, <2>11, <2>12, <2>13, <2>14, <2>15, <2>16, <2>17, <2>18, <2>19, <2>20,
       <2>21, <2>22 DEF Next, Pass
<1> QED BY <1>1, <1>2

\* Every step keeps what is on record recoverable, where devices are lost.
LEMMA StepLossy ==
  ASSUME NoPartialRestore, TypeInv, Known, Finishing, Lossy, Next, "lost" \in risks
  PROVE  Lossy'
<1> SUFFICES ASSUME Current' PROVE Lossy'
  BY DEF Lossy
<1> USE SyncAssumption DEF At, Goto
<1>0. /\ disk \in LocalState /\ st \in LocalState /\ published \subseteq Contents
      /\ cur \in published /\ cand \in Contents \cup {None} /\ risks \in Risks
  BY DEF TypeInv, TypeOK
<1>1. CASE Finish /\ disk' = Committed
  <2>1. /\ disk'.pending = FALSE /\ disk'.applied = cand
    BY <1>0, <1>1 DEF Committed, LocalState
  <2>2. conf = cand /\ dev \in {None, Exact(cand)}
    BY <1>1 DEF Finish, Finishing, OrLost
  <2>3. pc' = "idle" /\ UNCHANGED <<conf, dev>>
    BY <1>1 DEF Finish, Return, fileVars
  <2> QED BY <2>1, <2>2, <2>3 DEF Lossy, Recorded, NextConf, Unmarked, Marked, Applying
<1>2. CASE ~(Finish /\ disk' = Committed)
  <2>1. disk'.applied = disk.applied
    BY <1>0, <1>2, RecordKept DEF Known, Recorded
  <2>2. Current
    BY <2>1, CurrentBefore DEF Recorded
  <2>3. /\ pc \in {"idle", "recover"} => NextConf = Recorded
        /\ pc = "recover" => st = disk /\ disk.pending
        /\ pc = "unmark" => conf = Recorded /\ ~st.pending
        /\ Unmarked => conf = Recorded /\ ~disk.pending
        /\ pc = "mark" => /\ conf = Recorded /\ backup = Recorded
                          /\ st.pending /\ st.hadBackup /\ ~disk.pending
        /\ Marked => /\ disk.pending /\ disk.hadBackup /\ st.hadBackup
                     /\ backup = Recorded
        /\ pc \in {"device", "link", "finish", "settle"} => conf = Recorded
        /\ pc = "link" => dev \in {None, New(Recorded)}
        /\ pc \in {"device", "rollback", "install"} => dev = None
        /\ pc # "link" => dev \in {None, Exact(Recorded)}
    BY <2>2 DEF Lossy
  <2>4. /\ Recorded \in Contents /\ Exact(Recorded) # None /\ New(Recorded) # None
        /\ Recorded # Torn /\ Recorded # None
    <3>1. Recorded \in Contents
      BY <1>0, <2>2 DEF Current, Recorded, LocalState
    <3>2. Exact(Recorded) \in Device
      BY <3>1 DEF Exact, Device
    <3>3. New(Recorded) \in Device
      BY <3>1 DEF New, Device
    <3> QED BY <3>1, <3>2, <3>3, DeviceAssumption
  <2>5. risks \cap {"power", "device", "link", "crash", "recover", "unmark", "probe"} = {}
    BY <1>0 DEF NoPartialRestore
  <2>6. Marked \/ pc \in {"mark", "preflight", "backup"} => cand = Recorded
    BY <2>2 DEF TypeInv, Shape, Transaction, Marked, Known, Current
  <2>7. /\ Recovered.pending = FALSE /\ Recovered.hadBackup = st.hadBackup
        /\ Pending.pending = TRUE /\ Pending.hadBackup = (conf # None)
    BY <1>0 DEF Recovered, Pending, LocalState
  <2>8. ASSUME pc' = "idle", UNCHANGED dev, pc # "link",
               NextConf' = Recorded
        PROVE  Lossy'
    BY <2>1, <2>3, <2>8 DEF Lossy, Recorded, Unmarked, Marked, Applying
  <2>9. ASSUME pc' \in {"check", "discover", "decide", "preflight", "backup"},
               UNCHANGED <<conf, dev>>, pc # "link",
               conf = Recorded, ~disk'.pending
        PROVE  Lossy'
    BY <2>1, <2>3, <2>9 DEF Lossy, Recorded, Unmarked, Marked, Applying
  <2>10. CASE Begin
    <3>1. CASE disk.pending
      BY <2>1, <2>3, <2>10, <3>1 DEF Begin, Lossy, Recorded, NextConf, Unmarked, Marked,
         Applying, fileVars
    <3>2. CASE ~disk.pending
      BY <2>3, <2>9, <2>10, <3>2 DEF Begin, NextConf, fileVars
    <3> QED BY <3>1, <3>2
  <2>11. CASE Recover
    <3>1. /\ conf' = Recorded /\ pc' = "unmark" /\ UNCHANGED dev /\ st' = Recovered
          /\ pc = "recover"
      BY <2>3, <2>5, <2>11
         DEF Recover, HasBackup, CopyTo, Fails, NextConf, fileVars
    <3> QED BY <2>1, <2>3, <2>7, <3>1 DEF Lossy, Recorded, Unmarked, Marked, Applying
  <2>12. CASE Unmark
    BY <2>3, <2>5, <2>9, <2>12 DEF Unmark, Fails, fileVars
  <2>13. CASE CheckSkips \/ Discover \/ Proceed
    BY <2>3, <2>9, <2>13 DEF CheckSkips, Discover, Proceed, Unmarked, fileVars
  <2>14. CASE CheckRestores
    <3>1. /\ pc = "check" /\ dev = None /\ pc' = "device" /\ call' = "restore"
          /\ UNCHANGED <<conf, disk, dev>>
      BY <2>5, <2>14 DEF CheckRestores, ProbeAbsent, Fails, fileVars
    <3> QED BY <2>1, <2>3, <3>1 DEF Lossy, Recorded, Unmarked, Marked, Applying
  <2>15. CASE DiscoverFailed \/ NoOp
    BY <2>3, <2>8, <2>15
       DEF DiscoverFailed, NoOp, Return, Unmarked, NextConf, fileVars
  <2>16. CASE Preflight
    BY <2>3, <2>8, <2>9, <2>16 DEF Preflight, Return, Unmarked, NextConf, fileVars
  <2>17. CASE Backup
    <3>1. conf = Recorded /\ ~disk.pending /\ UNCHANGED <<disk, dev>> /\ pc = "backup"
      BY <2>3, <2>17 DEF Backup, Unmarked
    <3>2. CASE pc' = "mark"
      <4>1. backup' = Recorded /\ conf' = Recorded /\ st' = Pending
        BY <2>4, <2>17, <3>1, <3>2 DEF Backup, CopyTo, Return
      <4> QED BY <2>1, <2>3, <2>4, <2>7, <3>1, <3>2, <4>1
              DEF Lossy, Recorded, Unmarked, Marked, Applying
    <3>3. CASE pc' # "mark"
      <4>1. pc' = "idle" /\ conf' = conf
        BY <2>17, <3>3 DEF Backup, CopyBroken, CopyTo, Return
      <4> QED BY <2>8, <3>1, <4>1 DEF NextConf
    <3> QED BY <3>2, <3>3
  <2>18. CASE Mark
    <3>1. CASE pc' = "teardown"
      BY <2>1, <2>3, <2>18, <3>1
         DEF Mark, Return, Lossy, Recorded, Unmarked, Marked, Applying, fileVars
    <3>2. CASE pc' # "teardown"
      BY <2>3, <2>8, <2>18, <3>2 DEF Mark, Return, NextConf, fileVars
    <3> QED BY <3>1, <3>2
  <2>19. CASE Teardown
    <3>1. /\ pc = "teardown" /\ Marked /\ UNCHANGED <<conf, backup, disk>>
      BY <2>19 DEF Teardown, Marked, fileVars
    <3>2. CASE pc' = "install"
      <4>1. dev' = None /\ st' = st
        BY <2>5, <2>19, <3>2 DEF Teardown, Return, ProbeAbsent, Fails
      <4> QED BY <2>1, <2>3, <3>1, <3>2, <4>1
              DEF Lossy, Recorded, Unmarked, Marked, Applying
    <3>3. CASE pc' # "install"
      BY <2>3, <2>4, <2>8, <2>19, <3>1, <3>3 DEF Teardown, Return, NextConf
    <3> QED BY <3>2, <3>3
  <2>20. CASE Install
    <3>1. /\ pc = "install" /\ Marked /\ UNCHANGED <<backup, disk, dev, st>>
          /\ \/ pc' = "device" /\ call' = "install" /\ conf' = cand
             \/ pc' = "rollback"
      BY <2>20 DEF Install, Marked
    <3> QED BY <2>1, <2>3, <2>6, <3>1 DEF Lossy, Recorded, Unmarked, Marked, Applying
  <2>21. CASE DeviceSet
    <3>1. /\ pc = "device" /\ dev = None /\ pc' = "link" /\ dev' = New(Recorded)
          /\ UNCHANGED <<conf, backup, disk, st, call>>
      BY <2>3, <2>21 DEF DeviceSet, New, fileVars
    <3> QED BY <2>1, <2>3, <3>1 DEF Lossy, Recorded, Unmarked, Marked, Applying
  <2>22. CASE DeviceRefused
    BY <2>3, <2>4, <2>5, <2>22 DEF DeviceRefused, Fails
  <2>23. CASE LinkUp
    <3>1. dev = New(Recorded) /\ conf = Recorded /\ pc = "link"
      BY <2>3, <2>23 DEF LinkUp
    <3>2. dev' = Exact(Recorded)
      BY <2>23, <3>1 DEF LinkUp, New, Exact
    <3>3. /\ call \in {"restore", "install", "rollback"}
          /\ pc' = (CASE call = "restore"  -> "discover"
                      [] call = "install"  -> "finish"
                      [] call = "rollback" -> "settle")
          /\ UNCHANGED <<conf, backup, disk, st>>
      BY <2>23 DEF LinkUp, Applied, TypeInv, TypeOK, Shape, fileVars
    <3> QED BY <2>1, <2>3, <3>1, <3>2, <3>3
            DEF Lossy, Recorded, Unmarked, Marked, Applying
  <2>24. CASE LinkFailed
    <3>1. dev = None /\ dev' = None /\ pc = "link" /\ NotApplied
          /\ UNCHANGED <<conf, backup, disk>>
      BY <2>5, <2>24 DEF LinkFailed, Fails, fileVars
    <3>2. CASE call = "rollback"
      BY <2>1, <2>3, <2>4, <3>1, <3>2
         DEF NotApplied, Return, Lossy, Recorded, Unmarked, Marked, Applying, NextConf
    <3>3. CASE call # "rollback"
      <4>1. /\ call \in {"restore", "install"} /\ st' = st
            /\ pc' = IF call = "restore" THEN "discover" ELSE "rollback"
        BY <3>1, <3>3 DEF NotApplied, TypeInv, TypeOK, Shape
      <4> QED BY <2>1, <2>3, <3>1, <4>1 DEF Lossy, Recorded, Unmarked, Marked, Applying
    <3> QED BY <3>2, <3>3
  <2>25. CASE Finish \/ Settle
    <3>1. /\ UNCHANGED <<conf, backup, dev>> /\ pc \in {"finish", "settle"} /\ Marked
          /\ pc' = "idle" /\ (disk' = disk \/ disk' = Recovered)
      BY <1>2, <2>25 DEF Finish, Settle, Return, Marked, fileVars
    <3> QED BY <2>3, <2>4, <2>7, <2>8, <3>1 DEF NextConf
  <2>26. CASE RollbackNone
    BY <2>3, <2>26 DEF RollbackNone, Marked
  <2>27. CASE Rollback
    <3>1. /\ pc = "rollback" /\ Marked /\ UNCHANGED <<backup, disk, dev>>
          /\ \/ pc' = "device" /\ call' = "rollback" /\ st' = st /\ conf' = backup
             \/ pc' = "idle"
      BY <2>27 DEF Rollback, Return, CopyBroken, CopyTo, Marked
    <3>2. CASE pc' = "device"
      BY <2>1, <2>3, <3>1, <3>2 DEF Lossy, Recorded, Unmarked, Marked, Applying
    <3>3. CASE pc' = "idle"
      BY <2>3, <2>4, <2>8, <3>1, <3>3 DEF NextConf
    <3> QED BY <3>1, <3>2, <3>3
  <2>28. CASE Crash \/ PowerLoss
    BY <2>5, <2>28 DEF Crash, PowerLoss, Fails
  <2>29. CASE DeviceLost
    BY <2>1, <2>3, <2>29 DEF DeviceLost, Lossy, Recorded, Unmarked, Marked, Applying,
       NextConf, fileVars, passVars
  <2>30. CASE \E c \in Contents : Publish(c)
    BY <2>1, <2>3, <2>30 DEF Publish, Lossy, Recorded, Unmarked, Marked, Applying,
       NextConf, fileVars, passVars
  <2> QED
    BY <2>10, <2>11, <2>12, <2>13, <2>14, <2>15, <2>16, <2>17, <2>18, <2>19, <2>20, <2>21,
       <2>22, <2>23, <2>24, <2>25, <2>26, <2>27, <2>28, <2>29, <2>30 DEF Next, Pass
<1> QED BY <1>1, <1>2

\* The faults that can happen are chosen once.
LEMMA RisksFixed == Next => UNCHANGED risks
<1> SUFFICES ASSUME Next PROVE UNCHANGED risks
  OBVIOUS
<1>1. CASE (\E c \in Contents : Publish(c)) \/ Crash \/ PowerLoss \/ DeviceLost
  BY <1>1 DEF Publish, Crash, PowerLoss, DeviceLost, worldVars
<1>2. CASE Begin \/ Recover \/ Unmark \/ CheckSkips \/ CheckRestores \/ Discover
           \/ DiscoverFailed \/ NoOp \/ Proceed \/ Preflight \/ Backup \/ Mark
  BY <1>2 DEF Begin, Recover, Unmark, CheckSkips, CheckRestores, Discover, DiscoverFailed,
     NoOp, Proceed, Preflight, Backup, Mark, worldVars
<1>3. CASE Teardown \/ Install \/ DeviceSet \/ DeviceRefused \/ LinkUp \/ LinkFailed
           \/ Finish \/ RollbackNone \/ Rollback \/ Settle
  BY <1>3 DEF Teardown, Install, DeviceSet, DeviceRefused, LinkUp, LinkFailed, Finish,
     RollbackNone, Rollback, Settle, worldVars
<1> QED BY <1>1, <1>2, <1>3 DEF Next, Pass

\* Every step keeps the record trustworthy.
LEMMA StepTrusted ==
  NoPartialRestore /\ TypeInv /\ Trusted /\ [Next]_vars => Trusted'
<1> SUFFICES ASSUME NoPartialRestore, TypeInv, Trusted, [Next]_vars PROVE Trusted'
  OBVIOUS
<1>1. Known' /\ Finishing'
  BY StepKnown, StepFinishing DEF Trusted
<1>2. CASE Next
  BY <1>1, <1>2, StepStable, StepLossy, RisksFixed DEF Trusted
<1>3. CASE UNCHANGED vars
  <2>1. Stable => Stable'
    BY <1>3 DEF vars, fileVars, worldVars, passVars, Stable, Current, Recorded, Applying,
       Durable
  <2>2. Lossy => Lossy'
    BY <1>3 DEF vars, fileVars, worldVars, passVars, Lossy, Current, Recorded, Applying,
       NextConf, Unmarked, Marked
  <2> QED BY <1>1, <1>3, <2>1, <2>2 DEF Trusted, vars, worldVars
<1> QED BY <1>2, <1>3

\* Only the decision that nothing changed reports no_op.
LEMMA OnlyNoOpReports ==
  ASSUME Next, outcome # "no_op", outcome' = "no_op"
  PROVE  NoOp
<1>1. CASE (\E c \in Contents : Publish(c)) \/ Crash \/ PowerLoss \/ DeviceLost
  BY <1>1 DEF Publish, Crash, PowerLoss, DeviceLost, Return, passVars
<1>2. CASE Begin \/ Recover \/ Unmark \/ CheckSkips \/ CheckRestores \/ Discover
           \/ DiscoverFailed \/ Proceed \/ Preflight \/ Backup \/ Mark
  BY <1>2 DEF Begin, Recover, Unmark, CheckSkips, CheckRestores, Discover, DiscoverFailed,
     Proceed, Preflight, Backup, Mark, Return
<1>3. CASE Teardown \/ Install \/ DeviceSet \/ DeviceRefused \/ LinkUp \/ LinkFailed
           \/ Finish \/ RollbackNone \/ Rollback \/ Settle
  BY <1>3 DEF Teardown, Install, DeviceSet, DeviceRefused, LinkUp, LinkFailed, Finish,
     RollbackNone, Rollback, Settle, Return, Applied, NotApplied
<1> QED BY <1>1, <1>2, <1>3 DEF Next, Pass

\* When no pass is forced, nothing is published twice, and applications do not
\* stop half way where devices are lost, a pass that reports no_op (run_once's
\* `unchanged`) has found the kernel exactly as the configuration it downloaded.
THEOREM NoOpIsExact == NoPartialRestore => (Spec => NoOpExact)
<1> SUFFICES ASSUME NoPartialRestore PROVE Spec => NoOpExact
  OBVIOUS
<1>1. Init => TypeInv /\ Trusted
  BY InitType, InitTrusted
<1>2. TypeInv /\ Trusted /\ [Next]_vars => (TypeInv /\ Trusted)'
  BY StepType, StepTrusted
<1>3. TypeInv /\ Trusted /\ [Next]_vars =>
        [(outcome # "no_op" /\ outcome' = "no_op") => dev = Exact(cand)]_vars
  <2> SUFFICES ASSUME TypeInv, Trusted, Next, outcome # "no_op", outcome' = "no_op"
               PROVE  dev = Exact(cand)
    OBVIOUS
  <2>1. NoOp
    BY OnlyNoOpReports
  <2>2. /\ cand = Recorded /\ pc = "decide" /\ dev # None /\ cand \in Contents
    BY <2>1 DEF NoOp, At, Unchanged, Trusted, Known, TypeInv, TypeOK, Shape
  <2>3. Current
    BY <2>2, SyncAssumption DEF Current
  <2>4. CASE "lost" \in risks
    BY <2>2, <2>3, <2>4 DEF Trusted, Lossy
  <2>5. CASE "lost" \notin risks
    BY <2>2, <2>3, <2>5 DEF Trusted, Stable
  <2> QED BY <2>4, <2>5
<1> QED
  BY <1>1, <1>2, <1>3, PTL DEF Spec, NoOpExact
=============================================================================
