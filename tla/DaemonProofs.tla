---------------------------- MODULE DaemonProofs ----------------------------
(***************************************************************************)
(* The lock of an interface is held by exactly the pass that works on it,  *)
(* and signals end a daemon only where main lets them, for any number of   *)
(* processes, configuration files and signals.                             *)
(***************************************************************************)
EXTENDS Daemon, TLAPS

\* A pass has read a path that names an interface, and holds its lock.
HoldsItsLock ==
  \A p \in Procs :
    /\ pc[p] = "locking" \/ InPass(p) => path[p] \in Paths /\ interface_name(path[p]) # {}
    /\ InPass(p) => \A i \in interface_name(path[p]) : lock[i] = p

LockInv == TypeOK /\ LockedByAPass /\ HoldsItsLock

\* A configuration names one interface at most.
LEMMA OneInterface ==
  ASSUME NEW x \in Paths
  PROVE  /\ \A i, j \in interface_name(x) : i = j
         /\ interface_name(x) \subseteq Interfaces
  BY DEF interface_name, Interfaces

\* Initially no process runs and no lock is held.
LEMMA LockInit == Init => LockInv
  BY DaemonAssumption DEF Init, LockInv, TypeOK, LockedByAPass, HoldsItsLock, InPass

\* Every step of every process and of the operator keeps the lock with its pass.
LEMMA LockStep == LockInv /\ [Next]_vars => LockInv'
<1> SUFFICES ASSUME LockInv, [Next]_vars PROVE LockInv'
  OBVIOUS
<1> USE DaemonAssumption DEF LockInv, InPass
<1>1. ASSUME NEW p \in Procs, Start(p) PROVE LockInv'
  BY <1>1 DEF Start, Goto, TypeOK, LockedByAPass, HoldsItsLock, vars
<1>2. ASSUME NEW p \in Procs, BadInterval(p) PROVE LockInv'
  BY <1>2 DEF BadInterval, Goto, TypeOK, LockedByAPass, HoldsItsLock
<1>3. ASSUME NEW p \in Procs, Enter(p) PROVE LockInv'
  BY <1>3 DEF Enter, Goto, TypeOK, LockedByAPass, HoldsItsLock
<1>4. ASSUME NEW p \in Procs, ReadConfig(p) PROVE LockInv'
  BY <1>4 DEF ReadConfig, Configured, Goto, TypeOK, LockedByAPass, HoldsItsLock
<1>5. ASSUME NEW p \in Procs, ConfigRefused(p) \/ HostnameRefused(p) PROVE LockInv'
  BY <1>5 DEF ConfigRefused, HostnameRefused, AfterPass, Goto, TypeOK, LockedByAPass,
              HoldsItsLock
<1>6. ASSUME NEW p \in Procs, TryLock(p) PROVE LockInv'
  <2>1. PICK i \in interface_name(path[p]) : lock[i] = Nobody /\ lock' = [lock EXCEPT ![i] = p]
    BY <1>6 DEF TryLock
  <2>2. path[p] \in Paths /\ pc[p] = "locking"
    BY <1>6 DEF TryLock, HoldsItsLock
  <2>3. i \in Interfaces /\ \A j \in interface_name(path[p]) : j = i
    BY <2>1, <2>2, OneInterface
  <2>4. TypeOK'
    BY <1>6, <2>1, <2>3 DEF TryLock, Goto, TypeOK
  <2>5. LockedByAPass'
    BY <1>6, <2>1, <2>3 DEF TryLock, Goto, TypeOK, LockedByAPass
  <2>6. HoldsItsLock'
    <3> SUFFICES ASSUME NEW q \in Procs
                 PROVE  /\ (pc[q] = "locking" \/ InPass(q))' =>
                             path'[q] \in Paths /\ interface_name(path'[q]) # {}
                        /\ InPass(q)' => \A j \in interface_name(path'[q]) : lock'[j] = q
      BY DEF HoldsItsLock
    <3>1. CASE q = p
      BY <3>1, <1>6, <2>1, <2>2, <2>3 DEF TryLock, Goto, TypeOK
    <3>2. CASE q # p
      <4>1. pc'[q] = pc[q] /\ path'[q] = path[q]
        BY <3>2, <1>6 DEF TryLock, Goto, TypeOK
      <4>2. ASSUME InPass(q), NEW j \in interface_name(path[q]) PROVE lock'[j] = q
        <5>1. lock[j] = q /\ path[q] \in Paths
          BY <4>2 DEF HoldsItsLock
        <5>2. j \in Interfaces
          BY <5>1, OneInterface
        <5>3. j # i
          BY <5>1, <2>1
        <5> QED
          BY <5>1, <5>2, <5>3, <2>1 DEF TypeOK
      <4> QED
        BY <4>1, <4>2 DEF HoldsItsLock
    <3> QED
      BY <3>1, <3>2
  <2> QED
    BY <2>4, <2>5, <2>6
<1>7. ASSUME NEW p \in Procs, LockRefused(p) PROVE LockInv'
  BY <1>7 DEF LockRefused, AfterPass, Goto, TypeOK, LockedByAPass, HoldsItsLock
<1>8. ASSUME NEW p \in Procs, EndPass(p) PROVE LockInv'
  <2>1. TypeOK'
    BY <1>8 DEF EndPass, Released, AfterPass, Goto, TypeOK
  <2>2. LockedByAPass'
    BY <1>8 DEF EndPass, Released, AfterPass, Goto, TypeOK, LockedByAPass
  <2>3. HoldsItsLock'
    <3>1. ASSUME NEW q \in Procs, q # p, InPass(q), NEW i \in interface_name(path[q])
          PROVE  lock'[i] = q
      <4>1. lock[i] = q /\ i \in Interfaces
        BY <3>1, OneInterface DEF HoldsItsLock
      <4> QED
        BY <4>1, <3>1, <1>8 DEF EndPass, Released
    <3> QED
      BY <3>1, <1>8 DEF EndPass, AfterPass, Goto, TypeOK, HoldsItsLock
  <2> QED
    BY <2>1, <2>2, <2>3
<1>9. ASSUME NEW p \in Procs, Select(p) PROVE LockInv'
  BY <1>9 DEF Select, Goto, TypeOK, LockedByAPass, HoldsItsLock
<1>10. ASSUME NEW p \in Procs, Wake(p) PROVE LockInv'
  BY <1>10 DEF Wake, Goto, TypeOK, LockedByAPass, HoldsItsLock
<1>11. ASSUME NEW p \in Procs, ShutDown(p) PROVE LockInv'
  BY <1>11 DEF ShutDown, Goto, TypeOK, LockedByAPass, HoldsItsLock
<1>12. ASSUME NEW p \in Procs, Killed(p), UNCHANGED conf,
              edits' \in 0 .. MaxEdits, signals' \in 0 .. MaxSignals
       PROVE  LockInv'
  <2>1. TypeOK'
    BY <1>12 DEF Killed, Released, Goto, TypeOK
  <2>2. LockedByAPass'
    BY <1>12 DEF Killed, Released, Goto, TypeOK, LockedByAPass
  <2>3. HoldsItsLock'
    <3>1. ASSUME NEW q \in Procs, q # p, InPass(q), NEW i \in interface_name(path[q])
          PROVE  lock'[i] = q
      <4>1. lock[i] = q /\ i \in Interfaces
        BY <3>1, OneInterface DEF HoldsItsLock
      <4> QED
        BY <4>1, <3>1, <1>12 DEF Killed, Released
    <3> QED
      BY <3>1, <1>12 DEF Killed, Goto, TypeOK, HoldsItsLock
  <2> QED
    BY <2>1, <2>2, <2>3
<1>13. ASSUME NEW p \in Procs, SigTerm(p) PROVE LockInv'
  <2>1. UNCHANGED <<conf, edits>> /\ signals' \in 0 .. MaxSignals
    BY <1>13 DEF SigTerm, TypeOK
  <2>2. CASE Killed(p)
    BY <2>1, <2>2, <1>12 DEF TypeOK
  <2>3. CASE term' = [term EXCEPT ![p] = "received"] /\ UNCHANGED <<pc, path, lock, int>>
    BY <2>1, <2>3 DEF TypeOK, LockedByAPass, HoldsItsLock
  <2> QED
    BY <1>13, <2>2, <2>3 DEF SigTerm
<1>14. ASSUME NEW p \in Procs, SigInt(p) PROVE LockInv'
  <2>1. UNCHANGED <<conf, edits>> /\ signals' \in 0 .. MaxSignals
    BY <1>14 DEF SigInt, TypeOK
  <2>2. CASE Killed(p)
    BY <2>1, <2>2, <1>12 DEF TypeOK
  <2>3. CASE /\ int' = [int EXCEPT ![p] = IF @ = "listening" THEN "received" ELSE @]
             /\ UNCHANGED <<pc, path, lock, term>>
    BY <2>1, <2>3 DEF TypeOK, LockedByAPass, HoldsItsLock
  <2> QED
    BY <1>14, <2>2, <2>3 DEF SigInt
<1>15. ASSUME NEW p \in Procs, EditConfig(p) PROVE LockInv'
  BY <1>15 DEF EditConfig, TypeOK, LockedByAPass, HoldsItsLock
<1>16. ASSUME NEW p \in Procs, Hang(p) PROVE LockInv'
  BY <1>16 DEF Hang, Goto, TypeOK, LockedByAPass, HoldsItsLock
<1>17. CASE UNCHANGED vars
  BY <1>17 DEF vars, TypeOK, LockedByAPass, HoldsItsLock
<1> QED
  BY <1>1, <1>2, <1>3, <1>4, <1>5, <1>6, <1>7, <1>8, <1>9, <1>10, <1>11, <1>13,
     <1>14, <1>15, <1>16, <1>17 DEF Next, Step

\* The lock stays with its pass in every behaviour.
LEMMA LockAlways == Spec => []LockInv
  BY LockInit, LockStep, PTL DEF Spec

\* Type correctness of the node's processes, for any number of them.
THEOREM DaemonTypeCorrect == Spec => []TypeOK
<1>1. LockInv => TypeOK
  BY DEF LockInv
<1> QED
  BY <1>1, LockAlways, PTL

\* The lock of an interface is held by a pass on that interface and by nothing
\* else: EndPass and Killed give it back, and only TryLock takes it.
THEOREM LockHeldByAPass == Spec => []LockedByAPass
<1>1. LockInv => LockedByAPass
  BY DEF LockInv
<1> QED
  BY <1>1, LockAlways, PTL

\* Two passes never work on one interface or one file at a time, however the
\* configuration files are edited and whichever processes are killed.
THEOREM OnePassAtATime == Spec => []OnePassPerInterface
<1>1. LockInv => OnePassPerInterface
  BY DEF LockInv, OnePassPerInterface, HoldsItsLock
<1> QED
  BY <1>1, LockAlways, PTL

-----------------------------------------------------------------------------
\* A daemon that is past its first lines handles SIGTERM, and one that sleeps
\* handles SIGINT too.
Handles ==
  \A p \in Daemons :
    /\ pc[p] \notin {"off", "start", "exited", "killed"} => term[p] # "default"
    /\ pc[p] = "asleep" => int[p] # "default"

SignalInv == TypeOK /\ Handles

\* Both signals are handled and neither has killed the process.
Safe(p) == term[p] # "default" /\ int[p] # "default" /\ pc[p] # "killed"

\* Every step keeps the handlers that are installed.
LEMMA SignalStep == SignalInv /\ TypeOK' /\ [Next]_vars => SignalInv'
<1> SUFFICES ASSUME SignalInv, TypeOK', [Next]_vars PROVE Handles'
  BY DEF SignalInv
<1> USE DEF SignalInv, TypeOK, Handles
<1>1. ASSUME NEW q \in Procs, Start(q) \/ BadInterval(q) \/ Enter(q) PROVE Handles'
  BY <1>1 DEF Start, BadInterval, Enter, Goto, Procs
<1>2. ASSUME NEW q \in Procs, ReadConfig(q) \/ ConfigRefused(q) \/ HostnameRefused(q)
                           \/ TryLock(q) \/ LockRefused(q)
      PROVE  Handles'
  BY <1>2 DEF ReadConfig, ConfigRefused, HostnameRefused, TryLock, LockRefused, AfterPass,
              Goto, Procs
<1>3. ASSUME NEW q \in Procs, Hang(q) \/ EndPass(q) \/ Select(q) \/ Wake(q) \/ ShutDown(q)
      PROVE  Handles'
  BY <1>3 DEF InPass, Hang, EndPass, Select, Wake, ShutDown, AfterPass, Goto, Procs
<1>4. ASSUME NEW q \in Procs, SigTerm(q) \/ SigInt(q) \/ EditConfig(q) PROVE Handles'
  BY <1>4 DEF SigTerm, SigInt, EditConfig, Killed, Goto, Procs
<1>5. CASE UNCHANGED vars
  BY <1>5 DEF vars
<1> QED
  BY <1>1, <1>2, <1>3, <1>4, <1>5 DEF Next, Step

\* A process that handles both signals goes on doing so and is not killed.
LEMMA SafeStep ==
  ASSUME NEW p \in Daemons
  PROVE  SignalInv /\ Safe(p) /\ [Next]_vars => Safe(p)'
<1> SUFFICES ASSUME SignalInv, Safe(p), [Next]_vars PROVE Safe(p)'
  OBVIOUS
<1> USE DEF SignalInv, TypeOK, Safe, Procs
<1>1. ASSUME NEW q \in Procs, Start(q) \/ BadInterval(q) \/ Enter(q) PROVE Safe(p)'
  BY <1>1 DEF Start, BadInterval, Enter, Goto
<1>2. ASSUME NEW q \in Procs, ReadConfig(q) \/ ConfigRefused(q) \/ HostnameRefused(q)
                           \/ TryLock(q) \/ LockRefused(q)
      PROVE  Safe(p)'
  BY <1>2 DEF ReadConfig, ConfigRefused, HostnameRefused, TryLock, LockRefused, AfterPass,
              Goto
<1>3. ASSUME NEW q \in Procs, Hang(q) \/ EndPass(q) \/ Select(q) \/ Wake(q) \/ ShutDown(q)
      PROVE  Safe(p)'
  BY <1>3 DEF InPass, Hang, EndPass, Select, Wake, ShutDown, AfterPass, Goto
<1>4. ASSUME NEW q \in Procs, SigTerm(q) \/ SigInt(q) \/ EditConfig(q) PROVE Safe(p)'
  BY <1>4 DEF SigTerm, SigInt, EditConfig, Killed, Goto
<1>5. CASE UNCHANGED vars
  BY <1>5 DEF vars
<1> QED
  BY <1>1, <1>2, <1>3, <1>4, <1>5 DEF Next, Step

\* A daemon that has come to its first sleep is never killed by a signal: both
\* handlers are installed by then, and neither main nor tokio removes them.
THEOREM SignalsNeverKill == Spec => NeverKilledOnceAsleep
<1>1. Init => SignalInv
  BY DaemonAssumption DEF Init, SignalInv, TypeOK, Handles, Procs
<1>2. Spec => []SignalInv
  BY <1>1, SignalStep, DaemonTypeCorrect, PTL DEF Spec
<1>3. ASSUME NEW p \in Daemons
      PROVE  Spec => [](pc[p] = "asleep" => [](pc[p] # "killed"))
  <2>1. SignalInv /\ pc[p] = "asleep" => Safe(p)
    BY DEF SignalInv, Handles, Safe
  <2>2. SignalInv /\ Safe(p) /\ [Next]_vars => Safe(p)'
    BY SafeStep
  <2>3. Safe(p) => pc[p] # "killed"
    BY DEF Safe
  <2> QED
    BY <1>2, <2>1, <2>2, <2>3, PTL DEF Spec
<1> QED
  BY <1>3 DEF NeverKilledOnceAsleep
=============================================================================
