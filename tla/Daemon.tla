------------------------------- MODULE Daemon -------------------------------
(***************************************************************************)
(* The wg-client processes of a node: daemons and single passes, the lock  *)
(* each pass takes for its interface, the sleep between passes, and        *)
(* SIGTERM and SIGINT at any moment.  What a pass does under the lock is   *)
(* module Sync.                                                            *)
(*                                                                         *)
(* A process reads its configuration file anew for each pass, and the      *)
(* operator may edit that file.  A configuration is unusable or names the  *)
(* path of the wg-quick file, whose stem is the interface.                 *)
(***************************************************************************)
EXTENDS Naturals, FiniteSets

CONSTANTS
  Daemons, Onces,   \* the processes, with --daemon and without
  Paths,            \* values of conf_path, records of directory, stem and rest
  Nobody,           \* no path, no process
  MaxEdits,         \* bound: edits of configuration files
  MaxSignals        \* bound: signals sent

Procs == Daemons \cup Onces

VARIABLES
  pc,       \* where each process is
  conf,     \* conf_path in its configuration file, Nobody if it is unusable
  path,     \* conf_path as the current pass read it
  lock,     \* who holds the lock of each interface
  term,     \* is SIGTERM handled: "default", "handled" or "received"
  int,      \* is SIGINT handled: "default", "ignored", "listening", "received"
  edits, signals   \* how many there were

vars == <<pc, conf, path, lock, term, int, edits, signals>>

ASSUME DaemonAssumption ==
  /\ Daemons \cap Onces = {} /\ Nobody \notin Procs /\ Nobody \notin Paths
  /\ MaxEdits \in Nat /\ MaxSignals \in Nat

(***************************************************************************)
(* The interface of a configuration: as a set, empty when it is refused.   *)
(***************************************************************************)
ValidStem(stem) == stem.length \in 1 .. 15 /\ stem.clean /\ ~stem.dots

interface_name(p) ==
  {p.stem : q \in {x \in {p} : x.absolute /\ x.extension = "conf" /\ ValidStem(x.stem)}}

Interfaces == UNION {interface_name(p) : p \in Paths}

\* The interface that a configuration file names.
Configured(c) == IF c = Nobody THEN {} ELSE interface_name(c)

Init ==
  /\ pc = [p \in Procs |-> "off"]
  /\ conf \in [Procs -> Paths \cup {Nobody}]
  /\ path = [p \in Procs |-> Nobody]
  /\ lock = [i \in Interfaces |-> Nobody]
  /\ term = [p \in Procs |-> "default"]
  /\ int = [p \in Procs |-> "default"]
  /\ edits = 0 /\ signals = 0

Goto(p, there) == pc' = [pc EXCEPT ![p] = there]

\* Mutant: the lock stays.
ReleasedNever(p) == lock

\* A process that ends gives its lock back.
Released(p) == [i \in Interfaces |-> IF lock[i] = p THEN Nobody ELSE lock[i]]

\* Mutant: main returns after any pass.
AfterPassExits(p) == "exited"

\* Mutant: main loops, with --daemon or without.
AfterPassLoops(p) == "passed"

\* Where a process is when its pass is over: main returns, or sleeps.
AfterPass(p) == IF p \in Daemons THEN "passed" ELSE "exited"

\* A process is inside run_sync_pass and holds its lock.
InPass(p) == pc[p] \in {"pass", "hung"}

(***************************************************************************)
(* main.                                                                   *)
(***************************************************************************)
Start(p) ==
  /\ pc[p] = "off"
  /\ Goto(p, "start")
  /\ UNCHANGED <<conf, path, lock, term, int, edits, signals>>

\* parse_duration refuses the interval.
BadInterval(p) ==
  /\ pc[p] = "start"
  /\ Goto(p, "exited")
  /\ UNCHANGED <<conf, path, lock, term, int, edits, signals>>

\* A daemon installs its SIGTERM handler before its first pass.
Enter(p) ==
  /\ pc[p] = "start"
  /\ Goto(p, "ready")
  /\ term' = IF p \in Daemons THEN [term EXCEPT ![p] = "handled"] ELSE term
  /\ UNCHANGED <<conf, path, lock, int, edits, signals>>

\* Mutant: the interface is kept in place of the path.
ReadConfigStem(p) ==
  /\ pc[p] = "ready"
  /\ Configured(conf[p]) # {}
  /\ path' = [path EXCEPT ![p] = conf[p].stem]
  /\ Goto(p, "locking")
  /\ UNCHANGED <<conf, lock, term, int, edits, signals>>

\* run_sync_pass, up to the lock.
ReadConfig(p) ==
  /\ pc[p] = "ready"
  /\ Configured(conf[p]) # {}
  /\ path' = [path EXCEPT ![p] = conf[p]]
  /\ Goto(p, "locking")
  /\ UNCHANGED <<conf, lock, term, int, edits, signals>>

\* The file is unreadable, does not parse or names no interface.
ConfigRefused(p) ==
  /\ pc[p] = "ready"
  /\ Configured(conf[p]) = {}
  /\ Goto(p, AfterPass(p))
  /\ UNCHANGED <<conf, path, lock, term, int, edits, signals>>

\* The flag, the environment or the system gives no valid hostname.
HostnameRefused(p) ==
  /\ pc[p] = "ready"
  /\ Configured(conf[p]) # {}
  /\ Goto(p, AfterPass(p))
  /\ UNCHANGED <<conf, path, lock, term, int, edits, signals>>

\* Mutant: the lock is taken for reading, beside others.
TryLockShared(p) ==
  /\ pc[p] = "locking"
  /\ \E i \in interface_name(path[p]) : lock' = [lock EXCEPT ![i] = p]
  /\ Goto(p, "pass")
  /\ UNCHANGED <<conf, path, term, int, edits, signals>>

TryLock(p) ==
  /\ pc[p] = "locking"
  /\ \E i \in interface_name(path[p]) :
       /\ lock[i] = Nobody
       /\ lock' = [lock EXCEPT ![i] = p]
  /\ Goto(p, "pass")
  /\ UNCHANGED <<conf, path, term, int, edits, signals>>

\* Another process holds the lock, or it cannot be taken.
LockRefused(p) ==
  /\ pc[p] = "locking"
  /\ path' = [path EXCEPT ![p] = Nobody]
  /\ Goto(p, AfterPass(p))
  /\ UNCHANGED <<conf, lock, term, int, edits, signals>>

\* A request to the store or a call of the kernel does not answer: the client
\* limits the attempts and not their time, and the pass has no limit either.
Hang(p) ==
  /\ pc[p] = "pass"
  /\ Goto(p, "hung")
  /\ UNCHANGED <<conf, path, lock, term, int, edits, signals>>

\* The pass is over, well or not, and the guard is dropped; a call that hung may
\* answer late.
EndPass(p) ==
  /\ InPass(p)
  /\ lock' = Released(p)
  /\ path' = [path EXCEPT ![p] = Nobody]
  /\ Goto(p, AfterPass(p))
  /\ UNCHANGED <<conf, term, int, edits, signals>>

\* The first poll of select!: the timer has not run out, a SIGTERM that came
\* during the pass is there to be seen, and ctrl_c starts to listen, installing
\* its handler if it is the first to do so.
Select(p) ==
  /\ pc[p] = "passed"
  /\ Goto(p, IF term[p] = "received" THEN "exited" ELSE "asleep")
  /\ int' = [int EXCEPT ![p] = "listening"]
  /\ UNCHANGED <<conf, path, lock, term, edits, signals>>

\* Mutant: the handler of SIGINT goes with its listener.
WakeUnhandled(p) ==
  /\ pc[p] = "asleep"
  /\ Goto(p, "ready")
  /\ int' = [int EXCEPT ![p] = "default"]
  /\ UNCHANGED <<conf, path, lock, term, edits, signals>>

\* Mutant: a SIGTERM that lost against the timer is forgotten.
WakeForgets(p) ==
  /\ pc[p] = "asleep"
  /\ Goto(p, "ready")
  /\ int' = [int EXCEPT ![p] = "ignored"]
  /\ term' = [term EXCEPT ![p] = "handled"]
  /\ UNCHANGED <<conf, path, lock, edits, signals>>

\* The timer runs out.  It may win against a signal that is there too; the
\* SIGTERM stays for the next select!, the SIGINT listener is dropped.
Wake(p) ==
  /\ pc[p] = "asleep"
  /\ Goto(p, "ready")
  /\ int' = [int EXCEPT ![p] = "ignored"]
  /\ UNCHANGED <<conf, path, lock, term, edits, signals>>

ShutDown(p) ==
  /\ pc[p] = "asleep"
  /\ term[p] = "received" \/ int[p] = "received"
  /\ Goto(p, "exited")
  /\ UNCHANGED <<conf, path, lock, term, int, edits, signals>>

(***************************************************************************)
(* The operator and the service manager.                                   *)
(***************************************************************************)
Alive(p) == pc[p] \notin {"off", "exited", "killed"}

\* A signal with its default action ends the process where it is.
Killed(p) ==
  /\ Goto(p, "killed")
  /\ lock' = Released(p)
  /\ UNCHANGED <<path, term, int>>

SigTerm(p) ==
  /\ Alive(p) /\ signals < MaxSignals /\ signals' = signals + 1
  /\ \/ term[p] = "default" /\ Killed(p)
     \/ /\ term[p] # "default"
        /\ term' = [term EXCEPT ![p] = "received"]
        /\ UNCHANGED <<pc, path, lock, int>>
  /\ UNCHANGED <<conf, edits>>

SigInt(p) ==
  /\ Alive(p) /\ signals < MaxSignals /\ signals' = signals + 1
  /\ \/ int[p] = "default" /\ Killed(p)
     \/ /\ int[p] # "default"
        /\ int' = [int EXCEPT ![p] = IF @ = "listening" THEN "received" ELSE @]
        /\ UNCHANGED <<pc, path, lock, term>>
  /\ UNCHANGED <<conf, edits>>

EditConfig(p) ==
  /\ edits < MaxEdits /\ edits' = edits + 1
  /\ \E c \in (Paths \cup {Nobody}) \ {conf[p]} : conf' = [conf EXCEPT ![p] = c]
  /\ UNCHANGED <<pc, path, lock, term, int, signals>>

Step(p) ==
  \/ BadInterval(p) \/ Enter(p) \/ ReadConfig(p) \/ ConfigRefused(p) \/ HostnameRefused(p)
  \/ TryLock(p) \/ LockRefused(p) \/ EndPass(p)
  \/ Select(p) \/ Wake(p) \/ ShutDown(p)

Next ==
  \E p \in Procs :
    Start(p) \/ Step(p) \/ Hang(p) \/ SigTerm(p) \/ SigInt(p) \/ EditConfig(p)

Spec == Init /\ [][Next]_vars

\* A process that was started keeps taking steps: the lock is tried, never waited
\* for, and the sleep ends.  A pass ends too, unless one of its calls hangs:
\* nothing in the code bounds such a call, so nothing makes it answer.
FairSpec == Spec /\ \A p \in Procs : WF_vars(pc[p] # "hung" /\ Step(p))

-----------------------------------------------------------------------------
TypeOK ==
  /\ pc \in [Procs -> {"off", "start", "ready", "locking", "pass", "hung", "passed",
                       "asleep", "exited", "killed"}]
  /\ conf \in [Procs -> Paths \cup {Nobody}]
  /\ path \in [Procs -> Paths \cup {Nobody}]
  /\ lock \in [Interfaces -> Procs \cup {Nobody}]
  /\ term \in [Procs -> {"default", "handled", "received"}]
  /\ int \in [Procs -> {"default", "ignored", "listening", "received"}]
  /\ edits \in 0 .. MaxEdits /\ signals \in 0 .. MaxSignals

\* Two passes never work on one interface or one wg-quick file at a time,
\* whatever their configurations were edited to and whoever died holding the
\* lock.  (The lock of run_sync_pass is named by the interface, from the path it
\* read before it took the lock.)
OnePassPerInterface ==
  \A p, q \in Procs : p # q /\ InPass(p) /\ InPass(q) =>
    /\ path[p] # path[q]
    /\ interface_name(path[p]) \cap interface_name(path[q]) = {}

\* The lock of an interface is held by a pass on that interface and by nothing
\* else: no process leaves it behind, when a pass fails or a signal kills it.
LockedByAPass ==
  \A i \in Interfaces : lock[i] # Nobody =>
    InPass(lock[i]) /\ i \in interface_name(path[lock[i]])

\* A daemon that has come to its first sleep is never killed by a signal, nor
\* does it leave a pass half way afterwards: it ends from select! alone.
\* ("graceful shutdown", main; before that sleep SIGINT still kills it.)
NeverKilledOnceAsleep ==
  \A p \in Daemons : [](pc[p] = "asleep" => [](pc[p] # "killed"))

\* A daemon that was sent SIGTERM once it handles it shuts down, though the
\* signal may come during a pass or together with the timer, unless a call of its
\* pass hangs.  (select! in main, which is entered only when the pass is over.)
TermEndsDaemon ==
  \A p \in Daemons : term[p] = "received" ~> pc[p] \in {"exited", "killed", "hung"}

\* No failed pass ends a daemon: it tries another pass for ever, unless a signal
\* ends it, its interval was refused or a call of its pass hangs.  ("never let a
\* single failed pass kill the service", main.)
DaemonKeepsTrying ==
  \A p \in Daemons :
    [](signals = 0) /\ <>(pc[p] = "ready") => []<>(pc[p] \in {"ready", "hung"})

\* A process without --daemon ends after one pass, unless a call of it hangs.
OnceEnds ==
  \A p \in Onces : (pc[p] = "start") ~> (pc[p] \in {"exited", "killed", "hung"})
=============================================================================
