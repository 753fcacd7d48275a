# wg-vpn: TLA+ models, checks and proofs

wg-vpn publishes WireGuard configurations for a fleet. `wg-server apply`
turns a topology file into one configuration per node and publishes them
through an S3-compatible bucket; `wg-client sync`, on every node, discovers
its configuration there and installs it. Server and clients never talk to
each other: the bucket is the only thing they share.

This directory models the state machines that carry the system (publication,
discovery, the client's transaction, its daemon) and the algorithms they rest
on (validation, key resolution, rendering and parsing, route checks, encoding),
checks them with TLC on small instances, and proves the main invariants with
TLAPS for every value of the constants.

## 1. Inventory

| Component | State | Operations | Interacts with |
|---|---|---|---|
| `wg-server/src/apply.rs` | none of its own; per run: the pointer it read, its ETag, the intended pointer | fetch pointer, fetch reusable files, resolve keys, render, upload, commit, clean up | the bucket; other runs, through the bucket |
| `wg-server/src/retention.rs` | none | list, decide, delete | the bucket |
| `wg-server/src/storage.rs` | SDK client with a bounded number of attempts | get, put-if-absent, put-if-match, list, delete | the bucket |
| the bucket (external) | `current.json` (revision, `current`, `previous`), `nodes/<host>/<id>.conf`, ETags, ages | conditional writes | everyone |
| `wg-client/src/sync.rs` | `conf_path`, `.bak`, `.state.json` (pending, had_backup, applied digest) | recover, restore, discover, back up, mark, tear down, install, apply, roll back | bucket (read), files, kernel |
| `wg-client/src/system.rs`, `netlink.rs` | the kernel device with its addresses and routes | atomic write, copy, probe, apply, tear down | kernel, file system |
| `wg-client/src/preflight.rs` | none | compare candidate routes with the host's | kernel (read) |
| `wg-client/src/main.rs` | per-interface lock, daemon loop | run a pass, sleep, stop on a signal | timer or service manager |
| `wg-common/src/topology.rs`, `render.rs`, `keys.rs` | none | validate, compute edges, render, parse, generate keys | pure |
| `wg-common/src/discovery.rs`, `base32.rs`, `strict_json.rs`, `hostname.rs`, `limits.rs` | none | parse and validate the pointer, encode IDs and digests | pure |

What is hard here, and what makes each part correct:

* **Publication.** A run is a sequence of storage calls with no transaction
  around them. Attempts are retried by the SDK, their answers can be lost, and
  an attempt given up on can still take effect later, even after the process
  has died. Runs may overlap (a timer, an operator, two hosts). Correct means:
  the pointer never names a file that is missing or different
  (`PointerIntact`); all hosts switch together (`AtomicPublication`); no run
  silently undoes another's publication (`NoLostPublication`).
* **Retention.** Cleanup decides from one listing and one pointer and deletes
  afterwards. Correct means that nothing it deletes is, or can still become,
  reachable from the pointer (`CleanupFenced`, `CleanupSparesRunningJobs`).
* **The client's transaction.** Three files and the kernel change one at a
  time, with a kill, a power loss or an error possible in between. Correct
  means: the node can always recover a configuration that worked
  (`Recoverable`); "nothing to do" is only said of a device that is right
  (`NoOpExact`); the node ends up with what is published (`Converges`).
* **Discovery.** The pointer is read, then the file; the file may be retired in
  between. Correct means: what is read together belongs together (`Accepted`),
  a node never returns to a generation it left (`NeverGoesBack`), and three
  rounds are enough unless the server publishes without pause
  (`RoundsPaidFor`).
* **Key resolution.** Keys live only in the published files: each run recovers
  them from what an earlier run rendered, for a topology that may have changed.
  Correct means: the two files of a pair agree (`PairsAgree`), no sequence of
  topologies and rotations leaves a generation that later runs refuse
  (`NeverStuck`), nodes that are not rotated keep their keys (`KeysSurvive`) and
  the secrets of those that are, or that left, are gone (`RotationRetires`).
* **Validation, rendering, parsing, preflight.** Three pieces of code check
  routes and addresses, each in its own terms. Correct means that they agree on
  what matters: what the validator lets through, the parser accepts and the
  kernel routes to the right peer (`RoutesLeadHome`); what the preflight lets
  through takes nothing from the storage endpoint or from another interface
  (`PreflightProtects`).
* **Encoding and strict JSON.** Identifiers are compared as text, so each must
  have one spelling (`IdsRoundTrip`, `IdsCanonical`); a repeated key must not
  silently override another (`DuplicatesFound`).
* **Daemon, lock and signals.** Passes of several processes, edits of the
  configuration and signals interleave. Correct means: one pass per interface
  (`OnePassPerInterface`), no lock left behind (`LockedByAPass`), a daemon that
  stops when told (`TermEndsDaemon`), at a safe place once it has slept
  (`NeverKilledOnceAsleep`), and otherwise never (`DaemonKeepsTrying`). The calls
  of a pass have no time limit, and all of this ends where one of them hangs.

The hazards, each at its line, with the properties that cover them, are in
`PROJECT.json`.

## 2. Modules

| Module | What it is |
|---|---|
| `Publication` | abstract: what hosts are served, as one value that changes at once |
| `Publish` | runs of `apply`, the bucket, requests in flight; refines `Publication` |
| `MCPublish` | instances of `Publish` for TLC |
| `PublishProofs` | theorems about `Publish`, mostly when runs are serialised |
| `PublishOverlapProofs` | theorems about `Publish` when runs overlap, and that it implements `Publication` |
| `Discovery` | `discover_and_download` on one node, composed with `Publish` |
| `MCDiscovery` | instances of `Discovery` for TLC |
| `DiscoveryProofs` | theorems about `Discovery` |
| `Sync` | passes of `run_once` on one node: files, kernel device, faults |
| `MCSync` | instances of `Sync` for TLC |
| `SyncProofs` | theorems about `Sync` |
| `Routes` | IPv4 networks and the comparison of their ranges |
| `Topology` | `topology::validate` and `compute_edges`, over `Routes` |
| `Render` | `render_node_config` and `parse_wg_quick`, over `Topology` |
| `RenderProofs` | theorems about `Routes`, `Topology` and `Render`: what is validated is rendered, parsed and routed as meant |
| `KeyPlan` | what runs of `apply` put into the files, run after run, over `Render` |
| `MCKeyPlan` | instances of `KeyPlan` for TLC |
| `KeyPlanProofs` | theorems about `KeyPlan` |
| `Preflight` | `preflight::check` and the kernel's route lookup, over `Render` |
| `Base32` | `base32::encode`, `decode` and `is_canonical` |
| `StrictJson` | `check_no_duplicate_keys`, token by token, beside the document's meaning |
| `MCAlgorithms` | inputs and reference definitions for `Topology`, `Render`, `Preflight`, `Base32` and `StrictJson` |
| `AlgorithmProofs` | theorems about `Preflight`, `StrictJson` and `Base32`, and about the inputs of `MCAlgorithms` |
| `Daemon` | the `wg-client` processes of a node, their lock and their signals |
| `MCDaemon` | instances of `Daemon` for TLC |
| `DaemonProofs` | theorems about `Daemon` |

Operators whose comment begins with `Mutant:` are wrong versions of the
operator that follows them, used to confirm that the properties notice.

### Publish

`pc[j]` follows `apply()`: `fetch`, `list`, `init`, `init_reread`
(`fetch_current_pointer`), `files` (`fetch_reusable_configs` and the plan),
`upload`, `upload_reread`, `commit`, `reread` (`commit_pointer`), `clean`,
`delete` (`retention::cleanup`). `base`, `etag` and `intent` are `pointer`,
`pointer_etag` and `final_pointer`; `zero` says that the grace period is zero
(`--prune` or `--rotate`), `dry` that this is a dry run.

Each storage call is one step, in three versions: `...Written` (answered),
`...Refused` (412) and `...Lost`. A lost attempt goes to one of the `late*`
sets, from which a `Land*` action applies it to the bucket at any later time,
or never; the job stays in the same call until an attempt is answered, and when
the SDK's attempts are used up it can only fail. A refusal is not required to be justified: the
bucket may refuse a request whose condition holds, which is what the retry
against an unchanged baseline is for. `Fail` ends a job between any two steps.
Two calls that only read (`get_object`, listings) have no lost version: losing
them changes nothing but the time.

Abstractions: a rendered configuration is a member of `Contents` and its digest
is the content (SHA-256 is taken to be injective); the plan may render any
content for the wanted hosts, which covers every outcome of key resolution; an
ETag is determined by the bytes, hence by the revision; `random_id` never
repeats, so run `n` draws generation ID `n` and revisions `2n-1` and `2n`.
Generation 0 stands for files left in a bucket without a pointer. Age is one
bit: `old` holds the objects older than the default grace period.

`Serialized` and `JobDeadline` are not code: they are the two assumptions the
design document makes about the surroundings (the scheduler serialises jobs;
a job ends well before the grace period), and are set per run.

### Discovery

Extends `Publish`: a step is either a step of the server or one `get_object` of
the node `Me`, which changes nothing in the bucket. `at` says which object is
read next, `found` is the `current` entry of the pointer as it was when it was
read, `round` counts the rounds that met a retired generation. `Valid` keeps the
rules of `discovery::validate` that relate parts of the document to each other;
identifiers and hostnames are well formed by type. `last`, `left` and `moves`
are history: the generation the node has, those it had before, and the
publications since the pass began. An error of the storage client (after its
attempts, or because of the size limit) and the end of the process are
`ReadFailed`.

### Sync

`pc` follows `run_once`. `conf`, `backup` and `disk` are the three files, `st`
the pass's `LocalState`, `cand` the downloaded configuration. `dev` is the
kernel's device: the configuration its keys and peers come from, those its
addresses and routes come from (`nets`, which accumulate, because `set_addr`
and `add_route` only add), and whether all that `peers` asks for is in place.
`apply_interface` is two steps, `device` (the device is created and its peers
replaced) and `link` (address, link up, routes), and `call` remembers which of
its three callers is waiting: the local restore, the installation or the
rollback. `good`, a history variable, holds what `apply_interface` has
confirmed.

`Risks` is a set of fault sets, of which each behaviour has one (`risks`): that
is how one run asks the same question of several surroundings. A fault set
names what may go wrong: a call by its place in `run_once` (`"backup"`, `"mark"`, ...), `"probe"` (listing devices fails, which
`interface_exists` reports as "absent"), `"crash"` (the process is killed, also
within a copy, which then leaves a torn file), `"lost"` (the device is deleted,
or the node rebooted in order), `"power"` (the device is gone, and a file that
was copied and not fsynced may be torn or have the bytes it had before; `dirty`
remembers both). A torn file may parse or not; both happen.

The per-interface lock makes passes exclusive, so there is one pass at a time.
Discovery is one step that answers with the content published at that moment,
or fails, which is what `Discovery` shows of its steps; the wait between two publications is not bounded from below.

### Routes, Topology and Render

A topology is a record with the fields of `TopologyConfig`; optional fields are
sets of at most one element. What a string is made of is left out, what the
code asks of it is kept: an endpoint is a record of its form, its host, the
host's length, whether it is free of blanks and its port; a network is an
address and a prefix length, host bits included. `validate` is the conjunction
of the code's rules, one operator per loop (`NamesOK`, `NodeOK`,
`AddressesUnique`, `RoutesSpareNodes`, `RoutesDisjoint`, `EdgesReachable`); which
rule is reported first is left out, and so is the warning for an empty list of
masters.

A rendered file is a sequence of sections, a section a sequence of directives in
the order in which the code writes them. The parser gives a set: empty when the
file is refused, else the one parsed configuration. `render_node_config` ends,
as in the code, by passing its own output through the parser. The size limit is
counted in lines. Sorting is the choice of an arrangement in order (`Ascending`,
and `Before` for networks) rather than a procedure, so that the proofs can use
what sorting gives without induction; the networks of a validated topology are
disjoint, so their order is unique. `TopologyConfig` is what the types of the
structures say of a topology that has been read.

### KeyPlan

One step is one run of `apply` that reaches its end: `Refused` (with the error it
reports, or `Unchanged`) or `Published`. `old_configs`, `NodeKey`, `EdgeResult`
and `EdgePsk` are the pieces of `fetch_reusable_configs` and `resolve_keys`.
Fresh keys are tuples that carry the number of the run, so they never repeat.
The state is the current generation; the previous one stays in the bucket until
the next publication and is not read by `apply`. `Publish` shows that a
generation is published as a whole and that no run overtakes another unseen,
which is what makes one step per run adequate.

### Preflight

`resolver` maps each host to what the lookup answers (addresses, none, or a
failure). A route of the kernel has a network, at most one interface, a table and
a metric; a multipath route has no interface of its own, which is why
`list_ipv4_routes` does not report it. `Best` and `Leaves` say what the kernel
does, and are external. `Installed` is the table after the teardown and the calls
of `add_route`, which leaves a route alone that already has the same network and
metric.

### Base32 and StrictJson

`Base32` keeps the loops of the code: the remainder carried from byte to byte,
the carry out of the first byte, the truncation of a character to a byte. Its
sizes are constants. `StrictJson` runs the scanner beside a small automaton of
the JSON grammar that also remembers what the document means; only documents
that `serde_json` accepts are fed to it, since others are refused anyway.

### Daemon

`pc[p]` follows `main` and `run_sync_pass`: `start`, `ready`, `locking`, `pass`,
`passed`, `asleep`, `exited`; `killed` is the end by a signal with its default
action. A pass may come to a call that does not answer (`Hang`, to `hung`): it
keeps its lock, and leaves that place only if the answer comes after all. The
code gives such a call no deadline, so nothing is assumed about the answer. `conf[p]` is what the configuration file says now, `path[p]` what the
current pass read. `term` and `int` are the state of each signal in the process:
SIGTERM is handled from `Enter` on and remembered until `select!` looks; SIGINT
is handled from the first `Select` on, and noticed only while a `ctrl_c()` is
being awaited. The pass under the lock is module `Sync`; here it ends, or hangs.
SIGKILL, which a service manager may send when SIGTERM has no effect, is left to
`Sync` (`Crash`).

## 3. What TLC checks

| Run | Question | Result |
|---|---|---|
| `publish_serial` | Serialised runs, no grace period: is the pointer always intact, cleanup fenced, publication atomic? | holds (345k states) |
| `publish_race` | Runs overlap and delete at once: is a publication ever lost, does every run end? | holds (357k) |
| `publish_overlap` | Runs overlap, with grace period and a deadline: does cleanup spare them, is a publication ever lost? | holds (615k) |
| `discovery` | A node reads while serialised runs publish and delete at once: does it accept what it reads, never go back, and lose a round only to two publications? | holds (2.7M) |
| `publish_no_deadline` | The same as `publish_overlap` without a deadline | violated |
| `sync_recoverable` | Does an installed node always recover a configuration that worked? | holds (332k) |
| `sync_converges` | Crashes and failing calls, or loss of the device, or loss of power: are no_op and installation truthful, does the node converge? | holds (522k) |
| `sync_partial_restore` | A local restore stops half way | violated |
| `sync_recovery_copy` | Recovery's copy fails | violated |
| `keyplan` | Any three runs over changing topologies and rotations: do the files agree, stay readable, keep and drop the right keys? | holds (1.5k) |
| `daemon` | Two processes, edits and signals: one pass per interface, no lock left, signals obeyed, the daemon goes on, unless a pass hangs? | holds (67k) |
| `algorithms` | Every input of small domains: do validator, parser and kernel agree, does the preflight protect, are spellings unique, are repeated keys found? | holds (72k) |

### Where code and documents disagree

The violated runs each show a disagreement between the code and a statement of
its documents or comments; `PROJECT.json` quotes the lines. In short:

1. `publish_no_deadline`: the grace period is justified by an 8-minute job
   deadline that the code does not have.
2. `sync_partial_restore`: after a partly failed local restore the interface
   exists, so the pass and all later ones say "no change" over a device that
   does not work.
3. `sync_recovery_copy`: recovery ignores a failed copy and clears the marker.

The same modules show more of them when a constant or a property is changed; TLC finds a
counterexample to each, and no run is kept for them:

4. A pass has no time limit. The document bounds each attempt (10s), each storage
   call (30s), discovery and download (180s), the local operations (120s) and so
   the complete pass (320s) (`docs/wg-client.md:478-495`), and has SIGTERM "cancel
   downloads safely, but finish or recover an active local transaction within
   its remaining 120s apply/recovery budget" (`645-647`). The code bounds the
   preflight (20s) and the lookup of an endpoint (10s); the storage client has a
   number of attempts and no timeout (`wg-client/src/storage.rs:43-50`, `60-66`),
   `run_once` and `apply_interface` have no budget, and `select!` is entered only
   when the pass is over (`main.rs:245-261`). One call that does not answer keeps
   the daemon from trying again and from seeing SIGTERM, and a single pass from
   ending: `TermEndsDaemon`, `DaemonKeepsTrying` and `OnceEnds` without their `"hung"`.
5. An applied state that could not be saved is not always harmless
   (`wg-client/src/sync.rs:335-338`: "just costs the next pass an unnecessary
   (but safe) rollback-and-reapply cycle"): if the earlier content is published
   again before the next pass, "no change" is said of the wrong device.
   `sync_partial_restore` with `Republish = TRUE`, `MaxPublications = 3` and the
   risk `"finish"` alone.
6. Skipping the grace period for `--rotate` is justified by scheduled jobs never
   rotating (`wg-server/src/main.rs:97-100`); the packaged unit and the image do.
   `publish_overlap` with `Graces = {"zero"}` violates `PointerIntact`.
7. The candidate of a failed first installation is kept and later backed up as
   if it had worked (`docs/wg-client.md:738`: "Clean up candidate state").
   `sync_recoverable` with `Nodes = {"fresh"}`, risks `"link"`, `"finish"`.
8. Recovery goes on after its marker could not be cleared, and overwrites the
   backup the marker relies on (`docs/wg-client.md:457-458`).
   `sync_recoverable` with risks `"crash"`, `"unmark"`.
9. The backup is not fsynced before the marker is (`docs/wg-client.md:452-454`).
   `sync_recoverable` with risk `"power"`.
10. A rollback applies the old file over the candidate's device, whose address
   and routes stay (`wg-client/src/system.rs:31-34`: "exactly per the parsed
   contents"). `[][(pc' = "settle" /\ pc # "settle") => dev' = Exact(conf)]_vars`
   with risk `"link"`.
11. `decode` "rejects ... any character outside the canonical lowercase alphabet"
   (`wg-common/src/base32.rs:41-43`), but compares a character after truncating
   it to a byte, so that a wide character can stand for a digit. `IdsCanonical`
   without its restriction to one-byte characters. (`is_canonical` looks at the
   first byte too, which excludes them in the first place only.)
12. "Graceful shutdown on SIGTERM/SIGINT" (`wg-client/src/main.rs:238-239`): during
   the first pass SIGINT still has its default action and kills the process, and
   during later ones it is caught by a handler that nobody awaits, and lost.
   `TermEndsDaemon` stated for `int`, or `NeverKilledOnceAsleep` for any place
   after `start`.
13. The preflight is to reject routes that "overlap another interface's existing
   non-default route" (`wg-client/src/preflight.rs:4-5`); multipath routes are
   not compared, having no single interface. `PreflightProtects` without
   `r.oif # {}`.
14. `interface_exists` is "whether a WireGuard interface named `iface` currently
   exists" (`wg-client/src/system.rs:28`), but it answers "no" when the devices
   cannot be listed. The teardown is then skipped, the candidate is applied over
   the old device, whose address and routes stay, and later passes say "no
   change". `sync_converges` with risk `"probe"` violates `InstallExact`,
   `NoOpExact` and `Converges`.

Met while modelling, without a formula: the jitter is "±10%" by its comment and
0 to +10% in the code (`wg-client/src/main.rs:268-277`); `parse_duration`
multiplies without an overflow check (`main.rs:66`); "IPv4 unicast /32" is
checked only to be a /32 (`wg-common/src/topology.rs:85`, `362`); a topology
within `MAX_NODES` may render to more than `MAX_RENDERED_CONFIG_BYTES`, which
`validate` does not say.

The passing runs of `Sync` are the complement: each leaves out the faults with
which an item above refutes it. `sync_recoverable` leaves out 3 and 7 to 9
(installed node, no failing recovery, no power loss); it has failing listings,
returning contents and `--force`. `sync_converges` has no returning content (5),
no failing listing (14) and no `--force`: a forced pass takes down the device of
the very configuration that is on record, and when it is then interrupted and
the restore fails, that is item 2. Its first fault set has no loss of the device
(2), so that a restore can only be interrupted while the recorded digest is not
the published one, and the other two lose the device but let `apply_interface`
succeed. With both device and power lost in one behaviour, a torn file that
still parses can be restored and taken for the published one; that is item 9
followed by item 2. Nor does the fault set that loses the device by itself have
a failing recovery: a restore that follows a recovery whose copy or save failed
(items 3 and 8) builds the device from the wrong file, and the next pass takes
it for the recorded one. `NoPartialRestore` (section 4) states these conditions
as a formula. The other passing runs leave out item 6 (overlap without a grace
period), 11 (`IdsCanonical` speaks of one-byte characters) and 13 (multipath
routes).

### Bounds

* Two hosts are enough for a half-uploaded generation, two contents for a
  change and a return to an earlier value, two jobs for a race, and three runs
  for a generation to pass from `current` to `previous` to deleted.
  The violated runs need only two.
* `MaxLate = 1` allows one lost request in flight at a time; it may survive
  several runs. `MaxAttempts` and `MaxPointerRetries` are 2 instead of 5
  (`discovery` has one round, `publish_race`, which checks liveness, one attempt;
  `publish_overlap` asks about lost publications with two): the
  second attempt and the second round already behave like all later ones.
* `discovery` has five runs and two rounds, so that a pass can give up: a round is
  lost to two publications after the one that was read. One host and one round
  of `commit_pointer` keep that within reach.
* `Sync`: three contents and three publications (an applied one, a candidate, a
  newer one), three faults (four in `sync_recoverable`), in any combination of
  the kinds one of the run's fault sets allows.
* `keyplan`: three nodes, so that a pair and a third party exist; every subset of
  them, four sets of masters and an endpoint that disappears; three runs, so
  that keys are created, reused or rotated, and read back once more. Node 2 has
  two routes, written in the wrong order.
* `algorithms`: eight addresses, so that networks of every length nest, touch
  and miss each other; two or three nodes with route lists that break each rule
  in turn; all pairs of kernel routes from a list that has equal, wider,
  narrower and disjoint networks of the managed and of another interface. Nine
  bits in three bytes as five digits of two bits keep the odd fit of 256 bits in
  52 digits. Documents of up to 13 tokens and depth 3 hold a repeated key after
  a nested object that has the same key.
* `daemon`: one daemon and one single pass, six paths (two files of one
  interface, one of another, three that are refused), one edit and two signals,
  which is enough for both signals to meet one process in either order; each
  process may hang. The theorems of `DaemonProofs` have no such bound.
* Symmetry is used for contents and jobs in the runs that check no liveness:
  they are only compared for equality. Hosts are ordered, and not symmetric.
* The runs of `Publish` stop when the bounded number of runs is used up, so
  they do not check deadlock, nor do `keyplan`, `algorithms` and `daemon`, whose
  processes end; those of `Sync` do.

### Fairness

`Publish!FairSpec`: a live job keeps taking steps. Nothing in `apply()` waits
for another job, and `Fail` is among its steps but never required. Whether an
attempt is answered, refused or lost is left open: `JobsEnd` rests on the
bounded attempts and rounds alone, and on every single attempt ending one way
or the other, which the code leaves to the SDK's and the system's timeouts.

`Sync!FairSpec`: passes keep being started (the daemon's loop, or the timer and
`Restart=on-failure` of `package/wg-client.service`) and a pass keeps taking
steps. No fault is fair, and faults are bounded: `Converges` speaks of the time
after the last fault and the last publication. That a pass keeps taking steps
assumes that every call it makes returns, with an answer or an error. The code
does not see to that (item 4 above), nor does the unit, a `oneshot` without
`TimeoutStartSec`: where a call hangs for ever, the node does not converge.

`Daemon!FairSpec`: a process that was started keeps taking steps, except in a pass
that hangs. `run_sync_pass` tries the lock and never waits for it, and the sleep
ends. A pass either ends or comes to a call that does not answer, and then
nothing is assumed: neither that the answer comes nor that it does not.
`TermEndsDaemon`, `DaemonKeepsTrying` and `OnceEnds` therefore say "or a call
hangs", which cannot be dropped (item 4). Nothing is
assumed of which branch of `select!` wins: `TermEndsDaemon` holds because a
SIGTERM that lost to the timer is still there when `select!` is next entered.
Starting a process, hanging, signals and edits are not fair.

## 4. What is proved

Every theorem holds for all values of the constants: any number of hosts, jobs,
runs, contents, processes, topologies, addresses and tokens. The assumptions are

* on constants (`ASSUME`s, which TLC evaluates): `ConstantsAssumption` and
  `NoneAssumption` (`Publish`), `DiscoveryAssumption`, `SyncAssumption` and
  `DeviceAssumption` (`Sync`), `DaemonAssumption`: the types of the constants, and
  that `None`, `Torn` and `Nobody` are distinct from the values they stand beside,
  and daemons from single passes; `WidthAssumption` (`Routes`): addresses have at
  least one bit; `KeyPlanAssumption`: the topologies are well typed;
  `InputAssumption` (`MCAlgorithms`): so are the run's, and the size limit leaves
  each node six lines; `TopologyAssumption` and `RenderAssumption`: the limits are
  numbers; `Base32Assumption`: the alphabet has a character of its own for each
  digit, and a digit is no larger than a byte; `FitAssumption` (`Base32`): all values
  together are at most twice the numbers of one digit less, as 2^256 is twice
  32^51, so that the first digit is 0 or 1;
* on the surroundings, as hypotheses of single theorems: `Serialized`; `Graced`
  (every run ends before what was stored in its lifetime can expire, and no run
  has a zero grace period); `Dependable`, `Probes` and `NoPartialRestore` (which
  faults a node meets); `FilesFit` (the size limit). The runs of section 3
  satisfy them, and each violated run or numbered item there shows what happens
  without one of them.

### Publication

* `TypeCorrect`: `Spec => []TypeInv`, with or without overlap, and `TypesHold`, its
  part `TypeOK`. `TypeInv` adds what a job's memory holds at each place of
  `apply()`.
* `PublishedFilesPresent`: `Serialized => (Spec => []PointerIntact)`, and
  `CleanupIsFenced`: `Serialized => (Spec => []CleanupFenced)`. Neither invariant is
  inductive. The argument: revisions grow, so a commit in flight that names an
  older revision than the pointer's is dead for good (`Revisions`); a commit
  that is still live was issued by the run whose baseline is the pointer
  (`Baseline`), and all it names is stored (`Staged`, `LateCommitsComplete`); a
  run that cleans has just replaced the pointer and thereby killed every commit
  in flight (`Fence`); so what it deletes, now or late, is retained by no
  pointer that is or can become current (`DeletesHarmless`, with `FreshIds`: a
  later run never reuses a generation ID that a late deletion names). No grace
  period is needed.
* `PublicationsChain`: `Spec => NoLostPublication`, with no hypothesis at all. Runs
  that overlap do not write revisions in their order, so the argument above is
  not available. Instead (`RaceInv`): a revision belongs to one document and a
  generation ID to one entry, wherever they are held (`OneDocument`, `OneEntry`:
  the pointer, jobs' memories, requests in flight); what a job intends succeeds
  the document it read (`Planned`); so a commit whose ETag matches succeeds the
  very document it replaces (`LateSucceed`).
* `RunningJobsSpared`: `Graced => (Spec => []CleanupSparesRunningJobs)`. An object of
  a live run was stored in that run's lifetime and so is young (`AgeInv`), and
  cleanup takes old objects only.
* `OverlapKeepsFiles`: `Graced => (Spec => []PointerIntact)`. Needed besides
  `RaceInv` and `AgeInv`: a pointer that was replaced never returns, because
  whatever would bring it back names a revision that is past (`Overtaken`); so all
  documents that are or can become the pointer after a run has published are
  retained by the run or too young for it (`CoverInv`), and no deletion,
  decided or in flight, hits them (`DeletesSpare`).
* `PublishImplementsPublication`: `Serialized \/ Graced => (Spec =>
  AtomicPublication)`. Where the pointer is intact, what hosts are served is a
  function of the pointer, and changes only with it, for all hosts at once.

### Discovery

The server's steps are steps of `Publish`, so its invariants carry over.

* `DiscoveryTypeCorrect`, and `NodesAccept`: `DiscoverySpec => []Accepted`. By
  `RaceInv` every document is valid, and the entries of documents are settled for
  good (`Settled`): nothing is or can be stored under the generation of one but
  what it says, however long ago the node read it.
* `NodesGoForward`: `DiscoverySpec => []NeverGoesBack`. The generations that have been
  replaced cannot become current again (`Retired`), and those the node left are
  among them, in the order in which it read them (`ReadOrder`). Both theorems
  allow overlapping runs that delete at once.
* `RoundsArePaidFor`: `Serialized \/ Graced => (DiscoverySpec => RoundsPaidFor)`. As long
  as the pointer is intact, a file that is missing was not named by it any more,
  and it takes two publications for an entry to leave.

### The client's transaction

* `SyncTypeCorrect` and `SyncTypesHold`: type correctness under every fault.
* `NodeRecoverable`: `Dependable => (Spec => []Recoverable)`, where `Dependable`
  is: an installed node, and no fault set with a failure of recovery's own copy
  or save, or with a loss of power. Until the marker is saved the file itself is
  good; once it is, the backup is; and neither is written while recovery relies
  on it (`Recovery`).
* `InstallIsExact`: `Probes => (Spec => InstallExact)`, where `Probes` says that no
  fault set has `"probe"`: the candidate meets a device that was created after
  the teardown (`FreshDevice`).
* `NoOpIsExact`: `NoPartialRestore => (Spec => NoOpExact)`. The condition: passes are
  not forced, nothing is published twice, listings do not fail, and each fault
  set either does not lose devices, or loses them with power only and applies
  them without failing, or loses them by themselves and recovers without failing
  as well. `unchanged` compares digests and asks whether the device exists, so
  the device must be right whenever the record names what is, or was just,
  published. `Trusted` says so for every place of a pass: a configuration that
  is not published any more never is again (`Known`); a transaction builds the
  candidate's device from nothing (`Finishing`); where devices do not vanish by
  themselves, a transaction is never one for what is on record (`Stable`); where
  they do, the file or the backup behind the marker has it all along (`Lossy`).

### Validation, rendering and parsing

* `RenderedParses`: a file rendered from a validated topology and usable keys, and
  within the size limit, is accepted by `parse_wg_quick`. The file's sections and
  directives are computed and read back; then the validator's rules, about
  ranges of all nodes, are shown to imply the parser's, about the sections of
  one file (`AllowedApart`, `HostsApart`). It rests on facts about `Routes`, above
  all that `ranges_overlap` is true exactly of ranges that share an address, and
  on the existence of the sorted arrangements, proved by the least-counterexample
  principle of well-founded sets.
* `AddressesLeadHome`: in the parsed file every address of a peer and of the
  networks behind it leads to that peer and to no other, and the node's own to
  none. `RoutesHold`: `Spec => []RoutesLeadHome`, both for the run's topologies.

### Key resolution

The inductive invariant `Inv` says that the current generation is what its
topology and some keys render to, keys that were drawn by the runs so far
(`IsGeneration`). A run reads those very keys back, by the theorems above; what
it draws itself carries its number, so no key is drawn twice.

* `KeyPlanTypeCorrect`, and `PairsAlwaysAgree`: `Spec => []PairsAgree`.
* `NeverRefused`: `FilesFit => (Spec => []NeverStuck)`. The files parse, the two sides
  of an edge agree, and what is rendered parses again. `FilesFit`, that no file
  of a valid topology is too long, cannot be dropped: `validate` does not look at
  the size (the hazard at `wg-common/src/render.rs:145`). No theorem derives it
  from the constants: the code's limit counts bytes, and the routes of one
  `AllowedIPs` line are not bounded.
* `KeysAlwaysSurvive`: `Spec => KeysSurvive`; `RotationAlwaysRetires`:
  `Spec => RotationRetires`.

### Preflight and strict JSON

* `PreflightSparesProtected` and `PreflightSparesOthers`: for every configuration,
  resolver and routing table that pass `check`, installing the configuration
  leaves protected addresses, and traffic on another interface's routes, where
  they were. `PreflightHolds`: `Width >= 3 => (Spec => []PreflightProtects)`; the run's
  addresses need three bits, the code's have 32.
* `DuplicatesAreFound`: the scanner's stack is aligned with the open values of the
  document, level by level (`JsonInv`), for every length and depth.

### Identifiers

* `SpellingRoundTrip`: for every size of bytes and digits, `encode` spells the digits
  of the number that the bytes stand for, `is_canonical` accepts the spelling and
  `decode` returns the value; `IdsRoundTripSafe`: `Spec => []IdsRoundTrip`.
* `SpellingCanonical`: a text of one-byte characters is accepted exactly when it is
  the spelling of a value, so no two texts name one generation, and the test of
  the first character refuses nothing that `decode` accepts; `IdsCanonicalSafe`:
  `Spec => []IdsCanonical`.

The argument: each pass of a loop keeps an equation between numbers. A pass of
the division over the first i bytes leaves prefix = quotient's prefix * radix +
remainder (`Division`); a pass of the multiplication leaves value * radix + digit =
last carry * 256^32 + product (`Multiplication`), so the carry is 0 exactly when the
result is a value (`Accumulated`: no overflow is missed and none is reported in
error). After 51 divisions less than 2 is left (`EncodeFits`, the one use of
`FitAssumption`), so 52 digits are all of them and the first is 0 or 1. After k
characters `decode` holds the one value whose number the k digits stand for
(`DecodeMeans`), and a number has one spelling (`PrefixInjective`).

The library's theorems about recursion and induction over numbers cannot be
given their operators here. `Induction` and `Recursion` (in `RenderProofs`) replace
them: sets of numbers, and step functions that are values, take the operators'
place, and the recursion equation of each recursive function of the model is
derived from `Recursion` once (`PrefixRec`, `RemainderRec`, `CarryRec`, ...).

### Daemon

* `DaemonTypeCorrect`, `LockHeldByAPass` and `OnePassAtATime`: `Spec => []TypeOK`,
  `[]LockedByAPass` and `[]OnePassPerInterface` for any number of processes.
  Exclusion is not inductive alone: the invariant `LockInv` adds the converse of
  `LockedByAPass` (`HoldsItsLock`: a pass holds the lock of the interface it
  read), and rests on `OneInterface`, that a path names at most one.
* `SignalsNeverKill`: `Spec => NeverKilledOnceAsleep`. A daemon that sleeps has
  both handlers (`Handles`), and no step removes one (`SafeStep`).

### Only model-checked

* The liveness properties `JobsEnd`, `Converges`, `TermEndsDaemon`,
  `DaemonKeepsTrying` and `OnceEnds`: the prover has no rules for fairness.

## 5. What is not modelled, and the plan

In this order:

1. `Fleet`: two nodes that follow one publication, and the times at which the two
   ends of a tunnel disagree.
2. Names that resolve differently at the preflight and when the interface is
   applied: `Preflight` composed with `Sync`.

Left out for good: the characters of configurations, JSON documents and
hostnames (`hostname::validate` is the constant `ValidHostnames`), argument
parsing, logging, netlink encoding, cryptography, SDK internals, container
images and the end-to-end test scripts.
