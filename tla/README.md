# nebula-ca-harness: a verification project

TLA+ models, TLC runs and TLAPS proofs about this repository: an air-gapped Nebula
certificate authority, the box, that is commanded by signed jobs on USB sticks,
and the Mac's tools that write and read the sticks. The modules are translated
from the code under `src/box` and `src/mac`; `PROJECT.json` maps every definition
to the lines it stands for.

## 1. The system and its parts

| part | state | operations | works with |
|---|---|---|---|
| `ca-usb-run` + systemd units + udev rule | the lock, the mount, the LED, one unit per stick | insert, lock, mount, verify, K1 gate, dispatch, commit, deliver, umount; `--cleanup`; `--reconcile` | everything below |
| `commitlog`, `freshness` | `results/<job_id>/`, `seq`, `consumed-jobs` | `commit`, `cached_result`, `reconcile_on_boot`, `check` | ca-usb-run |
| `verify`, `rotate-job-signers` | `allowed_signers`, `breakglass_signers` | three signature checks; plan and install of a rotation | ca-usb-run, dispatch |
| `registry`, `sign-hosts` | `registry.json`, `alloc-*.json` | allocate, sign, record, save; rebuild at boot | commitlog (records live in results) |
| `ca-bootstrap`, `rotate-ca` | `ca.crt`, `ca.key`, `archive/` | make the CA's pair; replace it, sign every host again, publish the bundle and the block list | registry, commitlog |
| `dispatch` | the job's processes, their group, their PID namespace | refuse; start a handler or a confined script, wait for it, kill its group when it takes too long | verify's verdicts, the kernel |
| `extract`, `collect`, `manifest` | the job's tmpfs | unpack an archive member by member; copy the outputs out entry by entry; schema check | ca-usb-run, the job's processes |
| `button` | the queue of an open evdev file | wait for one press of K1 that is a live answer to the LED | ca-usb-run, the keys |
| `recovery` | the stick | assemble and write the public kit | ca-usb-run, button |
| `backup-ca`, `set-time`, `status` | CA directory (read), clock | one step each | dispatch |
| `audit`, `led`, `mountctl`, `nebulacli`, `config` | log, LED, mount | wrappers | ca-usb-run |
| Mac: `caj`, `caj-recv`, `caj-hw` | `last-seq`, `last-built-seq` | reserve a seq, build, deliver a bundle; read results | the stick |

Everything meets in `ca-usb-run`: one process per inserted stick, started by
udev through systemd, all sharing one `flock`. A job's effects on the box
(registry, anchors, CA) happen in the handler, before the result is committed;
the result is committed before it is delivered; the caches are updated after
the commit. The boot pass rebuilds caches and registry from what is durable.

What is hard here: power cuts between any two file-system steps; a process that
is killed (the unit has `BindsTo=` its stick, and `TimeoutStartSec=`) without a
reboot, so that no boot pass repairs anything; I/O errors half-way through
`commit()`; a stick pulled while it is written; a second stick while a job runs;
a job that fails after part of its work; a job whose processes fork, detach and go
on writing while the harness times out, kills and collects; a key that is pressed,
held or released between any two steps of the wait for it; and the order in which
all that reaches the next job. `PROJECT.json` lists these hazards line by line.

What makes each part correct:

* store: one result per job, for ever, whole and durable once handed out; no
  second execution; caches that agree with the DONE markers;
* orchestrator: SAFE_REMOVE only when it is safe and the result delivered,
  LATEST.json only of a committed job, and behind its files as far as a vfat stick
  allows, nothing executed without the signatures its operation needs, the lock always
  given back;
* anchors: disjoint, never locking everybody out, break-glass set under two keys;
* registry: distinct addresses, certificates that match, a rebuild that agrees;
* gate: only a whole press of K1 that came after the LED asked confirms anything, and
  none confirms twice; the kit on a stick is exactly what was confirmed;
* job: reported ok means over and whole; what is collected is the job's own; one that
  does not end is ended; an archive is unpacked exactly or refused;
* the CA's pair: once there, always there; the retired key gone when the receipt
  is written; a bundle and a block list that fit the certificates the hosts still use,
  as far as the registry knows them;
* the Mac: a sequence number on one live stick at most and never below what the box
  has committed, `last-seq` that only rises and only over results that were placed,
  reports that are true.

## 2. Modules

**`CommitLog`** (core), with `JobLedger` as its abstract specification.
State: what each results directory holds (for each output file, whose execution
wrote it; status.json; DONE), the two caches, and for each directory the *set of
states a power cut may leave* (`onDisk`, `seqOnDisk`, `consumedOnDisk`): a rename
adds a state, the fsync of the directory leaves one. `commit()` is ten actions,
one for each change of the file system (`MakeDir` to `SyncState`), the boot pass
four, and `Faults` selects what may go wrong. `JobLedger` is what the store
promises: results are recorded once (`WriteOnceSpec`), and under ascending
sequence numbers (`OrderedSpec`). The refinement maps the ledger to the results
no power cut can take away.

**`CaUsbRun`**. State: each stick's content as its mount shows it and the set of states a
pull may leave, each unit's step, mount, lock, LED, the store reduced to DONE and caches.
One action per step of the process, `Stop` and `Cleanup` for systemd, `Insert` and `Pull`
for the operator. The mount is not synchronous and a vfat directory takes an fsync or not,
so a write adds states (`Write`: any of it may be lost, also while a later one is kept), and
only `_sync` and the umount leave one (`WriteBack`). The history variable `hasty` has the
sticks that were once pulled before that. A bundle is a record of what the box's checks find
out about it (who signed, is it well formed, what does it ask for).

**`TrustAnchors`**. State: the two files as key sets, the set of states a power
cut may leave, the rotation in progress. The files share a directory, so their
renames reach the disk in order.

**`HostRegistry`**. State: `registry.json`, the committed allocation records, the
handler at work with its registry in memory. `rotate-ca` is, for the registry,
a job that signs every registered host with its stored key. Two history
variables say what a failed job has left behind.

**`CaRotation`**. State: `ca.crt` and `ca.key` as processes see them and the pairs
a power cut may leave, the keys that are on the disk under other names (a
temporary file, an inode that is only still open), the archive, and three books
of host certificates: the registry, the committed records, the fleet. One
action per file operation of the swap, one per way a handler can end (an error
with its clean-up, the dispatcher's kill, the end of the whole process, a power
cut). A CA is a name, so that "the key of this certificate" is an equality; a
host's certificate is its CA and what tells it from the others on the books (`Id`), because
a block list names certificates one by one. `sign-hosts` is here with the points at which
it may end (`SoFar`): among its hosts, and after `registry.save`, which comes before the
result; its addresses are in `HostRegistry`. The commit, which `CommitLog` has in detail,
is one step. Three history variables delimit what holds only sometimes: `born` (a CA has
been reported), `torn` (a rotation ended between its first rename and a successful result)
and `stray` (the hosts whose certificate in the registry, and in the records, comes from a
job that was lost or failed, so that nobody installed it).

**`Courier`**. State: the two counters of `ca-state/`, the flock, where each process
of `caj` and `caj-recv` is, where each stick is and what is in its `inbox/` and
`outbox/`. One action per file that is renamed or step that reads a counter or the
stick; `Fail` is every error and the death of a process, anywhere. The box is the
ledger of `JobLedger` (`Ledger!Record`); an insertion is one step with the outcomes
`CaUsbRun` has in detail: after an early pull a LATEST.json may be without its files
(`whole`), as `LatestIsBacked` there leaves open, and what stops such a receipt is
`caj-recv`'s check of `status.json` and of every hash. An ERROR.json has the bundle it is
about and one of four reasons, which stand for those of `ca-usb-run`: the bundle's own
(`unfit`: archive, manifest, another box), a missing co-signature, `stale_seq`, and
what may be otherwise next time (`passing`: the clock, a handler that cannot be started).
Sticks are carried at any time, also between a process's look at a stick and its turn at
the lock. The Mac does not lose power here: `caj` does not fsync its reservation, and its
docstring says why it accepts that.

**`ConfirmGate`** (`button.py`, `recovery.py`, and `ca-usb-run` where it waits). State:
which key of which device is down, the event queue of the one open file, what
`_PressWaiter` remembers, the confirmations so far, the kit on the stick. One action
per step of `await_press` (the LED, resolve, open, drain, the held-key check, `select`,
`read`), so that the keys move between any two of them, and one per file of the kit.
Gestures are numbered for the properties' sake; the code sees codes and values. `CaUsbRun`
has the gate as its two outcomes.

**`Extract`** (`extract.py`) is a function, one round of the loop after the other over
an archive's members (a recursive function on their number, so that it can be reasoned
about); a name is the sequence of its components, a tree a function from names to contents.
An archive also has an end, of which `tarfile` makes what it does: a header that is broken
or missing after the first member is the end of the archive and no error, an extended
header without its member or data that are cut off are an error, after the data that are
there have been written.
`Exactly` says what an archive stands for, without going through it.
**`JobRun`** (`dispatch.py`, `collect.py`) runs a job beside the
harness: the leader, the init of a script's PID namespace, and its children, with the
process group, the pipes, the pending signals and the output directory they share. The
kernel and the `unshare`/`setpriv` chain are external and do what `dispatch.py` counts on:
the namespace goes with its init, `communicate()` returns when the leader has exited and
nobody has the pipes, `killpg` reaches the group. `collect()` is one action per listing,
open and copy, the processes that survive being free to act in between.

**`Visit`** composes the three: archive and manifest before the gate, the gate before the
job, the job's end before the stick leaves. It adds no state of its own, and
`VisitImplementsGate` shows that it takes no step of the gate but the gate's.

The `MC*` modules give the constants for TLC; `*Proofs` hold the proofs, those about
`Extract`, `JobRun` and `Visit` in `VisitProofs`.

## 3. Runs

Passing:

* `commitlog_power` (2 jobs, 3 sequence numbers, 2 executions, one with an output
  file and one without; power cuts at any step, fair): results stay durable
  once handed out, caches agree whenever sticks are served, no job with a DONE is
  executed again, the store implements the ordered ledger (sequence numbers are unique
  and rise), and the box serves again after a cut.
* `commitlog_faults` (2 sequence numbers; power cuts, kills, I/O errors, failing
  boot passes): what survives all of them.
* `ca_usb_run` (two sticks: one with a job, its retry as a privileged one without
  co-signature, or an out-of-scope break-glass bundle; one blank; fair): lock, mount,
  LED, delivery, authorisation, and that the lock comes free whatever the job does.
* `trust_anchors` (4 keys, files of at most one key: enough to replace both
  anchors at once; 3 keys with files of any size were checked too).
* `host_registry` (2 hosts, 2 keys, 2 addresses, 3 jobs: the pool runs out, keys
  conflict, addresses are freed by a lost job and given out again).
* `ca_rotation` (3 CAs, 2 identities for the certificates of `sign-hosts`, 2 hosts of
  which rotations skip one, 3 sequence numbers): the box is never keyless, a receipt means
  the retired key is gone, and pair, archive, bundle and block list fit together.
* `visit` (the box's two boards, with a foreign keyboard and with one device that has
  both codes, 2 gestures; a job of at most three processes and 3 output names with a cap
  of 2; archives of at most 3 of 11 members, and of at most 2 with a broken header behind
  them or a third that is cut off, caps of 2 files, 3 bytes and 3 levels; fair): archives,
  gate, kit and job, and that neither a finger nor a job keeps the harness for ever.
* `courier` (2 sticks, 2 processes, 2 sequence numbers; an ordinary job, one that the box
  refuses, and a privileged one built with a co-signature or without): what the Mac's two
  counters say against what the box has done, and what it reports of refused jobs.

Why the bounds are enough: the failures of this code are between *two* jobs or two attempts
at one job (a retry over a partial, a second execution, a released address), with a third
sequence number for what comes after. The second output (none) of `MCOutputsOf` makes a
forgotten wipe visible; four keys are the smallest number with which both anchors change and
a third party is left over. Three CAs and three sequence numbers are a bootstrap, a rotation
that is interrupted, and its repetition or the next one; or a `sign-hosts` that succeeds,
one that is lost after its registry is saved, and the rotation that publishes a block list.
Of the hosts no rotation signs one; `sign-hosts` signs either before the other, or both. Two
identities are the certificate a host uses and the one in the registry; a third `sign-hosts`
waits until no book has the first one's or the second's any more. CAs and identities are
interchangeable and declared symmetric. Two sticks and two processes are what it takes for a
number to be given twice or a result to be received late. In `visit`, two gestures are one
before and one after the LED asks, or the two a recovery needs; three processes are the
leader, the init and one that leaves the group or the pipes; three members reach every cap
from below, exactly and above, and every pair of names that conflict. State is bounded by
the constants; the two artificial guards are in `ConfirmGate`: `MaxPress` ends the gestures
of a visit, and a key repeats (`Repeat`) only when its last repeat has been read.

Violated, each by what the code does (see `findings` in `PROJECT.json`):

* `commitlog_kill`: a job killed between DONE and the cache bump runs again. The
  boot pass would repair the caches, but nobody rebooted.
* `ca_usb_run_led`: the second stick's instance writes the one LED.
* `host_registry_partial`: the records of a failed `sign-hosts` job are committed,
  the registry it built is not; other hosts get its addresses; the boot rebuild
  then moves a host with a valid certificate to another address.
* `ca_rotation_retry`: a rotation is interrupted after the new `ca.crt` is in place
  and comes again, as a job without a result may. The handler then reads the
  half-installed CA as the old one, and the transition bundle of the second
  attempt leaves out the CA every host still uses.

These disagreements have no run of their own. `commit()` may raise with DONE in place (the
fsync after the rename fails), while its caller's comment takes every exception to mean "No
DONE was written -> the job is NOT committed" (`ca-usb-run:837-838`); the `Raise` of
`commitlog_faults` is that step, and the properties of that run hold in spite of it.

`caj-recv` says of an ERROR.json that the job "failed before the job ran" and "No seq was
consumed" (`mac/caj-recv:403-405`). A bundle that was refused because its handler could not
be started may run under the same seq when it is inserted again, and so may one that was
refused because the box's clock stood before 2026, after a `set-time` job of a lower seq; if
that delivery fails, the ERROR.json of the first insertion is all the stick shows. A bundle
that was refused for want of its co-signature may be inserted again and K1 not pressed:
`no_confirmation` is committed under its seq. And of `stale_seq` the seq has been consumed
already, perhaps by that bundle. `RefusedNeverRuns` is the part of the report that holds: a
job that was refused for a reason of its bundle's did not run and will not.

`ca-usb-run` calls LATEST.json "the reader's commit gate" that makes up for vfat's weaker
fsync (`box/bin/ca-usb-run:537-539`, `551-553`). Being written last does not make it durable
last: a stick that is pulled before `_sync` may have it without its files. `LatestIsBacked`
says what holds of such a stick, and `ConfirmedIsPlaced` in `courier` that the hashes
`caj-recv` verifies, not the gate, keep the Mac from taking it for a delivery.

`rotate-ca` says its block list has "every host's current fingerprint"
(`box/handlers/rotate-ca:410`) and takes them from `registry.json`. A `sign-hosts` job that
is lost after saving that file (`box/handlers/sign-hosts:479`) has put a fingerprint there
that no host carries; so has a rebuild from the records of a job that failed
(`rotate-ca:517`). The block list then misses the certificate such a host still uses.
`BlocklistCovers` excepts these hosts, one by one, and no other.

The type invariants of `CommitLog`, `TrustAnchors`, `CaRotation`, `HostRegistry`,
`ConfirmGate` and `JobRun` are conjuncts of what is proved of them and have no run.

The passing runs state these parts as strongly as the code allows: the whole
`commitlog_power` list holds as long as power cuts are the only fault, and
`DistinctIps` and `CertsMatch` hold until a failed job has committed a record of
a name the registry does not have (`salvaged`). `BundleTrustsFleet` is what
`ca_rotation_retry` violates, with the proviso that no rotation ended half-way.

Fairness. `CommitLog`: a process that runs goes on to its end, and a box without power gets
it back and boots; `Recovers` excepts endless power cuts. `CaUsbRun`: only systemd's part,
the start timeout, the stop of a unit whose stick is gone, and `ExecStopPost=`; the job
process itself may hang for ever, which is what the property is about. `Visit`: the harness
and the kernel are scheduled and the timer runs; the process that waits for K1 reads faster
than a key repeats (the strong fairness of `Drained`: the drain comes to an empty queue).
Nothing is asked of the job, which may run for ever, nor of the fingers. The other
specifications have no fairness and no liveness. Deadlock is checked in every run.

## 4. Proofs

For every value of the constants, from the `ASSUME`s of the modules: sequence numbers are
positive, the null values are none of the proper ones; the members of an archive are
entries of their type, and the caps are natural numbers, a name having at least one level
(`TarsAssumption`, `CapsAssumption`); and, for the rebuild of the registry only, the hosts of
a job have their indices at or below the multiplier (`NamesAssumption`: `rotate-ca` takes
it for "comfortably larger than [...] any realistic fleet size"; it does not check it).

* `CommitLogProofs`: with any set of faults, `TypeOK`, `WholeResult`,
  `ConsumedHasResult` and the refinement `WriteOnce`. None is inductive alone. A
  DONE is beside a whole result because, while a commit is in progress, the
  directory's states are known step by step (`InProgress`: before the rename no
  state on disk has a DONE, after it the newest is whole); because the newest
  state is one of those on disk (`Newest`); and because a job only enters the
  caches once its DONE is durable, in `commit()` (`ConsumedDurable`) as in the
  boot pass, which reads a disk that was just settled (`BootDurable`).
  In the same module: `HandedStays`, `CachesAgreeIdle`, `NeverRerun` and the refinement
  `Ordered`, for `Faults \subseteq {"power"}`, the hypothesis in each statement. While a
  commit is in progress, DONE markers, durable results and caches differ in its job alone,
  in a way its step determines (`CacheInv`, `Settled`); the boot pass after a cut makes up
  for that job. `Ordered` needs in addition that one durable result has the highest number
  (`HasHighest`), because the ledger's step asks for a higher one.
* `TrustAnchorsProofs`: `TypeOK`, `Disjoint`, `OperatorRemains`, `ReceiptHolds`,
  `TwoKeyRule`. The key is that a plan is compared with the break-glass set
  before *and* after (`Planned`): then the state between the two renames is as
  good as both ends. `Signed` keeps what the signatures authorised true until
  the last rename.
* `HostRegistryProofs`: `TypeOK`, `DistinctIps`, `CertsMatch`. Until a failed job has left a
  record of an unknown name, every record has the address `registry.json` has for its name,
  so that it does not matter which of them a rebuild takes. That there is one to take rests
  on the sequence numbers having a least and a greatest (by well-foundedness).
  `CacheIsRebuildable` needs more: `registry.json` is the entry the records give for each name
  (`Cached`), the address of the first and the key of the newest. A job's records extend
  that as its registry is extended, because their numbers are above all those before and no
  name has one number twice (`Numbered`); this is what `seq * multiplier + index` is for.
  `AddressesStay` is what holds of `IpStable`, which `host_registry_partial` refutes: until
  `salvaged` has a name, no step moves the address of a certificate.
* `CaRotationProofs`: `TypeOK`, `NeverKeyless`, `ReceiptMeansReplaced`, and, from a second
  invariant, `PairMatches`, `FleetCaKept`, `BundleTrustsFleet`, `BlocklistCovers`.
  `NeverKeyless` is not inductive: undoing a bootstrap does remove both files. It
  holds because a bootstrap only runs on a box that has never reported a CA,
  which in turn rests on the property itself; and because a rotation, at every
  step, has a complete pair in front of it. `ReceiptMeansReplaced` rests on where
  the handler is (after the sync only the new pair is left, after the shredding
  the retired key is not on the disk) and on the minted CA being new (`Known`).
  What the fleet depends on (`FInv`) follows the three books: without a key no host has a
  certificate (`Keyless`); whatever pair a cut leaves, the rest is in an archive that no
  later job overwrites, jobs coming under ascending numbers (`FleetInv`, `Settled`); and
  the hosts a rotation signs are all that have certificates of the CA it replaces
  (`Covers`, `TrustInv`). These hold up to a rotation that ended between its renames
  (`torn`). That registry and records have the very certificate a host uses (`BookInv`) holds
  of every host but those in `stray`, through every rotation: a job's certificates are new
  ones, so that what it has entered in the registry is told from what was there before.
* `ConfirmGateProofs`: `LiveGesture`, `KitIsConfirmed`. The file is opened after the LED asks,
  so that everything in its queue is later (`Later`), while what was confirmed before is not
  (`Earlier`): the press that accepts the offer cannot also be the second confirmation.
* `VisitProofs`. Of archives: `extract` makes of every archive what it stands for
  (`ExtractedExactly`), hence `PayloadExact`: "stands for" ends where `tarfile` ends (`Whole`,
  `AtEnd`), so that an archive cut off between two members is one of fewer. The induction over the members (`Unpacks`) says
  that the members so far are acceptable, together, and the tree has their files, or that
  the tree is that of the members before the first that is not. Induction itself is that
  a non-empty set of numbers has a least member, from the well-foundedness of `<`; the
  library's induction theorems cannot be instantiated here.
  Of jobs: `OkMeansComplete`, `OwnBytesOnly`. An exit code of 0 says that nothing of the
  job is left (`ZeroMeansDead`): the leader gives it only after the namespace's init, which
  outlives the rest. From then on the copies agree with the directory entry by entry
  (`CopiesAgree`).
  Of whole visits: they implement the gate's specification (`VisitImplementsGate`), and the
  five properties hold of them (`VisitInvariant`, `VisitSafe`).
* `CaUsbRunProofs`: `TypeOK`, `SafeRemoveMeansUnmounted`, `SafeRemoveMeansDelivered`,
  `LatestIsBacked` and the action property `OnlyAuthorisedRuns`. A step is one instance's,
  leaves the others' state alone (`OthersKeep`), and never takes a result from the store
  (`StoreGrows`); so what an instance has established at each step stays true whatever the
  others do: the bundle in its hand has passed the checks (`BundleInv`), what it is going
  to tell is in the store (`ToldInv`), its stick shows what it has copied (`StickInv`),
  and of what a pull may leave every LATEST.json is one of the store's; as long as the stick
  is not in `hasty`, what it shows has its files. The
  LED belongs to nobody: that SAFE_REMOVE is not lit over a mounted stick rests on the
  holder of the lock putting it out before it mounts (`LedInv`), and on those without the
  lock never lighting it. The store implements the write-once ledger of `JobLedger`
  (`WriteOnce`), as `CommitLog` does in detail.
* `CourierProofs`: `TypeOK`, `FreshSeqs`, `SignatureLast`, `ConfirmedIsPlaced`,
  `RefusedNeverRuns` and the action property `LastSeqNeverFalls`. Behind `.caj.lock` what a
  process has read stays so (`WorkInv`, `WriteInv`). Everything is ordered by the highest
  number given out (`Top`): one bundle has each number (`OneBundle`, `GivenOut`), neither
  ledger nor counter is above it (`LedgerInv`, `CountersInv`), so the next is fresh for
  the box too. A bundle that was refused for want of its co-signature was whole when the
  box saw it, so that no process adds one afterwards, and one that is unfit never gets to the
  ledger (`CrumbInv`): these reports stay true.

Every safety and action property of the passing runs is proved. Only model-checked:
liveness (`Recovers`, `LockComesFree`, `GateEnds`, `TimeoutEnds`), which is out of the
prover's reach, and the four runs that find a violation. The proofs add nothing for the
steps the modules leave out (section 5).

## 5. Not modelled

* `backup-ca`, `set-time` and `status` call one program or read what others keep;
  `nebulacli`, `audit` and `config` are wrappers, an append, constants; the install scripts
  run once, and their disjointness check is `TrustAnchors`' initial state.
* The bytes of certificates, receipts and kit files, the manifest's schema beyond its
  verdict, the LED's and the lock file's own I/O errors.
* Of the anchors' lines the principals: `verify.py` asks for exactly one principal of a key,
  so that `OperatorRemains` speaks of keys that are listed, not of lists it would reject.
* What a vfat stick makes of an output's name; `collect` asks for no slash and no reserved name.
* Of a job: environment, user ids, limits and file modes. Paths are sequences of names, and
  `openat2`'s resolution is "no link is followed".
* Of a confined script's end, `TimeoutEnds` excepts one case (`Strayed`): its first process has
  left the group before `killpg`, and `setpriv`'s change of uid has cleared the signal it
  would get for its parent's death. `dispatch.py:107-125` counts on the whole subtree being
  torn down; what remains then goes with the service's cgroup.
* On the Mac `caj-hw`, the parsing of job specs, power cuts (`caj` does not fsync its
  reservation, and says why), and what the repository holds when results are received out of
  order.

`PROJECT.json` gives the reason for each component.

## 6. Plan

1. Done: `CommitLog`, `CaUsbRun`, `TrustAnchors`, `HostRegistry`, `CaRotation`, `Courier`,
   `ConfirmGate`, `Extract`, `JobRun`, `Visit`, with proofs of their safety properties.
2. `Courier`: a run for "No seq was consumed", the files of the repository with
   results received out of order, and a power cut that takes a reservation back.
   `CaRotation`: a run for "every host's current fingerprint".
3. A run of `CaRotation` for the box whose bootstrap was cut between the removal of
   the certificate and that of the key: neither `ca-bootstrap` nor `rotate-ca`
   accepts it.
4. Proofs: what `TransitionTrusts` promises a rotation that was not interrupted; under
   which faults `CaUsbRun`'s store is the ordered ledger, which `Courier` takes the box for
   (a kill between DONE and the caches is the one exception known).
