# Verification of bazzite-tower

bazzite-tower is an atomic desktop image. Most of it is configuration; its own
logic is a set of root helpers, the units that call them, and the CI scripts
that build and promote the image. This directory models that logic in TLA+,
checks it with TLC and proves what matters most with TLAPS.

## Inventory

| Component | State it keeps | Operations | Hard parts |
|---|---|---|---|
| Deny trial: `usr/libexec/bazzite-tower-snitchwatch-deny`, guard and status units, drop-in of `opensnitch.service` | live config, backup, state file, opt-in marker, snapshot in `/run`, transient timer, policy lock | `on`, `confirm`, `off`, `revert-if-pending [--boot]`, `publish-status` | order of durable writes, kills and signals between them, reboots, the timer and the guard racing root, systemd waiting on the helper that waits on systemd |
| Bridge migration: `bazzite-tower-snitchwatch-migrate` | live config, journal `current.json` and archive, retained displaced configs, four units, same lock | `check`, `apply`, `rollback` | atomic exchange against other root writers, failure inside the failure handler, kill between journal and effect |
| Shared checks: `bazzite-tower-snitchwatch-common.py`, readiness helpers | none (reads the image, config, units) | refuse or accept | decides what the other two may do; `deny_opt_in` reads two files that change separately |
| Docker/libvirt forwarding | iptables chains | reconcile, from a path unit, a timer, a service and NetworkManager | concurrent triggers, docker rewriting its chain |
| Suspend and link guards (bluetooth, Wi-Fi backend) | unit and device state | repair after resume / at boot | ordering with suspend |
| Base refresh: `ci/base-refresh.py`, `.github/workflows/base-refresh.yml`, with `ci/r13-publication.py` and `ci/rpm-inventory-spdx.py` | workflow runs and their artifacts, registry tags, signatures, attestations, the policy on main | resolve, build, collect, validate, revalidate, sign, attest, baseline, fresh, move the tags | reruns of all or of the failed jobs, upstream going back, two writes for two tags, lost answers, a policy merged in between |
| Native build: `build_files/firewall/snitchwatch-system-*` | scratch directories, hand-offs between stages, receipts, processes of the build uid | contained commands, export, compare, adopt, assemble, verify | third-party code runs as an unprivileged uid: processes that survive, links it leaves, files it may rewrite until it is gone |
| Base bump guard, candidate approval, repin (CI) | pull requests, pin files | bump, approve, repin | stale data between check and promotion |
| Daemon shutdown patch | Go daemon, third party | shutdown, journal | concurrency inside the daemon |
| Diagnostics, one-shot setup | none | report, set once | none worth a model |

The helpers meet in three places: the policy lock
`/run/lock/bazzite-tower-snitchwatch-migration.lock`, the config
`/etc/opensnitchd/default-config.json`, and `opensnitch.service`. The deny helper
calls `systemctl restart opensnitch.service` while it holds the lock; that start
job pulls in the guard unit, which is the deny helper again.

What makes the parts correct: deny is never in force without a way back that does
not need root (deny trial); a failed or killed migration can be rolled back and
never loses an operator's edit (migration); the forwarding rules converge
whatever the order of the triggers (forwarding); nothing is promoted that was not
checked and no channel goes back (base refresh); what third-party code can write
never decides alone what is shipped (native build).

## Modules

`DenyTrial.tla` models the deny trial: helper, units and what surrounds them.
`Migration.tla` models the migration helper; the two helpers are not composed yet.
`Refresh.tla` is the base refresh and `Channel.tla` the abstract release channel it
implements. `Containment.tla` is the run of one unprivileged command;
`NativeBuild.tla` extends it with the stages of the native build. `Forwarding.tla`
is the docker/libvirt helper with its callers. Of each `X` but `Channel`, `MCX.tla`
is the module TLC runs and `XProofs.tla` holds the theorems; `DenyTrialFaultProofs.tla`
extends `DenyTrialProofs.tla` with what depends on the kinds of failure.

The next two sections are about `DenyTrial.tla`; the others follow.

### State

| Variable | Code |
|---|---|
| `config` | `/etc/opensnitchd/default-config.json`: the action and a body that stands for all other bytes |
| `backup`, `state`, `marker` | `config.backup`, `state.json`, `/etc/bazzite-tower/snitchwatch-deny-optin`; the two digests in the state are determined by the body |
| `snapshot` | `/run/snitchwatch/deny-status.json`: action, pending, opt-in |
| `timer`, `armedFor` | the transient timer: its triggers still to come, the trial it was armed for |
| `daemon`, `guard` | `opensnitch.service` (the action it loaded, `"down"`, `"starting"`) and the guard unit |
| `lock`, `pc`, `cmd` | holder of the lock, each process's place and subcommand |
| `seen`, `rec`, `changed`, `invoked` | locals of the one command inside the lock |
| `boot`, `trials`, `late`, `faults` | boot id, trials so far, trials past `expiresAt`, failures so far |

The processes are the operators' shells, the service the timer starts, and the
guard. A label is a point before one durable effect; an action is that effect.
So a kill, a signal, a reboot, an edit or another process comes between any two.

### Actions

| Actions | Code |
|---|---|
| `Invoke`, `Acquire`, `Busy`, `LockTimeout` | `main`, `policy_lock` |
| `On*`, `RestartDaemon` | `turn_on`; `OnVerify` and `OnReplace` are the two halves of `publish(expected=...)`; `OnUnsynced` is an error or a signal between the rename of the state file and `systemd-run` |
| `Confirm*` | `confirm` |
| `OffRefused`, `OffCheck`, `Revert*` | `turn_off`, `revert_if_pending` |
| `Restore*`, `Drop*`, `StopTimer`, `StopFails`, `Await`, `RestartFails` | `restore_allow`, `discard`, `stop_timer`, `restart_daemon`, for `off`, the timer, the guard and the rollback of `on`, with what each caller does when one of them fails |
| `PublishSnapshot` | `write_snapshot`, `publish_snapshot`, `publish_status` |
| `GuardLook`, `GuardReread`, `SetAside`, `DropOptIn`, `QuarantineFails`, `StopRevert` | `boot_guard`, `recover_bad_state` |
| `Elapse`, `Deadline`, `DaemonUp`, `DaemonDies`, `DaemonStart`, `Kill`, `Edit`, `Corrupt`, `Reboot` | systemd, the clock, the daemon, other root processes, the machine |

Choices a reader should know:

- Ids are counted, not random; `uuid4` never repeats.
- `publish` of a state file, a marker or a backup is one step (rename is atomic);
  an error in the directory sync after the rename is an error at the next label.
- `systemd-run --unit=` refuses a unit that is still loaded. This is why the
  timer of one trial cannot meet the next one.
- A `systemctl restart` stops the daemon at once and returns when the start job
  has ended; it may also exceed its timeout with the job still queued.
- SIGTERM and SIGHUP raise in `on` and are ignored in its rollback. In the other
  commands they end the process, which is `Kill`. SIGINT in the last part of the
  rollback (timer, restart) also ends it, which is `Kill` again; in `off` it acts
  like the failure of the call it interrupts.
- Refusals change nothing, so conditions that only lead to a refusal (bridge
  socket, ownership of the config) are taken as met; `SystemBodies` keeps the
  profile and `ProcMonitorMethod` because an edit can change them in between.
- `Edit` never turns deny on: an operator who does that by hand is outside the
  helper's promise.
- The trial's deadline and the two triggers are ordered only as far as the code
  orders them: the wall-clock trigger is not before the deadline.

### `Migration.tla` and `MCMigration.tla`

The helper `bazzite-tower-snitchwatch-migrate`: the live config, the journal
`current.json` with its archive, the displaced configs that were kept (`retained`
in the journal directory, `strays` under a temporary name), the units and the
policy lock. `last` is a history variable: the config root put in place last.

| Actions | Code |
|---|---|
| `Invoke`, `Acquire`, `Busy` | `main`, flock with `LOCK_NB` |
| `Check*`, `Capture*`, `Archive`, `Prepare` | `check` and `apply` up to `save(prepared)` |
| `StopDaemon`, `Verify*`, `Activate*`, `Start`, `Ready*`, `Applied`, `Handle` | the `try` of `apply` and its `except BaseException` |
| `Exchange`, `Compare`, `Recheck`, `Unlink`, `Retain`, `RetainFails` | `conditional_config_write`, called by `apply` and by `restore` |
| `Rollback*`, `Restore*`, `Save` | `rollback`, `restore`, the saves of both |
| `SystemctlFails`, `Conflict`, `Fails`, `SyncFails`, `InterruptedExchange`, `Kill` | what may go wrong, caught where the code catches it |
| `Edit`, `UnitChanges` | another root process, systemd |

`Raise` is what an exception does: to the handler of `apply`, or, inside `restore`,
to the save of `recovery-required`. A config is a value: two configs are equal when
bytes, owner, mode and label are. `Legacies` differ from each other in layout only,
so their replacement is the same `System`. Consecutive reads that must agree
(line 213) are one step. The two sockets are one unit. The preflight checks other
than the config's are one nondeterministic refusal, `Conflict`. A `systemctl` that
fails or times out has reached any part of its aim.

### `Refresh.tla`, `Channel.tla` and `MCRefresh.tla`

A run of the workflow is a record: the commit it was dispatched on, its attempt,
the base it resolved, and for each of the two profiles the place of its chain of
jobs, the artifact in the store, the artifact that was validated and how many tags
were moved. `tags`, `signed` and `attested` are the registry; `main` indexes the
sequence of reviewed policies. An image is its content, so equal images have
equal digests.

| Actions | Code |
|---|---|
| `Dispatch`, `Start`, `End`, `Rerun`, `RerunFailed` | schedule, dispatch, the concurrency group, "re-run all jobs" and "re-run failed jobs" |
| `Resolve`, `ResolveFails` | job `resolve`; `policy`, `base_version` |
| `Build`, `BuildMisreports` | jobs `build`: `source`, the image build, `collect`, the upload |
| `Validate` | `validate --execute` in a job without credentials |
| `Sign`, `Attest` | publisher: `revalidate`, staging tag, cosign |
| `CheckBaseline`, `CheckFresh` | `attestations`, `baseline`, `bootstrap_failure`, `fresh` |
| `Move`, `MoveLost` | the two tag writes, each compared after it was written |
| `Swap`, `JobFails` | another artifact comes out of the store; a step fails or is cancelled |
| `Merge`, `Promote`, `Delete` | a reviewed policy change, `release.yml`, somebody deletes a tag |

`Consistent` is what `validate` compares without running the image, `Executed`
what it compares by running it, `Baseline` and `Monotonic` are the functions of
these names. `Channel` states what a subscriber may rely on: the leading tag never
goes back, an alias only repeats the tag before it, a missing leading tag is
created again at most once. `LegacyIsChannel` (`stable`, `latest`) and
`SystemIsChannel` (`snitchwatch-system`) say that the workflow implements it.

Choices: versions and kernels are numbers in the order the parsers give them, with
one kernel that does not parse; the version of an image's base is the one `resolve`
recorded (the image's own is not read again); only this workflow writes `stable`
and `latest`, and only it and `release.yml` write `snitchwatch-system`; a run that
waits behind an active one does nothing, so runs join the queue when the group is
free; tags are deleted between runs only. `clean` is a history variable for the
premise of `HonestRunLands`.

### `Containment.tla` and `MCContainment.tla`

`run` with `kill_leftovers` and `children` of `snitchwatch-system-unpriv.py`, and
`run_unprivileged` of `snitchwatch-system-stage.py`. The state is the process table
(`state`, `parent`), root's place (`phase`) and the locals of the scan: entries of
`/proc` still to read, children found, rounds. `Spawn`, `TimedOut`, `Ended`,
`Scan`, `Read`, `ReadAll`, `Kill` and `Reap` are root's; one `stat` file is read
per step. The command's processes fork, exit and collect their children between
any two of these, and make themselves subreapers (`Dies` gives the orphans to root
or to any ancestor of the one that died); pids are reused by strangers. A drop of
the privileges is taken, fails in one of its steps, or is void: every step succeeds
and something is left, for instance capabilities that securebits keep. A failing
step aborts the exec in both scripts. A void drop is refused by the child of
`unpriv.py`, which reads `/proc/self/status` back, and executed by the one of
`stage.py`, which does not (`Executes`, whose parameter `looks` tells the two
apart). Processes that cannot be killed (uninterruptible sleep) are left out.

### `NativeBuild.tla` and `MCNativeBuild.tla`

The stages of the Containerfile share only a common ancestor, so they are taken
one after the other: scanner, bridge, its rebuild, daemon, assembly.

| Actions | Code |
|---|---|
| `Enter` | `bridge-build.sh`, `scanner-stage.sh`: network probe, RPM set, fresh Cargo home, `inputs` of `scanner-build.py` |
| `Prepare` | `prepare` of `unpriv.py` |
| `Run` | the contained commands (all of `Containment`); they read their drop back in every stage but the assembly |
| `Write`, `Escape`, `Overwrite` | what third-party code, or somebody it left behind, does to the scratch directories at any moment it lives; through a hole or after a void drop, to root's files and tools; to the extracted bridge executable |
| `AfterJob` | what the stage script checks after a command, `selfcheck` included |
| `Record` | `scanner-stage.sh`: root's own input record replaces the build's copy |
| `Export` | the RPM set (bridge stages), `handoff.py export` |
| `BuildDaemon` | `daemon-stage.py` |
| `Gather` | `assemble.sh`: `handoff.py check`, clean checkout, config, `daemon-verify.py`, `compare-bridge`, `require_not_writable_by` |
| `AfterBridge`, `Adopt`, `Assemble` | `stage.py`: `run_unprivileged` for `--version` and `stage.sh`, `adopt_unprivileged_stage`, the overlay, `verify.py` |

`defect` is one thing wrong with what the stages start from, `hole` one thing the
build uid can write outside its scratch directories; both are chosen in `Init` and
found, or not, by the checks. A hole of the common ancestor is open in every stage,
the assembly included. A `hidden` hole is one no check sees: a file in a directory
that may be searched but not listed, which `selfcheck` reports as `unlistableDirs`
and accepts (finding 6).

`tampered` is the set of stages in which third-party code got at root's files. What
it changed there is left open, so such a stage may hand over any files of the
allowlist (`Forgeries`), and a tampered assembly may ship anything; the next stage
starts from the common ancestor again. `RootTreesIntact` says when that can happen
at all, the other properties what is left of the promise when it has: two tampered
bridge stages can agree on other bytes, one cannot; a tampered scanner stage can
forge a record, but not one that contradicts the pins or its receipt. A void drop
in the assembly is noticed by nobody; nothing is claimed of the overlay once it was
used against root's files.

A product is what an honest build gives or something else; foreign bytes
are those a link leads to. The bytes of receipts and manifests are abstracted to
what they name.

Things a reader may want to know: the daemon is built as root with the network
on, its protection is the checked source and the second build; the scanner's two
builds run in one stage as one uid, so its receipt is evidence made by the code it
describes, and `ScannerEvidenceHolds` claims no more than that receipt, record and
binary belong together and the record is root's.

### `Forwarding.tla` and `MCForwarding.tla`

`docker-libvirt-forwarding` command by command, for each of its callers: `docker`
(ExecStartPost of docker.service, which is not active before it ended), `unit`
(docker-libvirt-forwarding.service: conditions, a first pass, a second one if the
first was good) and the dispatcher's background processes. `rules` counts how
often each rule stands in DOCKER-USER; a rule is its comment (bridge, network,
uplink) and a direction.

| Actions | Code |
|---|---|
| `Acquire`, `Route`, `List`, `Look` | flock, default route, `net-list`, `net-dumpxml` with the bridge's address |
| `Overlook` | `awk` fails in the process substitution of line 154: the bridge seems to have no address |
| `Check`, `Insert` | `ensure_rule`: `-C`, `-I` |
| `Listed`, `Delete`, `Done` | `reconcile_stale_rules`: the listing, one `-D` per line, each of which may fail alone |
| `Fails` | the lock's timeout, a failing command, a kill |
| `Trigger`, `ExecStart` | path unit and timer, ExecCondition, ExecStart |
| `Dispatch` | the dispatcher, for any event of NetworkManager while docker is up |
| `NetworkChanges`, `RouteChanges`, `DaemonExits`, `DockerStarts`, `DockerStops`, `Flush` | libvirt, the default route, virtnetworkd's idle exit, docker, another iptables user |

A bridge has one address at a time. Rules of others are left out: they do not
match the comment's shape and are never candidates. `Trigger` may happen whenever
the service is idle, so whether the path unit lost an event makes no difference to
the model; the timer justifies its fairness. Three variables are history: `steady`
(nothing happened to networks, route, docker or chain since the lock was taken),
`mistaken` (how often `-C` failed for a rule that stood) and `blind` of a helper's
locals (it overlooked an address).

## Runs

Bounds are named constants: `MaxTrials`, `MaxBoots`, `MaxFaults`. Two trials are
needed for one trial's leftovers to meet the next; two boots for the guard to
have work and for a start job in each; two faults for a failure inside the
handling of a failure. `Faults` selects the kinds a run admits. `lock-timeout` is
admitted any number of times. The three bodies are a system config, a legacy one
and one whose key cannot be edited safely. Deadlock checking stays on for the deny
trial and the migration. In the refresh, the containment and the native build the
system may stop: no more runs are
dispatched once the bounds on runs and attempts are reached, and a build that
is refused or done has no next step. It stays on for the forwarding as well.

| Run | Checks | Shows |
|---|---|---|
| `deny_safety` | `TypeOK`, `DenyRecorded`, `NoStaleDeny`, `MarkerOfThisTrial`, `GuardSparesThisBoot`, `TimerRevertsItsTrial` | hold under all 13 kinds of fault |
| `deny_armed` | `TrialIsArmed` | holds when the rollback's own restore does not fail |
| `deny_orderly` | `DenyNeverLingers`, `StartJobEnds` | under `FairSpec`, when stopping the timer and restarting the daemon work and nobody kills the helper; the cycle restart, guard, lock is broken by the bounded wait |
| `deny_ends` | `NoRestartDeadlock`, `SnapshotIsCurrent`, `TrialEnds` | two operators, timer and guard under `FairSpec`; stopping the timer and restarting the daemon work (finding 2); one boot (the guard publishes nothing, see below) |
| `migration_safety` | `TypeOK`, `OperatorConfigSurvives`, `SystemIsJournaled`, `RollbackCompletes` | hold, under `FairSpec`, with every kind of fault but the interrupt of finding 5: two transactions, three faults |
| `migration_drift` | `DaemonStopsOnDrift` | two shells; holds when the displaced config can be kept and the failure handler itself is not interrupted |
| `migration_retain` | `DaemonStopsOnDrift` | violated: finding 4 |
| `refresh_safety` | `TypeOK`, `ChannelIsTruthful`, `AliasTrails`, `NoDowngrade`, `PointerHasOwnEvidence` | hold under every kind of failure: misreporting builds, swapped artifacts, lost answers, promotions, deleted tags |
| `refresh_lands` | `LegacyIsChannel`, `SystemIsChannel`, `HonestRunLands` | the workflow implements `Channel` for both profiles; under `FairSpec` an undisturbed acceptable run ends with every tag on its product |
| `containment` | `ContainmentTypeOK`, `NothingSurvives`, `StrangersAreSpared`, `CleanUpEnds` | a bounded number of scans finds every descendant or refuses, and kills nobody else |
| `native_build` | `TypeOK`, `RootTreesIntact`, `NoDefectShips`, `NothingForeignCrosses`, `ShippedIsBuiltTwice`, `ScannerEvidenceHolds` | whatever the build uid writes, forks or leaves behind, whatever single defect and hole the stages start from, and whatever a stage that was tampered with hands over |
| `forwarding` | `TypeOK`, `SuccessIsExact`, `InsertedOnce`, `Converges` | an undisturbed good pass that overlooked nothing leaves exactly the wanted rules, overlapping callers insert none twice, and the rules converge under `FairSpec` |

For the migration, `MaxTransactions` = 2 lets a closed journal meet the next
`apply`; three faults allow an edit, a failure after it and a failure in the
handler.

For the refresh, three runs with three attempts in all: the bootstrap exception
names runs 1 and 2, so a third is the first ordinary one; a third attempt is
needed to repeat a run after another has published. The four bases hold two that
are each a downgrade of the other (version against kernel) and one whose kernel
does not parse; the second policy accepts another source and raises a floor.
One failure at a time; merges are not counted.

For the containment, four pids make a command, a child, a grandchild and one that
takes over a freed pid; three rounds instead of the 50 of `kill_leftovers` let it
give up as well as succeed after a second scan. The native build needs only a
command and a survivor (two pids, two rounds); all nine defects and five holes
occur, one of each at a time. With the hidden hole every stage may forge what it
hands over, which multiplies the states: the constraint `Alone` keeps commands
to one process there.

For the forwarding: two networks, each with its address, none, or stopped, two
uplinks, three helpers at once, four changes (docker's start, a network, and two more
that make its rules stale or cut a pass in two), two failures (a duplicate and a
failing `-D` of it). A rule of an old address is obsolete in the same way as one of
an old uplink, so one address per network is enough for TLC; the theorems have any
number.

### Fairness

`Fairness` says: a running command goes on (each call it makes has a timeout);
polling for the lock succeeds if the lock is free again and again (strong
fairness on `Step`, as flock is polled every 0.1 s and holders come and go);
a waiting command times out where the run admits that; the guard goes on;
triggers elapse, deadlines pass and systemd works off start jobs. Nothing is
assumed about root typing commands, about reboots or about failures.

`FairSpec` of `Migration` says only that a started command goes on (each call it
makes has a timeout, the lock is not waited for). `RollbackCompletes` has root's
repeated attempts as its premise.

`FairSpec` of `Refresh`: GitHub gives each job of the active run a runner, and
each job ends, by its timeout at the latest. Nothing is assumed of dispatches,
reruns or merges. `FairContainment`: root's process runs, SIGKILL is delivered
and `waitpid` returns. Nothing is assumed of the command, which may go on for
ever; `CleanUpEnds` starts when it has ended. `FairSpec` of `Forwarding`: a
running helper goes on (its commands end, the lock is held for one pass), and the
timer starts the service again and again (`OnUnitInactiveSec`). `Converges` has a
settled machine as its premise, virtnetworkd's presence included: without the
daemon the service is skipped, and stale rules that a failed pass left stay until
docker or the dispatcher runs the helper.

### Findings

Finding 4 is a run. The others are traces of the same models: 1, 2, 3 and 5 are shown
by adding the kinds of fault named in brackets to `Faults` of the run that checks the
property without them, 6 and 7 by adding the invariant named in brackets to the run.

1. The rollback of `on` stops the timer even when its restore failed (lines
   392-394). Two SIGINTs, or one failure and a config that cannot be restored,
   leave deny in the config, pending, with nothing armed in this boot; the
   comment at line 363 and the message at line 391 say the timer remains.
   (`TrialIsArmed` in `deny_armed`, with `"interrupt"`.)
2. `off` skips the daemon restart when stopping the timer fails (line 442). The
   record is gone by then, so a second `off` has nothing to do and the daemon
   enforces deny until somebody restarts it. (`DenyNeverLingers` in
   `deny_orderly`, with `"stop-timer"`.)
3. The quarantine of a damaged state catches `Refusal` but not `TimeoutExpired`
   (line 506): the guard fails after it has done its work, and the firewall stays
   down. (The last disjunct of `StopRevert`, with `"corrupt"` and `"stop-timeout"`.)
4. When the displaced config cannot be moved to the journal directory (line 123,
   again at line 138), an `OSError` instead of `PublicationDrift` reaches the
   handler: it restores the baseline, starts the daemon and records
   `failed-restored`; RUNBOOK.md line 738 says `recovery-required` with OpenSnitch
   stopped. The move is from `/etc` to `/var/lib`, and `rename` does not cross
   mounts.
5. `exchanged` is set after the exchange returned (line 113). SIGINT between the
   two makes the `finally` unlink the displaced config unread; the comment at line
   115 says it is never deleted unless it matches the baseline.
   (`OperatorConfigSurvives` in `migration_safety`, with `"interrupt"`.)
6. `selfcheck` accepts directories it cannot list (`unpriv.py` line 385). A writable
   file in a directory of mode 0711 is not found, and the third-party commands that
   follow can write it. The docstring (lines 25-27) says `selfcheck` proves that
   "nothing else on the filesystem is writable or owned by BUILD_UID", the comment at
   line 55 calls the walk "the general proof". (`NothingElseWritable` in
   `native_build`.)
7. The addresses of a bridge are split by `awk` in a process substitution
   (`docker-libvirt-forwarding` line 154), whose failure neither `set -e` nor
   `pipefail` sees: the bridge passes for one without an address, its rules are
   pruned and the pass succeeds. `tests/test-docker-libvirt-forwarding.sh` line 163
   says "Listing a network or a live bridge address must fail loudly rather than be
   mistaken for an empty desired state (which would otherwise prune good rules)"; it
   lets `virsh` and `ip` fail. The next pass of the timer repairs it (`Converges`).
   (`FailsLoudly` in `forwarding`.)

`stage.py` does not read the drop of its privileges back as `unpriv.py` does. No doc
says it would; the exception in `RootTreesIntact` is what remains of it.

Not a run of its own: the boot guard publishes no snapshot, so `SnapshotIsCurrent`
does not hold across a reboot. RUNBOOK.md line 382 lists the boot revert among the
changes that publish, line 408 says it does not; the run checks the property
within one boot.

Known windows without a property: `publish` re-reads the config just before
`os.replace`, and a root writer between the two is overwritten (the helper's header
says so); `discard` unlinks without syncing the directory; a kill between archiving
the closed journal and saving the new one makes every later `apply` refuse.

Not claimed of the refresh: main may change between `fresh` and the tag writes,
and an image of the earlier policy is then published; what holds is that the image
meets the policy its own evidence names. When attempt 1 of run 2 is lost, nothing
creates a missing `stable` any more.

## Proofs

Every theorem holds for every value of the constants. What is assumed of them is
named beside their declarations and evaluated by TLC in every run: bounds are
numbers, the "absent" values (`NoImage`, `NoRecord`, `None`, ...) differ from what
they stand for, names of processes differ. Beyond that, a release's version and
kernel and a policy's floors are numbers, a policy's kernel floor is one that
parses, and there are at least two runs (the recovery names run 2). None of the
safety properties is inductive. Each inductive invariant below was checked with TLC
on the instance of its run before it was proved.

| Module | Theorems (and the property they state) |
|---|---|
| `DenyTrialProofs` | `TypeCorrect` (`TypeOK`), `DenyIsRecorded` (`DenyRecorded`), `StaleDenyIsNotEnforced` (`NoStaleDeny`), `MarkerIsOfThisTrial` (`MarkerOfThisTrial`) |
| `DenyTrialFaultProofs` | `GuardNeverRevertsThisBoot` (`GuardSparesThisBoot`), `TimerRevertsOnlyItsTrial` (`TimerRevertsItsTrial`), `RestartNeverDeadlocks` (`NoRestartDeadlock`), `EnforcedTrialIsArmed` (`TrialIsArmed`), `DenyDoesNotLinger` (`DenyNeverLingers`), `SnapshotTellsTheTruth` (`SnapshotIsCurrent`) |
| `MigrationProofs` | `MigrationTypes` (`TypeOK`), `ConfigSurvives` (`OperatorConfigSurvives`), `SystemHasJournal` (`SystemIsJournaled`), `DriftStopsTheDaemon` (`DaemonStopsOnDrift`) |
| `RefreshProofs` | `RefreshTypes` (`TypeOK`), `TagsAreTruthful` (`ChannelIsTruthful`), `AliasNeverLeads` (`AliasTrails`), `TagsOnlyAdvance` (`NoDowngrade`), `TagsHaveOwnEvidence` (`PointerHasOwnEvidence`), `LegacyRefines` (`LegacyIsChannel`), `SystemRefines` (`SystemIsChannel`) |
| `ContainmentProofs` | `ContainmentTypes` (`ContainmentTypeOK`), `NobodySurvives` (`NothingSurvives`), `OnlyChildrenAreKilled` (`StrangersAreSpared`) |
| `NativeBuildProofs` | `BuildTypes` (`TypeOK`), `TreesStayIntact` (`RootTreesIntact`), `DefectsDoNotShip` (`NoDefectShips`), `LinksDoNotCross` (`NothingForeignCrosses`), `BuiltTwice` (`ShippedIsBuiltTwice`), `EvidenceHolds` (`ScannerEvidenceHolds`) |
| `ForwardingProofs` | `ForwardingTypes` (`TypeOK`), `NeverTwice` (`InsertedOnce`), `PassIsExact` (`SuccessIsExact`) |

### Deny trial

The invariant has three layers, each preserved with the help of the ones below:

1. `Control`: a process is past acquiring the lock exactly when it holds it; the
   guard's code is run by the guard only; the guard unit is running exactly when
   the guard process is. Needed for everything else, because the helper's locals
   and promises belong to the one holder.
2. `Data`: types, and `LocalsInv` (where the holder needs a config or a trial, it
   has one).
3. `Rest`: `HolderInv` (what the holder may rely on at each label, for instance
   that the config does not say deny while the record is being discarded, and that
   a new trial starts without a marker), `StaleInv` (while a trial of an earlier
   boot is pending, the guard is at work or has failed with the daemon down),
   `DenyRecorded`, `MarkerOfThisTrial`.

`TrialInv` in `DenyTrial.tla` is this invariant without the types.

`DenyTrialFaultProofs` adds four layers on top, each with the failures it excludes:

4. `Care`, for every kind of failure. `turn_on` has nothing pending before it writes
   its record and nothing else recorded after, and its deny comes after the timer was
   armed for this record (`TryInv`); the daemon is not active while the guard runs
   (`RunningInv`), so no trial starts then; a guard that decided to revert without
   the lock therefore finds no trial of this boot once it has it (`GuardInv`); the
   timer belongs to the trial that a deny in the config belongs to (`ArmedForInv`).
   `RestartNeverDeadlocks` also needs `state.json` to stay readable: neither `io` nor
   `corrupt` in `Faults` (`BadInv` says that a bad state comes from nowhere else).
   With a bad state the guard does wait for the lock, until its timeout.
5. `Kept`, without `io`, `interrupt` and `edit`: the config can be edited whenever it
   says deny, so `restore_allow` does not fail (`RestoreSucceeds`), so nobody stops
   the timer while deny is in place, and it takes the deadline to use up the
   wall-clock trigger. With an excluded failure the rollback of `on` may stop the
   timer although it could not restore allow.
6. `LingerInv`, without these and without `kill`, `stop-timer`, `stop-timeout` and
   `restart`: a daemon that enforces deny under a config that says allow is about to
   be restarted by the holder of the lock (`Owed`).
7. `SnapshotInv`, for `MaxBoots = 1` and without `io`, `edit`, `corrupt`, `kill` and
   `snapshot`: whenever the lock is free or its holder has only looked so far, the
   snapshot is current; and the guard never gets as far as the lock. One boot,
   because the guard publishes nothing.

The failures each theorem admits include the ones of the run that checks its property.

### Migration

1. `Inv1`: who holds the lock, and what the holder has in its hands at each label
   (`HolderAt`): from `prepare` on an open journal with the baseline of the record
   it works on; a temporary file exactly while something is displaced. It holds
   under every kind of failure and gives `MigrationTypes`.
2. `Inv2`: the two properties, and `Kept`: while the holder is on its way to close
   the journal (`Returning`), root's config is already safe without it. Without
   `Kept` closing the journal would not be known to be harmless.
   `SystemHasJournal` is proved for all kinds of failure. `ConfigSurvives` assumes
   `"interrupt" \notin Faults`: with it the property is false (finding 5).
3. `Inv3`: a retained config means the drift is on record (`Halted`), in the journal
   or on its way there. `DriftStopsTheDaemon` assumes `Reliable`: no kill, no I/O
   error and no failing move, the same kinds of fault `migration_drift` leaves out;
   with the failing move it is false (finding 4).

### Base refresh

`RefreshInv` says of every job what it has in its hands (`Holds`: the validated
artifact is what an execution of its image found), what it has published (`Vouched`:
only a job of the active run publishes, and from the signature on its evidence is of
this run and attempt) and what its baseline found (`Cleared`); that every attestation
tells the truth (`Truthful`); that every tag has a truthful witness, and none of the
legacy tags exists before the recovery (`TagsOK`); and `AliasTrails`. `Cleared` is
the heart of it: the baseline was read before `fresh` and before the first tag was
written, and remains true because the concurrency group keeps promotions, deletions
and other runs away, and the other profile's job writes other tags. After the first
legacy tag it says that `stable` is the job's image and `latest` no newer, which is
why looking at the leading tag only is enough (`AtLeastTransitive`).

The refinement maps a channel's tags to `pointer` and `Recovered` to `recovered`.
`TagWriters` reduces the steps to four cases: no tag written, a publisher's write
(answered or not), a promotion, a deletion. A publisher's first legacy write is
`Advance` or, from a missing `stable`, `Recover`; the second is `Follow`; a step that
loses the chance to recover is `Forfeit`; everything else stutters. It needs
`RefreshInv` and that a lost chance stays lost (`Preserved`).

### Containment and native build

`ContainmentInv`: a process outside the family has no parent in the table
(`Family`), every nonempty set of descendants has a member whose parent is outside
(`Rooted`), and if anybody is there, a scan has found a child of root or still has
one on its list (`ScanIsSound`). `Rooted` says there is no circle of parents without
an induction along chains of processes, and yields that a family that is not empty
has a child of root: so a scan that finds nobody proves that nobody is left.

`BuildInv` extends `ContainmentInv`. Whenever root looks at a scratch directory
(`pc # "run"`) the clean-up has ended, and by `NothingSurvives` nobody is left to
write there (`Whereabouts`, `NobodyBetween`): the proof uses the containment, not the
shape of the model. In the stages that build, nobody runs without the drop
(`Unprivileged`). The rest is what the checks have excluded by each stage
(`FoundHoles`, `FoundDefects`), what the hand-offs of stages that were not tampered
with hold (`Handed`, `NoLinks`, `Recorded`) and what the assembly has compared
(`Shipped`). Each stage checks only a part, and the later stages rely on what the
earlier ones excluded; `TreesStayIntact` needs this for the assembly, which runs no
selfcheck of its own.

### Forwarding

`Inv`: who is inside holds the lock, a rule stands at most once more than `-C` was
mistaken, and, while nothing around the pass changes (`PassOK`): the pass wants exactly
the comments of the networks it has looked at and not overlooked, their rules stand or are in its
hands, and what it will delete are all others.

### Only model-checked

Every invariant and every safety action property of the passing runs is proved. What
is left to TLC:

- The liveness properties `TrialEnds`, `StartJobEnds`, `RollbackCompletes`,
  `HonestRunLands`, `CleanUpEnds` and `Converges`: fairness and ENABLED are outside
  what the prover handles.

## Plan

1. `DenyTrial`, `Migration`, `Refresh` with `Channel`, `Containment`,
   `NativeBuild`, `Forwarding`, and the proofs above: done.
2. `PolicyLock`, an abstract specification of serialised policy changes, and a
   composition of `DenyTrial` and `Migration` over the shared lock, config and
   daemon (`publish-status` skips because a writer holds the lock, also when that
   writer is the migration).
3. The candidate approval gate, `Repin`, the suspend guards.

## Not modelled

Diagnostics and one-shot setup scripts (no state of their own); the token report
and other developer tools; formatting, logging, argument parsing and file
metadata; `fsync` (files are durable once renamed or unlinked); an unreadable
`boot_id`. Of the refresh: the base bump and the candidate approval, and the
syntax of inventories and SPDX documents beyond what decides acceptance. Of the
native build: the refusals of `verify.py` that look only at the shape of installed
files (units, logger snippets, endpoint events), the internals of Cargo and Go, and
the daemon's own shutdown code. Everything item 3 of the plan lists.
